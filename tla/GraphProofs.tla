---------------------------- MODULE GraphProofs ----------------------------
(***************************************************************************)
(* Flow graphs: the instructions that the conversion makes of one do what  *)
(* the graph does (the theorems about Layout); and the lemmas about graphs *)
(* that ParserProofs needs: the lists of exits that the code generator     *)
(* links, what lists of statements do, how the blocks are numbered and     *)
(* drawn, what a graph means whose blocks lead to a verdict, and how       *)
(* gen_and, gen_or and gen_not combine what two parts decide.              *)
(***************************************************************************)
EXTENDS Parser, BpfLemmas, NaturalsInduction, WellFoundedInduction,
        FiniteSetTheorems, SequenceTheorems

(* Induction over numbers, from the least counterexample.                  *)
LEMMA LeastNat ==
  ASSUME NEW T \in SUBSET Nat, T # {}
  PROVE  \E x \in T : \A y \in T : x <= y
<1>. DEFINE R == {ss \in Nat \X Nat : ss[1] < ss[2]}
<1>1. IsWellFoundedOn(R, Nat)
  BY NatLessThanWellFounded DEF OpToRel
<1>2. \A x, y \in Nat : << y, x >> \in R <=> y < x
  OBVIOUS
<1>. HIDE DEF R
<1>3. PICK x \in T : \A y \in T : ~(<< y, x >> \in R)
  BY <1>1, WFMin
<1>4. \A y \in T : y \in Nat /\ x \in Nat /\ ~(y < x)
  BY <1>2, <1>3
<1>. QED  BY <1>4

LEMMA Induct ==
  ASSUME NEW S, 0 \in S, \A k \in Nat : k \in S => k + 1 \in S
  PROVE  Nat \subseteq S
<1>. SUFFICES ASSUME Nat \ S # {} PROVE FALSE
  OBVIOUS
<1>1. PICK x \in Nat \ S : \A y \in Nat \ S : x <= y
  BY LeastNat
<1>2. x # 0 /\ x - 1 \in Nat /\ ~(x <= x - 1) /\ (x - 1) + 1 = x
  BY <1>1
<1>3. x - 1 \in S
  BY <1>1, <1>2
<1>. QED  BY <1>1, <1>2, <1>3

-----------------------------------------------------------------------------
(***************************************************************************)
(* The recursive functions of the model satisfy their definitions.         *)
(***************************************************************************)

(* The run of a program, instruction by instruction.                       *)
LEMMA RunUnfolds ==
  ASSUME NEW code, NEW n \in Nat, NEW p
  PROVE  LET r == RunOf(code, n, p)
         IN  /\ r[0] = Start
             /\ \A k \in 1 .. n : r[k] = Go(r[k - 1], code, n, p)
<1>. DEFINE F(k, x) == Go(x, code, n, p)
            base == Start
            Body(f, m) == [k \in 0 .. m |-> IF k = 0 THEN base ELSE F(k, f[k - 1])]
            Good(m) == \E f : f = Body(f, m)
            S == {m \in Nat : Good(m)}
            r == RunOf(code, n, p)
<1>. HIDE DEF F, base
<1>1. Good(0)
  <2>. DEFINE h == [k \in 0 .. 0 |-> base]
  <2>1. h = Body(h, 0)
    OBVIOUS
  <2>. QED  BY <2>1
<1>2. ASSUME NEW m \in Nat, Good(m) PROVE Good(m + 1)
  <2>1. PICK f : f = Body(f, m)
    BY <1>2
  <2>. DEFINE h == [k \in 0 .. m + 1 |-> IF k = m + 1 THEN F(m + 1, f[m]) ELSE f[k]]
  <2>2. ASSUME NEW k \in 0 .. m + 1
        PROVE  h[k] = IF k = 0 THEN base ELSE F(k, h[k - 1])
    <3>1. CASE k = m + 1
      <4>1. k # 0 /\ k - 1 = m /\ m \in 0 .. m + 1 /\ m # m + 1
        BY <3>1
      <4>. QED  BY <3>1, <4>1
    <3>2. CASE k = 0
      <4>1. k \in 0 .. m /\ k # m + 1
        BY <3>2
      <4>2. f[k] = base
        BY <2>1, <3>2, <4>1
      <4>. QED  BY <3>2, <4>1, <4>2
    <3>3. CASE k # 0 /\ k # m + 1
      <4>1. k \in 0 .. m /\ k - 1 \in 0 .. m + 1 /\ k - 1 # m + 1
        BY <3>3
      <4>2. f[k] = F(k, f[k - 1])
        BY <2>1, <3>3, <4>1
      <4>. QED  BY <3>3, <4>1, <4>2
    <3>. QED  BY <3>1, <3>2, <3>3
  <2>. HIDE DEF h
  <2>3. h = Body(h, m + 1)
    BY <2>2 DEF h
  <2>. QED  BY <2>3
<1>. HIDE DEF Good
<1>3. 0 \in S /\ \A m \in Nat : m \in S => m + 1 \in S
  BY <1>1, <1>2
<1>. HIDE DEF S
<1>4. n \in S
  <2>1. n \in Nat
    OBVIOUS
  <2>. QED  BY <1>3, <2>1, Induct
<1>5. \E f : f = Body(f, n)
  BY <1>4 DEF S, Good
<1>6. r = Body(r, n)
  BY <1>5 DEF F, base, RunOf
<1>. HIDE DEF r
<1>7. /\ r = [k \in 0 .. n |-> r[k]]
      /\ r[0] = base
      /\ \A k \in 1 .. n : r[k] = F(k, r[k - 1])
  BY <1>6
<1>. QED  BY <1>7 DEF r, F, base

(* A packet's way through a graph, block by block.                         *)
LEMMA WalkUnfolds ==
  ASSUME NEW g, g.n \in Nat, NEW p
  PROVE  LET r == Walk(g, p)
         IN  /\ r[0] = [at |-> g.root, vm |-> Start]
             /\ \A k \in 1 .. g.n : r[k] = Follow(g, r[k - 1], p)
<1>. DEFINE F(k, x) == Follow(g, x, p)
            base == [at |-> g.root, vm |-> Start]
            Body(f, m) == [k \in 0 .. m |-> IF k = 0 THEN base ELSE F(k, f[k - 1])]
            Good(m) == \E f : f = Body(f, m)
            S == {m \in Nat : Good(m)}
            r == Walk(g, p)
<1>. HIDE DEF F, base
<1>1. Good(0)
  <2>. DEFINE h == [k \in 0 .. 0 |-> base]
  <2>1. h = Body(h, 0)
    OBVIOUS
  <2>. QED  BY <2>1
<1>2. ASSUME NEW m \in Nat, Good(m) PROVE Good(m + 1)
  <2>1. PICK f : f = Body(f, m)
    BY <1>2
  <2>. DEFINE h == [k \in 0 .. m + 1 |-> IF k = m + 1 THEN F(m + 1, f[m]) ELSE f[k]]
  <2>2. ASSUME NEW k \in 0 .. m + 1
        PROVE  h[k] = IF k = 0 THEN base ELSE F(k, h[k - 1])
    <3>1. CASE k = m + 1
      <4>1. k # 0 /\ k - 1 = m /\ m \in 0 .. m + 1 /\ m # m + 1
        BY <3>1
      <4>. QED  BY <3>1, <4>1
    <3>2. CASE k = 0
      <4>1. k \in 0 .. m /\ k # m + 1
        BY <3>2
      <4>2. f[k] = base
        BY <2>1, <3>2, <4>1
      <4>. QED  BY <3>2, <4>1, <4>2
    <3>3. CASE k # 0 /\ k # m + 1
      <4>1. k \in 0 .. m /\ k - 1 \in 0 .. m + 1 /\ k - 1 # m + 1
        BY <3>3
      <4>2. f[k] = F(k, f[k - 1])
        BY <2>1, <3>3, <4>1
      <4>. QED  BY <3>3, <4>1, <4>2
    <3>. QED  BY <3>1, <3>2, <3>3
  <2>. HIDE DEF h
  <2>3. h = Body(h, m + 1)
    BY <2>2 DEF h
  <2>. QED  BY <2>3
<1>. HIDE DEF Good
<1>3. 0 \in S /\ \A m \in Nat : m \in S => m + 1 \in S
  BY <1>1, <1>2
<1>. HIDE DEF S
<1>4. g.n \in S
  <2>1. g.n \in Nat
    OBVIOUS
  <2>. QED  BY <1>3, <2>1, Induct
<1>5. \E f : f = Body(f, g.n)
  BY <1>4 DEF S, Good
<1>6. r = Body(r, g.n)
  BY <1>5 DEF F, base, Walk
<1>. HIDE DEF r
<1>7. /\ r = [k \in 0 .. g.n |-> r[k]]
      /\ r[0] = base
      /\ \A k \in 1 .. g.n : r[k] = F(k, r[k - 1])
  BY <1>6
<1>. QED  BY <1>7 DEF r, F, base

(* The statements of a block, one by one.                                  *)
LEMMA PerformedUnfolds ==
  ASSUME NEW t, NEW kept, Len(kept) \in Nat, NEW p
  PROVE  LET r == Performed(t, kept, p)
         IN  /\ r[0] = t
             /\ \A k \in 1 .. Len(kept) : r[k] = Perform(r[k - 1], kept[k], p)
<1>. DEFINE F(k, x) == Perform(x, kept[k], p)
            base == t
            Body(f, m) == [k \in 0 .. m |-> IF k = 0 THEN base ELSE F(k, f[k - 1])]
            Good(m) == \E f : f = Body(f, m)
            S == {m \in Nat : Good(m)}
            r == Performed(t, kept, p)
<1>. HIDE DEF F, base
<1>1. Good(0)
  <2>. DEFINE h == [k \in 0 .. 0 |-> base]
  <2>1. h = Body(h, 0)
    OBVIOUS
  <2>. QED  BY <2>1
<1>2. ASSUME NEW m \in Nat, Good(m) PROVE Good(m + 1)
  <2>1. PICK f : f = Body(f, m)
    BY <1>2
  <2>. DEFINE h == [k \in 0 .. m + 1 |-> IF k = m + 1 THEN F(m + 1, f[m]) ELSE f[k]]
  <2>2. ASSUME NEW k \in 0 .. m + 1
        PROVE  h[k] = IF k = 0 THEN base ELSE F(k, h[k - 1])
    <3>1. CASE k = m + 1
      <4>1. k # 0 /\ k - 1 = m /\ m \in 0 .. m + 1 /\ m # m + 1
        BY <3>1
      <4>. QED  BY <3>1, <4>1
    <3>2. CASE k = 0
      <4>1. k \in 0 .. m /\ k # m + 1
        BY <3>2
      <4>2. f[k] = base
        BY <2>1, <3>2, <4>1
      <4>. QED  BY <3>2, <4>1, <4>2
    <3>3. CASE k # 0 /\ k # m + 1
      <4>1. k \in 0 .. m /\ k - 1 \in 0 .. m + 1 /\ k - 1 # m + 1
        BY <3>3
      <4>2. f[k] = F(k, f[k - 1])
        BY <2>1, <3>3, <4>1
      <4>. QED  BY <3>3, <4>1, <4>2
    <3>. QED  BY <3>1, <3>2, <3>3
  <2>. HIDE DEF h
  <2>3. h = Body(h, m + 1)
    BY <2>2 DEF h
  <2>. QED  BY <2>3
<1>. HIDE DEF Good
<1>3. 0 \in S /\ \A m \in Nat : m \in S => m + 1 \in S
  BY <1>1, <1>2
<1>. HIDE DEF S
<1>4. Len(kept) \in S
  <2>1. Len(kept) \in Nat
    OBVIOUS
  <2>. QED  BY <1>3, <2>1, Induct
<1>5. \E f : f = Body(f, Len(kept))
  BY <1>4 DEF S, Good
<1>6. r = Body(r, Len(kept))
  BY <1>5 DEF F, base, Performed
<1>. HIDE DEF r
<1>7. /\ r = [k \in 0 .. Len(kept) |-> r[k]]
      /\ r[0] = base
      /\ \A k \in 1 .. Len(kept) : r[k] = F(k, r[k - 1])
  BY <1>6
<1>. QED  BY <1>7 DEF r, F, base

(* The sum over the blocks, block by block.                                *)
LEMMA RoomsUnfolds ==
  ASSUME NEW g, g.n \in Nat, NEW bs, NEW long
  PROVE  LET r == Rooms(g, bs, long)
         IN  /\ r[0] = 0
             /\ \A k \in 1 .. g.n :
                  r[k] = r[k - 1] + (IF k - 1 \in bs THEN Room(g, k - 1, long) ELSE 0)
<1>. DEFINE F(k, x) == x + (IF k - 1 \in bs THEN Room(g, k - 1, long) ELSE 0)
            base == 0
            Body(f, m) == [k \in 0 .. m |-> IF k = 0 THEN base ELSE F(k, f[k - 1])]
            Good(m) == \E f : f = Body(f, m)
            S == {m \in Nat : Good(m)}
            r == Rooms(g, bs, long)
<1>. HIDE DEF F, base
<1>1. Good(0)
  <2>. DEFINE h == [k \in 0 .. 0 |-> base]
  <2>1. h = Body(h, 0)
    OBVIOUS
  <2>. QED  BY <2>1
<1>2. ASSUME NEW m \in Nat, Good(m) PROVE Good(m + 1)
  <2>1. PICK f : f = Body(f, m)
    BY <1>2
  <2>. DEFINE h == [k \in 0 .. m + 1 |-> IF k = m + 1 THEN F(m + 1, f[m]) ELSE f[k]]
  <2>2. ASSUME NEW k \in 0 .. m + 1
        PROVE  h[k] = IF k = 0 THEN base ELSE F(k, h[k - 1])
    <3>1. CASE k = m + 1
      <4>1. k # 0 /\ k - 1 = m /\ m \in 0 .. m + 1 /\ m # m + 1
        BY <3>1
      <4>. QED  BY <3>1, <4>1
    <3>2. CASE k = 0
      <4>1. k \in 0 .. m /\ k # m + 1
        BY <3>2
      <4>2. f[k] = base
        BY <2>1, <3>2, <4>1
      <4>. QED  BY <3>2, <4>1, <4>2
    <3>3. CASE k # 0 /\ k # m + 1
      <4>1. k \in 0 .. m /\ k - 1 \in 0 .. m + 1 /\ k - 1 # m + 1
        BY <3>3
      <4>2. f[k] = F(k, f[k - 1])
        BY <2>1, <3>3, <4>1
      <4>. QED  BY <3>3, <4>1, <4>2
    <3>. QED  BY <3>1, <3>2, <3>3
  <2>. HIDE DEF h
  <2>3. h = Body(h, m + 1)
    BY <2>2 DEF h
  <2>. QED  BY <2>3
<1>. HIDE DEF Good
<1>3. 0 \in S /\ \A m \in Nat : m \in S => m + 1 \in S
  BY <1>1, <1>2
<1>. HIDE DEF S
<1>4. g.n \in S
  <2>1. g.n \in Nat
    OBVIOUS
  <2>. QED  BY <1>3, <2>1, Induct
<1>5. \E f : f = Body(f, g.n)
  BY <1>4 DEF S, Good
<1>6. r = Body(r, g.n)
  BY <1>5 DEF F, base, Rooms
<1>. HIDE DEF r
<1>7. /\ r = [k \in 0 .. g.n |-> r[k]]
      /\ r[0] = base
      /\ \A k \in 1 .. g.n : r[k] = F(k, r[k - 1])
  BY <1>6
<1>. QED  BY <1>7 DEF r, F, base

(* What is reached from the root in a number of steps.                     *)
LEMMA CountingUnfolds ==
  ASSUME NEW g, g.n \in Nat
  PROVE  LET r == Counting(g)
         IN  /\ r[0] = {g.root}
             /\ \A k \in 1 .. g.n : r[k] = Spread(g, r[k - 1])
<1>. DEFINE F(k, x) == Spread(g, x)
            base == {g.root}
            Body(f, m) == [k \in 0 .. m |-> IF k = 0 THEN base ELSE F(k, f[k - 1])]
            Good(m) == \E f : f = Body(f, m)
            S == {m \in Nat : Good(m)}
            r == Counting(g)
<1>. HIDE DEF F, base
<1>1. Good(0)
  <2>. DEFINE h == [k \in 0 .. 0 |-> base]
  <2>1. h = Body(h, 0)
    OBVIOUS
  <2>. QED  BY <2>1
<1>2. ASSUME NEW m \in Nat, Good(m) PROVE Good(m + 1)
  <2>1. PICK f : f = Body(f, m)
    BY <1>2
  <2>. DEFINE h == [k \in 0 .. m + 1 |-> IF k = m + 1 THEN F(m + 1, f[m]) ELSE f[k]]
  <2>2. ASSUME NEW k \in 0 .. m + 1
        PROVE  h[k] = IF k = 0 THEN base ELSE F(k, h[k - 1])
    <3>1. CASE k = m + 1
      <4>1. k # 0 /\ k - 1 = m /\ m \in 0 .. m + 1 /\ m # m + 1
        BY <3>1
      <4>. QED  BY <3>1, <4>1
    <3>2. CASE k = 0
      <4>1. k \in 0 .. m /\ k # m + 1
        BY <3>2
      <4>2. f[k] = base
        BY <2>1, <3>2, <4>1
      <4>. QED  BY <3>2, <4>1, <4>2
    <3>3. CASE k # 0 /\ k # m + 1
      <4>1. k \in 0 .. m /\ k - 1 \in 0 .. m + 1 /\ k - 1 # m + 1
        BY <3>3
      <4>2. f[k] = F(k, f[k - 1])
        BY <2>1, <3>3, <4>1
      <4>. QED  BY <3>3, <4>1, <4>2
    <3>. QED  BY <3>1, <3>2, <3>3
  <2>. HIDE DEF h
  <2>3. h = Body(h, m + 1)
    BY <2>2 DEF h
  <2>. QED  BY <2>3
<1>. HIDE DEF Good
<1>3. 0 \in S /\ \A m \in Nat : m \in S => m + 1 \in S
  BY <1>1, <1>2
<1>. HIDE DEF S
<1>4. g.n \in S
  <2>1. g.n \in Nat
    OBVIOUS
  <2>. QED  BY <1>3, <2>1, Induct
<1>5. \E f : f = Body(f, g.n)
  BY <1>4 DEF S, Good
<1>6. r = Body(r, g.n)
  BY <1>5 DEF F, base, Counting
<1>. HIDE DEF r
<1>7. /\ r = [k \in 0 .. g.n |-> r[k]]
      /\ r[0] = base
      /\ \A k \in 1 .. g.n : r[k] = F(k, r[k - 1])
  BY <1>6
<1>. QED  BY <1>7 DEF r, F, base

(* What ends in a number of steps.                                         *)
LEMMA WithinUnfolds ==
  ASSUME NEW g, g.n \in Nat
  PROVE  LET r == Within(g)
         IN  /\ r[0] = Before(g, {})
             /\ \A k \in 1 .. g.n : r[k] = Before(g, r[k - 1])
<1>. DEFINE F(k, x) == Before(g, x)
            base == Before(g, {})
            Body(f, m) == [k \in 0 .. m |-> IF k = 0 THEN base ELSE F(k, f[k - 1])]
            Good(m) == \E f : f = Body(f, m)
            S == {m \in Nat : Good(m)}
            r == Within(g)
<1>. HIDE DEF F, base
<1>1. Good(0)
  <2>. DEFINE h == [k \in 0 .. 0 |-> base]
  <2>1. h = Body(h, 0)
    OBVIOUS
  <2>. QED  BY <2>1
<1>2. ASSUME NEW m \in Nat, Good(m) PROVE Good(m + 1)
  <2>1. PICK f : f = Body(f, m)
    BY <1>2
  <2>. DEFINE h == [k \in 0 .. m + 1 |-> IF k = m + 1 THEN F(m + 1, f[m]) ELSE f[k]]
  <2>2. ASSUME NEW k \in 0 .. m + 1
        PROVE  h[k] = IF k = 0 THEN base ELSE F(k, h[k - 1])
    <3>1. CASE k = m + 1
      <4>1. k # 0 /\ k - 1 = m /\ m \in 0 .. m + 1 /\ m # m + 1
        BY <3>1
      <4>. QED  BY <3>1, <4>1
    <3>2. CASE k = 0
      <4>1. k \in 0 .. m /\ k # m + 1
        BY <3>2
      <4>2. f[k] = base
        BY <2>1, <3>2, <4>1
      <4>. QED  BY <3>2, <4>1, <4>2
    <3>3. CASE k # 0 /\ k # m + 1
      <4>1. k \in 0 .. m /\ k - 1 \in 0 .. m + 1 /\ k - 1 # m + 1
        BY <3>3
      <4>2. f[k] = F(k, f[k - 1])
        BY <2>1, <3>3, <4>1
      <4>. QED  BY <3>3, <4>1, <4>2
    <3>. QED  BY <3>1, <3>2, <3>3
  <2>. HIDE DEF h
  <2>3. h = Body(h, m + 1)
    BY <2>2 DEF h
  <2>. QED  BY <2>3
<1>. HIDE DEF Good
<1>3. 0 \in S /\ \A m \in Nat : m \in S => m + 1 \in S
  BY <1>1, <1>2
<1>. HIDE DEF S
<1>4. g.n \in S
  <2>1. g.n \in Nat
    OBVIOUS
  <2>. QED  BY <1>3, <2>1, Induct
<1>5. \E f : f = Body(f, g.n)
  BY <1>4 DEF S, Good
<1>6. r = Body(r, g.n)
  BY <1>5 DEF F, base, Within
<1>. HIDE DEF r
<1>7. /\ r = [k \in 0 .. g.n |-> r[k]]
      /\ r[0] = base
      /\ \A k \in 1 .. g.n : r[k] = F(k, r[k - 1])
  BY <1>6
<1>. QED  BY <1>7 DEF r, F, base

-----------------------------------------------------------------------------
(***************************************************************************)
(* Sound graphs have no cycles, and what is counted is what can be         *)
(* reached.                                                                *)
(***************************************************************************)
LEMMA Edged ==
  ASSUME NEW g, Sound(g), NEW b \in Blocks(g)
  PROVE  /\ g.n \in Nat \ {0} /\ g.root \in Blocks(g) /\ b \in Int /\ b + g.n \in Edges(g)
         /\ None \notin Blocks(g)
         /\ JT(g, b) \in Blocks(g) \cup {None} /\ JF(g, b) \in Blocks(g) \cup {None}
         /\ Successors(g, b) \subseteq Blocks(g)
         /\ EndsRun(g, b) <=> Successors(g, b) = {}
         /\ ~EndsRun(g, b) => Successors(g, b) = {JT(g, b), JF(g, b)}
<1>1. g.n \in Nat \ {0} /\ g.root \in Blocks(g) /\ g.succ \in [Edges(g) -> Blocks(g) \cup {None}]
  BY DEF Sound
<1>2. b \in Edges(g) /\ b + g.n \in Edges(g) /\ None \notin Blocks(g) /\ b \in Int
  BY <1>1 DEF Edges, Blocks, None
<1>3. JT(g, b) \in Blocks(g) \cup {None} /\ JF(g, b) \in Blocks(g) \cup {None}
  BY <1>1, <1>2 DEF JT, JF
<1>4. JT(g, b) = None <=> JF(g, b) = None
  BY DEF Sound, SoundBlock
<1>. QED  BY <1>1, <1>2, <1>3, <1>4 DEF Successors, EndsRun

(* A block that ends within some steps does so within more, and so do the  *)
(* blocks it leads to, within fewer.                                       *)
LEMMA Ending ==
  ASSUME NEW g, Sound(g)
  PROVE  LET r == Within(g)
         IN  /\ \A b \in r[0] : Successors(g, b) = {}
             /\ \A k \in 1 .. g.n : \A b \in r[k] : Successors(g, b) \subseteq r[k - 1]
             /\ \A k \in 1 .. g.n : r[k - 1] \subseteq r[k]
             /\ \A k \in 0 .. g.n : r[k] \subseteq Blocks(g)
<1>. DEFINE r == Within(g)
<1>1. g.n \in Nat \ {0}
  BY DEF Sound
<1>2. r[0] = Before(g, {}) /\ \A k \in 1 .. g.n : r[k] = Before(g, r[k - 1])
  BY <1>1, WithinUnfolds
<1>. HIDE DEF r
<1>3. \A b \in r[0] : Successors(g, b) = {}
  BY <1>2 DEF Before
<1>4. \A k \in 1 .. g.n : \A b \in r[k] : Successors(g, b) \subseteq r[k - 1]
  BY <1>2 DEF Before
<1>5. \A k \in 0 .. g.n : r[k] \subseteq Blocks(g)
  <2>1. SUFFICES ASSUME NEW k \in 0 .. g.n PROVE r[k] \subseteq Blocks(g)
    OBVIOUS
  <2>2. CASE k = 0
    BY <1>2, <2>2 DEF Before
  <2>3. CASE k # 0
    <3>1. k \in 1 .. g.n
      BY <1>1, <2>3
    <3>. QED  BY <1>2, <3>1 DEF Before
  <2>. QED  BY <2>2, <2>3
<1>6. \A k \in 1 .. g.n : r[k - 1] \subseteq r[k]
  <2>. DEFINE S == {k \in Nat : k \in 1 .. g.n => r[k - 1] \subseteq r[k]}
  <2>1. 0 \in S
    OBVIOUS
  <2>2. ASSUME NEW k \in Nat, k \in S PROVE k + 1 \in S
    <3>1. SUFFICES ASSUME k + 1 \in 1 .. g.n PROVE r[k] \subseteq r[k + 1]
      OBVIOUS
    <3>2. r[k + 1] = Before(g, r[k])
      <4>1. (k + 1) - 1 = k
        OBVIOUS
      <4>. QED  BY <1>2, <3>1, <4>1
    <3>3. CASE k = 0
      BY <1>2, <3>2, <3>3 DEF Before
    <3>4. CASE k # 0
      <4>1. k \in 1 .. g.n
        BY <1>1, <3>1, <3>4
      <4>2. r[k - 1] \subseteq r[k] /\ r[k] = Before(g, r[k - 1])
        BY <1>2, <2>2, <4>1
      <4>. QED  BY <3>2, <4>2 DEF Before
    <3>. QED  BY <3>3, <3>4
  <2>. HIDE DEF S
  <2>3. Nat \subseteq S
    BY <2>1, <2>2, Induct
  <2>4. \A k \in 1 .. g.n : k \in Nat
    BY <1>1
  <2>. QED  BY <2>3, <2>4 DEF S
<1>. QED  BY <1>3, <1>4, <1>5, <1>6 DEF r

(* The blocks counted are the root and all they lead to, and no others.    *)
LEMMA Closed ==
  ASSUME NEW g, Sound(g)
  PROVE  /\ g.root \in Reached(g) /\ Reached(g) \subseteq Blocks(g)
         /\ \A b \in Reached(g) : Successors(g, b) \subseteq Reached(g)
         /\ Reached(g) \subseteq Within(g)[g.n]
         /\ \A S : g.root \in S /\ (\A b \in S : Successors(g, b) \subseteq S)
                     => Reached(g) \subseteq S
<1>. DEFINE r == Counting(g)
            w == Within(g)
            n == g.n
            (* What is first reached by the k-th step ends within n - k more. *)
            T == {k \in Nat : k <= n => /\ g.root \in r[k] /\ r[k] \subseteq w[n]
                                        /\ k > 0 => r[k - 1] \subseteq r[k]
                                        /\ \A b \in r[k] : (k > 0 /\ b \in r[k - 1]) \/ b \in w[n - k]}
<1>1. n \in Nat \ {0} /\ g.root \in w[n]
  BY DEF Sound
<1>2. r[0] = {g.root} /\ \A k \in 1 .. n : r[k] = Spread(g, r[k - 1])
  BY <1>1, CountingUnfolds
<1>3. /\ \A b \in w[0] : Successors(g, b) = {}
      /\ \A k \in 1 .. n : \A b \in w[k] : Successors(g, b) \subseteq w[k - 1]
      /\ \A k \in 1 .. n : w[k - 1] \subseteq w[k]
      /\ \A k \in 0 .. n : w[k] \subseteq Blocks(g)
  BY Ending
<1>4. Reached(g) = r[n]
  BY DEF Reached
<1>. HIDE DEF r, w, n
<1>5. 0 \in T
  BY <1>1, <1>2
<1>6. ASSUME NEW k \in Nat, k \in T PROVE k + 1 \in T
  <2>1. SUFFICES ASSUME k + 1 <= n
                 PROVE  /\ g.root \in r[k + 1] /\ r[k + 1] \subseteq w[n]
                        /\ r[k] \subseteq r[k + 1]
                        /\ \A b \in r[k + 1] : b \in r[k] \/ b \in w[n - (k + 1)]
    OBVIOUS
  <2>2. k <= n /\ k + 1 \in 1 .. n /\ (k + 1) - 1 = k /\ n - k \in 1 .. n /\ n \in 1 .. n
        /\ (n - k) - 1 = n - (k + 1)
    BY <1>1, <2>1
  <2>3. /\ g.root \in r[k] /\ r[k] \subseteq w[n]
        /\ k > 0 => r[k - 1] \subseteq r[k]
        /\ \A b \in r[k] : (k > 0 /\ b \in r[k - 1]) \/ b \in w[n - k]
    BY <1>6, <2>2
  <2>4. r[k + 1] = r[k] \cup UNION {Successors(g, b) : b \in r[k]}
    BY <1>2, <2>2 DEF Spread
  <2>5. \A b \in r[k] : Successors(g, b) \subseteq w[n - 1] /\ w[n - 1] \subseteq w[n]
    BY <1>3, <2>2, <2>3
  <2>6. ASSUME NEW b \in r[k], NEW c \in Successors(g, b) PROVE c \in r[k] \/ c \in w[n - (k + 1)]
    <3>1. CASE b \in w[n - k]
      BY <1>3, <2>2, <3>1
    <3>2. CASE k > 0 /\ b \in r[k - 1]
      <4>1. r[k] = r[k - 1] \cup UNION {Successors(g, d) : d \in r[k - 1]}
        <5>1. k \in 1 .. n
          BY <2>2, <3>2
        <5>. QED  BY <1>2, <5>1 DEF Spread
      <4>. QED  BY <3>2, <4>1
    <3>. QED  BY <2>3, <3>1, <3>2
  <2>. QED  BY <2>3, <2>4, <2>5, <2>6
<1>. HIDE DEF T
<1>7. Nat \subseteq T
  BY <1>5, <1>6, Induct
<1>8. /\ g.root \in r[n] /\ r[n] \subseteq w[n] /\ r[n - 1] \subseteq r[n]
      /\ \A b \in r[n] : b \in r[n - 1] \/ b \in w[0]
  <2>1. n \in T /\ n > 0 /\ n - n = 0
    BY <1>1, <1>7
  <2>. QED  BY <2>1 DEF T
<1>9. \A b \in r[n] : Successors(g, b) \subseteq r[n]
  <2>1. SUFFICES ASSUME NEW b \in r[n] PROVE Successors(g, b) \subseteq r[n]
    OBVIOUS
  <2>2. CASE b \in w[0]
    BY <1>3, <2>2
  <2>3. CASE b \in r[n - 1]
    <3>1. r[n] = r[n - 1] \cup UNION {Successors(g, d) : d \in r[n - 1]}
      <4>1. n \in 1 .. n
        BY <1>1
      <4>. QED  BY <1>2, <4>1 DEF Spread
    <3>. QED  BY <2>3, <3>1
  <2>. QED  BY <1>8, <2>2, <2>3
<1>10. ASSUME NEW S, g.root \in S, \A b \in S : Successors(g, b) \subseteq S
       PROVE  r[n] \subseteq S
  <2>. DEFINE U == {k \in Nat : k <= n => r[k] \subseteq S}
  <2>1. 0 \in U
    BY <1>2, <1>10
  <2>2. ASSUME NEW k \in Nat, k \in U PROVE k + 1 \in U
    <3>1. SUFFICES ASSUME k + 1 <= n PROVE r[k + 1] \subseteq S
      OBVIOUS
    <3>2. k <= n /\ k + 1 \in 1 .. n /\ (k + 1) - 1 = k
      BY <1>1, <3>1
    <3>3. r[k] \subseteq S
      BY <2>2, <3>2
    <3>4. r[k + 1] = r[k] \cup UNION {Successors(g, d) : d \in r[k]}
      BY <1>2, <3>2 DEF Spread
    <3>. QED  BY <1>10, <3>3, <3>4
  <2>. HIDE DEF U
  <2>3. Nat \subseteq U
    BY <2>1, <2>2, Induct
  <2>4. n \in U
    BY <1>1, <2>3
  <2>. QED  BY <1>1, <2>4 DEF U
<1>11. w[n] \subseteq Blocks(g)
  BY <1>1, <1>3
<1>12. Within(g)[g.n] = w[n]
  BY DEF w, n
<1>. QED  BY <1>4, <1>8, <1>9, <1>10, <1>11, <1>12

(* Among blocks that can be reached one leads to none of the others.       *)
LEMMA NoCycle ==
  ASSUME NEW g, Sound(g), NEW S \in SUBSET Reached(g), S # {}
  PROVE  \E b \in S : Successors(g, b) \cap S = {}
<1>. DEFINE w == Within(g)
            T == {k \in 0 .. g.n : w[k] \cap S # {}}
<1>1. g.n \in Nat \ {0}
  BY DEF Sound
<1>2. g.n \in T
  <2>1. Reached(g) \subseteq w[g.n]
    BY Closed
  <2>2. g.n \in 0 .. g.n
    BY <1>1
  <2>. QED  BY <2>1, <2>2
<1>3. /\ \A b \in w[0] : Successors(g, b) = {}
      /\ \A k \in 1 .. g.n : \A b \in w[k] : Successors(g, b) \subseteq w[k - 1]
  BY Ending
<1>. HIDE DEF w
<1>4. T \in SUBSET Nat /\ T # {}
  BY <1>1, <1>2
<1>. HIDE DEF T
<1>5. PICK k \in T : \A j \in T : k <= j
  BY <1>4, LeastNat
<1>6. k \in 0 .. g.n
  BY <1>5 DEF T
<1>7. PICK b \in S : b \in w[k]
  BY <1>5 DEF T
<1>8. CASE k = 0
  BY <1>3, <1>7, <1>8
<1>9. CASE k # 0
  <2>1. k \in 1 .. g.n /\ k - 1 \in 0 .. g.n /\ ~(k <= k - 1)
    BY <1>1, <1>6, <1>9
  <2>2. k - 1 \notin T
    BY <1>5, <2>1
  <2>3. w[k - 1] \cap S = {}
    BY <2>1, <2>2 DEF T
  <2>. QED  BY <1>3, <1>7, <2>1, <2>3
<1>. QED  BY <1>8, <1>9

-----------------------------------------------------------------------------
(***************************************************************************)
(* The room of a set of blocks.                                            *)
(***************************************************************************)
LEMMA RoomTyped ==
  ASSUME NEW g, Sound(g), NEW b \in Blocks(g), NEW long
  PROVE  /\ Len(Kept(g.stmts[b])) \in Nat
         /\ Extra(b, long) \in {0, 1} /\ Extra(b + g.n, long) \in {0, 1}
         /\ Room(g, b, long) \in Nat \ {0}
         /\ Room(g, b, long) =
              Len(Kept(g.stmts[b])) + 1 + Extra(b, long) + Extra(b + g.n, long)
<1>1. Kept(g.stmts[b]) \in Seq(InsnType)
  BY DEF Sound, SoundBlock
<1>2. Len(Kept(g.stmts[b])) \in Nat
  BY <1>1
<1>3. Extra(b, long) \in {0, 1} /\ Extra(b + g.n, long) \in {0, 1}
  BY DEF Extra
<1>. QED  BY <1>2, <1>3 DEF Room

LEMMA Sums ==
  ASSUME NEW g, Sound(g), NEW bs, NEW long
  PROVE  LET r == Rooms(g, bs, long)
         IN  /\ r[0] = 0
             /\ \A k \in 0 .. g.n : r[k] \in Nat
             /\ \A k \in 0 .. g.n - 1 :
                  r[k + 1] = r[k] + (IF k \in bs THEN Room(g, k, long) ELSE 0)
<1>. DEFINE r == Rooms(g, bs, long)
<1>1. g.n \in Nat \ {0}
  BY DEF Sound
<1>2. /\ r[0] = 0
      /\ \A k \in 1 .. g.n :
           r[k] = r[k - 1] + (IF k - 1 \in bs THEN Room(g, k - 1, long) ELSE 0)
  BY <1>1, RoomsUnfolds
<1>. HIDE DEF r
<1>3. ASSUME NEW k \in 0 .. g.n - 1
      PROVE  r[k + 1] = r[k] + (IF k \in bs THEN Room(g, k, long) ELSE 0)
  <2>1. k + 1 \in 1 .. g.n /\ (k + 1) - 1 = k
    BY <1>1
  <2>. QED  BY <1>2, <2>1
<1>. DEFINE S == {k \in Nat : k <= g.n => r[k] \in Nat}
<1>4. 0 \in S
  BY <1>2
<1>5. ASSUME NEW k \in Nat, k \in S PROVE k + 1 \in S
  <2>1. SUFFICES ASSUME k + 1 <= g.n PROVE r[k + 1] \in Nat
    OBVIOUS
  <2>2. k \in 0 .. g.n - 1 /\ k \in Blocks(g) /\ r[k] \in Nat
    BY <1>1, <1>5, <2>1 DEF Blocks
  <2>3. Room(g, k, long) \in Nat
    BY <2>2, RoomTyped
  <2>. QED  BY <1>3, <2>2, <2>3
<1>. HIDE DEF S
<1>6. Nat \subseteq S
  BY <1>4, <1>5, Induct
<1>7. \A k \in 0 .. g.n : r[k] \in Nat
  BY <1>1, <1>6 DEF S
<1>. QED  BY <1>2, <1>3, <1>7 DEF r

LEMMA TotalMore ==
  ASSUME NEW g, Sound(g), NEW bs, NEW more, NEW long, bs \subseteq more
  PROVE  /\ Total(g, bs, long) \in Nat /\ Total(g, more, long) \in Nat
         /\ Total(g, bs, long) <= Total(g, more, long)
<1>. DEFINE r == Rooms(g, bs, long)
            q == Rooms(g, more, long)
            S == {k \in Nat : k <= g.n => r[k] <= q[k]}
<1>1. g.n \in Nat \ {0}
  BY DEF Sound
<1>2. /\ r[0] = 0
      /\ \A k \in 0 .. g.n : r[k] \in Nat
      /\ \A k \in 0 .. g.n - 1 : r[k + 1] = r[k] + (IF k \in bs THEN Room(g, k, long) ELSE 0)
  BY Sums
<1>3. /\ q[0] = 0
      /\ \A k \in 0 .. g.n : q[k] \in Nat
      /\ \A k \in 0 .. g.n - 1 : q[k + 1] = q[k] + (IF k \in more THEN Room(g, k, long) ELSE 0)
  BY Sums
<1>. HIDE DEF r, q
<1>4. 0 \in S
  BY <1>2, <1>3
<1>5. ASSUME NEW k \in Nat, k \in S PROVE k + 1 \in S
  <2>1. SUFFICES ASSUME k + 1 <= g.n PROVE r[k + 1] <= q[k + 1]
    OBVIOUS
  <2>2. k \in 0 .. g.n - 1 /\ k \in 0 .. g.n /\ k \in Blocks(g) /\ r[k] <= q[k]
    BY <1>1, <1>5, <2>1 DEF Blocks
  <2>3. Room(g, k, long) \in Nat
    BY <2>2, RoomTyped
  <2>4. /\ r[k + 1] = r[k] + (IF k \in bs THEN Room(g, k, long) ELSE 0)
        /\ q[k + 1] = q[k] + (IF k \in more THEN Room(g, k, long) ELSE 0)
        /\ r[k] \in Nat /\ q[k] \in Nat /\ (k \in bs => k \in more)
    BY <1>2, <1>3, <2>2
  <2>. QED  BY <2>2, <2>3, <2>4
<1>. HIDE DEF S
<1>6. Nat \subseteq S
  BY <1>4, <1>5, Induct
<1>7. r[g.n] <= q[g.n] /\ r[g.n] \in Nat /\ q[g.n] \in Nat
  BY <1>1, <1>2, <1>3, <1>6 DEF S
<1>. QED  BY <1>7 DEF Total, r, q

LEMMA TotalOneMore ==
  ASSUME NEW g, Sound(g), NEW bs, NEW long, NEW b \in Blocks(g), b \notin bs
  PROVE  Total(g, bs \cup {b}, long) = Total(g, bs, long) + Room(g, b, long)
<1>. DEFINE more == bs \cup {b}
            r == Rooms(g, bs, long)
            q == Rooms(g, more, long)
            S == {k \in Nat : k <= g.n => q[k] = r[k] + (IF b < k THEN Room(g, b, long) ELSE 0)}
<1>1. g.n \in Nat \ {0} /\ b \in 0 .. g.n - 1 /\ Room(g, b, long) \in Nat
  BY RoomTyped DEF Sound, Blocks
<1>2. /\ r[0] = 0
      /\ \A k \in 0 .. g.n : r[k] \in Nat
      /\ \A k \in 0 .. g.n - 1 : r[k + 1] = r[k] + (IF k \in bs THEN Room(g, k, long) ELSE 0)
  BY Sums
<1>3. /\ q[0] = 0
      /\ \A k \in 0 .. g.n : q[k] \in Nat
      /\ \A k \in 0 .. g.n - 1 : q[k + 1] = q[k] + (IF k \in more THEN Room(g, k, long) ELSE 0)
  <2>. HIDE DEF more
  <2>. QED  BY Sums
<1>. HIDE DEF r, q
<1>4. 0 \in S
  BY <1>1, <1>2, <1>3
<1>5. ASSUME NEW k \in Nat, k \in S PROVE k + 1 \in S
  <2>1. SUFFICES ASSUME k + 1 <= g.n
                 PROVE  q[k + 1] = r[k + 1] + (IF b < k + 1 THEN Room(g, b, long) ELSE 0)
    OBVIOUS
  <2>2. /\ k \in 0 .. g.n - 1 /\ k \in 0 .. g.n /\ k \in Blocks(g)
        /\ q[k] = r[k] + (IF b < k THEN Room(g, b, long) ELSE 0)
    BY <1>1, <1>5, <2>1 DEF Blocks
  <2>3. Room(g, k, long) \in Nat
    BY <2>2, RoomTyped
  <2>4. /\ r[k + 1] = r[k] + (IF k \in bs THEN Room(g, k, long) ELSE 0)
        /\ q[k + 1] = q[k] + (IF k \in more THEN Room(g, k, long) ELSE 0)
        /\ r[k] \in Nat /\ q[k] \in Nat
    BY <1>2, <1>3, <2>2
  <2>5. CASE k = b
    <3>1. k \in more /\ k \notin bs /\ ~(b < k) /\ b < k + 1
      BY <1>1, <2>5
    <3>. QED  BY <1>1, <2>2, <2>4, <2>5, <3>1
  <2>6. CASE k # b
    <3>1. (k \in more <=> k \in bs) /\ (b < k <=> b < k + 1)
      BY <1>1, <2>6
    <3>. QED  BY <1>1, <2>2, <2>3, <2>4, <3>1
  <2>. QED  BY <2>5, <2>6
<1>. HIDE DEF S
<1>6. Nat \subseteq S
  BY <1>4, <1>5, Induct
<1>7. q[g.n] = r[g.n] + Room(g, b, long)
  BY <1>1, <1>6 DEF S
<1>. QED  BY <1>7 DEF Total, r, q

LEMMA TotalNothing ==
  ASSUME NEW g, Sound(g), NEW long
  PROVE  Total(g, {}, long) = 0
<1>. DEFINE r == Rooms(g, {}, long)
            S == {k \in Nat : k <= g.n => r[k] = 0}
<1>1. g.n \in Nat \ {0}
  BY DEF Sound
<1>2. /\ r[0] = 0
      /\ \A k \in 0 .. g.n - 1 : r[k + 1] = r[k] + (IF k \in {} THEN Room(g, k, long) ELSE 0)
  BY Sums
<1>. HIDE DEF r
<1>3. 0 \in S
  BY <1>2
<1>4. ASSUME NEW k \in Nat, k \in S PROVE k + 1 \in S
  BY <1>1, <1>2, <1>4
<1>. HIDE DEF S
<1>5. Nat \subseteq S
  BY <1>3, <1>4, Induct
<1>6. r[g.n] = 0
  BY <1>1, <1>5 DEF S
<1>. QED  BY <1>6 DEF Total, r

-----------------------------------------------------------------------------
(***************************************************************************)
(* What convert_code_r writes for a block.                                 *)
(***************************************************************************)
Test(g, at, b) ==
  LET jt == Distance(g, at, b, JT(g, b))
      jf == Distance(g, at, b, JF(g, b))
      extra == IF jt >= ByteBase THEN 1 ELSE 0
  IN  [g.br[b] EXCEPT !.jt = IF jt >= ByteBase THEN 0 ELSE jt,
                      !.jf = IF jf >= ByteBase THEN extra ELSE jf]

LEMMA LinesShape ==
  ASSUME NEW g, Sound(g), NEW b \in Blocks(g), NEW dirt, NEW br, NEW A,
         br \in Seq(A), Len(br) \in Nat
  PROVE  LET n == Len(Kept(g.stmts[b]))
             c == Lines(g, b, dirt) \o br
         IN  /\ n \in Nat /\ Len(c) = n + Len(br) /\ DOMAIN c = 1 .. n + Len(br)
             /\ \A j \in 1 .. n : c[j] = Written(Kept(g.stmts[b])[j], dirt)
             /\ \A j \in 1 .. Len(br) : c[n + j] = br[j]
<1>. DEFINE n == Len(Kept(g.stmts[b]))
            l == Lines(g, b, dirt)
            B == {Written(Kept(g.stmts[b])[j], dirt) : j \in 1 .. n} \cup A
            c == l \o br
<1>1. n \in Nat
  BY RoomTyped
<1>2. l = [j \in 1 .. n |-> Written(Kept(g.stmts[b])[j], dirt)]
  BY DEF Lines
<1>. HIDE DEF n, l
<1>3. l \in [1 .. n -> B]
  BY <1>2
<1>. HIDE DEF B
<1>4. l \in Seq(B) /\ Len(l) = n
  BY <1>1, <1>3
<1>5. br \in Seq(B)
  BY DEF B
<1>6. Len(c) = n + Len(br) /\ c \in Seq(B)
  BY <1>4, <1>5
<1>7. \A j \in 1 .. n : c[j] = l[j]
  BY <1>4, <1>5, <1>1
<1>8. \A j \in 1 .. Len(br) : c[n + j] = br[j]
  BY <1>4, <1>5, <1>1
<1>9. DOMAIN c = 1 .. n + Len(br)
  BY <1>6
<1>. HIDE DEF c
<1>10. \A j \in 1 .. n : c[j] = Written(Kept(g.stmts[b])[j], dirt)
  BY <1>2, <1>7
<1>. QED  BY <1>1, <1>6, <1>8, <1>9, <1>10 DEF c, n, l

LEMMA Behind ==
  ASSUME NEW A, NEW x \in A, NEW y \in A, NEW z \in A, NEW yes \in BOOLEAN, NEW no \in BOOLEAN
  PROVE  LET c == << x >> \o (IF yes THEN << y >> ELSE << >>) \o (IF no THEN << z >> ELSE << >>)
             t == IF yes THEN 1 ELSE 0
             f == IF no THEN 1 ELSE 0
         IN  /\ c \in Seq(A) /\ Len(c) = 1 + t + f
             /\ c[1] = x
             /\ t = 1 => c[2] = y
             /\ f = 1 => c[2 + t] = z
<1>. DEFINE first == << x >>
            second == IF yes THEN << y >> ELSE << >>
            third == IF no THEN << z >> ELSE << >>
            d == first \o second
            c == d \o third
            t == IF yes THEN 1 ELSE 0
            f == IF no THEN 1 ELSE 0
<1>1. first \in Seq(A) /\ Len(first) = 1 /\ first[1] = x
  OBVIOUS
<1>2. second \in Seq(A) /\ Len(second) = t /\ (t = 1 => second[1] = y)
  <2>1. CASE yes
    BY <2>1
  <2>2. CASE ~yes
    BY <2>2
  <2>. QED  BY <2>1, <2>2
<1>3. third \in Seq(A) /\ Len(third) = f /\ (f = 1 => third[1] = z)
  <2>1. CASE no
    BY <2>1
  <2>2. CASE ~no
    BY <2>2
  <2>. QED  BY <2>1, <2>2
<1>4. t \in {0, 1} /\ f \in {0, 1}
  OBVIOUS
<1>. HIDE DEF first, second, third, t, f
<1>5. /\ d \in Seq(A) /\ Len(d) = 1 + t
      /\ \A i \in 1 .. 1 + t : d[i] = IF i <= 1 THEN first[i] ELSE second[i - 1]
  <2>1. /\ d \in Seq(A) /\ Len(d) = Len(first) + Len(second)
        /\ \A i \in 1 .. Len(first) + Len(second) :
             d[i] = IF i <= Len(first) THEN first[i] ELSE second[i - Len(first)]
    <3>1. first \in Seq(A) /\ second \in Seq(A)
      BY <1>1, <1>2
    <3>. QED  BY ONLY <3>1, ConcatProperties, Zenon
  <2>. QED  BY <1>1, <1>2, <2>1
<1>6. d[1] = x /\ (t = 1 => d[2] = y)
  BY <1>1, <1>2, <1>4, <1>5
<1>. HIDE DEF d
<1>7. /\ c \in Seq(A) /\ Len(c) = 1 + t + f
      /\ \A i \in 1 .. 1 + t + f : c[i] = IF i <= 1 + t THEN d[i] ELSE third[i - (1 + t)]
  <2>1. /\ c \in Seq(A) /\ Len(c) = Len(d) + Len(third)
        /\ \A i \in 1 .. Len(d) + Len(third) :
             c[i] = IF i <= Len(d) THEN d[i] ELSE third[i - Len(d)]
    <3>1. d \in Seq(A) /\ third \in Seq(A)
      BY <1>3, <1>5
    <3>. QED  BY ONLY <3>1, ConcatProperties, Zenon
  <2>. QED  BY <1>3, <1>5, <2>1
<1>. HIDE DEF c
<1>8. c[1] = x /\ (t = 1 => c[2] = y)
  BY <1>4, <1>6, <1>7
<1>9. f = 1 => c[2 + t] = z
  <2>1. f = 1 => 2 + t \in 1 .. 1 + t + f /\ ~(2 + t <= 1 + t) /\ (2 + t) - (1 + t) = 1
    BY <1>4
  <2>. QED  BY <1>3, <1>7, <2>1
<1>. QED  BY <1>7, <1>8, <1>9 DEF first, second, third, d, c, t, f

LEMMA BranchShape ==
  ASSUME NEW g, NEW at, NEW b, NEW dirt, ~EndsRun(g, b)
  PROVE  LET jt == Distance(g, at, b, JT(g, b))
             jf == Distance(g, at, b, JF(g, b))
             t == IF jt >= ByteBase THEN 1 ELSE 0
             f == IF jf >= ByteBase THEN 1 ELSE 0
             c == Branch(g, at, b, dirt)
         IN  /\ \E A : c \in Seq(A)
             /\ Len(c) = 1 + t + f
             /\ c[1] = Test(g, at, b)
             /\ t = 1 => c[2] = Written(LongJump(0, jt), dirt)
             /\ f = 1 => c[2 + t] = Written(LongJump(t, jf), dirt)
<1>. DEFINE jt == Distance(g, at, b, JT(g, b))
            jf == Distance(g, at, b, JF(g, b))
            yes == jt >= ByteBase
            no == jf >= ByteBase
            t == IF yes THEN 1 ELSE 0
            x == Test(g, at, b)
            y == Written(LongJump(0, jt), dirt)
            z == Written(LongJump(t, jf), dirt)
            c == Branch(g, at, b, dirt)
<1>1. c = << x >> \o (IF yes THEN << y >> ELSE << >>) \o (IF no THEN << z >> ELSE << >>)
  BY DEF Branch, Test
<1>2. yes \in BOOLEAN /\ no \in BOOLEAN
  OBVIOUS
<1>. DEFINE A == {x, y, z}
<1>3. x \in A /\ y \in A /\ z \in A
  OBVIOUS
<1>. HIDE DEF x, y, z, yes, no, c, A
<1>4. /\ c \in Seq(A) /\ Len(c) = 1 + t + (IF no THEN 1 ELSE 0)
      /\ c[1] = x
      /\ t = 1 => c[2] = y
      /\ (IF no THEN 1 ELSE 0) = 1 => c[2 + t] = z
  BY <1>1, <1>2, <1>3, Behind
<1>. QED  BY <1>4 DEF x, y, z, yes, no, c

LEMMA BlockShape ==
  ASSUME NEW g, Sound(g), NEW at \in [Blocks(g) -> Int], NEW b \in Blocks(g), NEW dirt
  PROVE  LET n == Len(Kept(g.stmts[b]))
             c == BlockCode(g, at, b, dirt)
             jt == Distance(g, at, b, JT(g, b))
             jf == Distance(g, at, b, JF(g, b))
             t == IF jt >= ByteBase THEN 1 ELSE 0
             f == IF jf >= ByteBase THEN 1 ELSE 0
         IN  /\ n \in Nat /\ Len(c) \in Nat /\ DOMAIN c = 1 .. Len(c)
             /\ \A j \in 1 .. n : c[j] = Written(Kept(g.stmts[b])[j], dirt)
             /\ EndsRun(g, b) => Len(c) = n + 1 /\ c[n + 1] = Written(g.br[b], dirt)
             /\ ~EndsRun(g, b) =>
                  /\ jt \in Int /\ jf \in Int
                  /\ Len(c) = n + 1 + t + f
                  /\ c[n + 1] = Test(g, at, b)
                  /\ t = 1 => c[n + 2] = Written(LongJump(0, jt), dirt)
                  /\ f = 1 => c[n + 2 + t] = Written(LongJump(t, jf), dirt)
<1>. DEFINE n == Len(Kept(g.stmts[b]))
            c == BlockCode(g, at, b, dirt)
            br == Branch(g, at, b, dirt)
            jt == Distance(g, at, b, JT(g, b))
            jf == Distance(g, at, b, JF(g, b))
            t == IF jt >= ByteBase THEN 1 ELSE 0
            f == IF jf >= ByteBase THEN 1 ELSE 0
<1>1. n \in Nat
  BY RoomTyped
<1>2. ASSUME NEW A, br \in Seq(A), Len(br) \in Nat
      PROVE  /\ Len(c) = n + Len(br) /\ DOMAIN c = 1 .. n + Len(br)
             /\ \A j \in 1 .. n : c[j] = Written(Kept(g.stmts[b])[j], dirt)
             /\ \A j \in 1 .. Len(br) : c[n + j] = br[j]
  <2>1. c = Lines(g, b, dirt) \o br
    BY DEF BlockCode
  <2>. HIDE DEF c, br
  <2>. QED  BY <1>2, <2>1, LinesShape
<1>3. CASE EndsRun(g, b)
  <2>. DEFINE A == {Written(g.br[b], dirt)}
  <2>1. br = << Written(g.br[b], dirt) >>
    BY <1>3 DEF Branch
  <2>. HIDE DEF br, c, n
  <2>2. br \in Seq(A) /\ Len(br) = 1 /\ br[1] = Written(g.br[b], dirt)
    BY <2>1
  <2>. HIDE DEF A
  <2>3. Len(br) \in Nat /\ 1 \in 1 .. Len(br)
    BY <2>2
  <2>4. /\ Len(c) = n + 1 /\ DOMAIN c = 1 .. n + 1
        /\ \A j \in 1 .. n : c[j] = Written(Kept(g.stmts[b])[j], dirt)
        /\ c[n + 1] = Written(g.br[b], dirt)
    BY <1>2, <2>2, <2>3
  <2>. QED  BY <1>1, <1>3, <2>4 DEF c, n
<1>4. CASE ~EndsRun(g, b)
  <2>1. /\ \E A : br \in Seq(A)
        /\ Len(br) = 1 + t + f
        /\ br[1] = Test(g, at, b)
        /\ t = 1 => br[2] = Written(LongJump(0, jt), dirt)
        /\ f = 1 => br[2 + t] = Written(LongJump(t, jf), dirt)
    BY <1>4, BranchShape
  <2>2. jt \in Int /\ jf \in Int
    <3>1. JT(g, b) \in Blocks(g) /\ JF(g, b) \in Blocks(g)
      <4>1. Successors(g, b) = {JT(g, b), JF(g, b)} /\ Successors(g, b) \subseteq Blocks(g)
        BY <1>4, Edged
      <4>. QED  BY <4>1
    <3>2. at[b] \in Int /\ at[JT(g, b)] \in Int /\ at[JF(g, b)] \in Int
      BY <3>1
    <3>. QED  BY <1>1, <3>2 DEF Distance
  <2>3. t \in {0, 1} /\ f \in {0, 1}
    OBVIOUS
  <2>. HIDE DEF br, c, n, jt, jf, t, f
  <2>4. PICK A : br \in Seq(A)
    BY <2>1
  <2>5. Len(br) \in Nat
    BY <2>1, <2>3
  <2>6. /\ Len(c) = n + Len(br) /\ DOMAIN c = 1 .. n + Len(br)
        /\ \A j \in 1 .. n : c[j] = Written(Kept(g.stmts[b])[j], dirt)
        /\ \A j \in 1 .. Len(br) : c[n + j] = br[j]
    BY <1>2, <2>4, <2>5
  <2>7. /\ 1 \in 1 .. Len(br)
        /\ t = 1 => 2 \in 1 .. Len(br)
        /\ f = 1 => 2 + t \in 1 .. Len(br)
    BY <2>1, <2>3
  <2>8. /\ c[n + 1] = br[1]
        /\ t = 1 => c[n + 2] = br[2]
        /\ f = 1 => c[n + (2 + t)] = br[2 + t]
    BY <2>6, <2>7
  <2>9. n + (2 + t) = n + 2 + t /\ Len(c) = n + 1 + t + f /\ Len(c) \in Nat
    BY <1>1, <2>1, <2>3, <2>6
  <2>10. DOMAIN c = 1 .. Len(c)
    BY <2>6
  <2>. QED  BY <1>1, <1>4, <2>1, <2>2, <2>6, <2>8, <2>9, <2>10 DEF c, n, jt, jf, t, f
<1>. QED  BY <1>3, <1>4

-----------------------------------------------------------------------------
(***************************************************************************)
(* One statement, in the graph and in the program.                         *)
(***************************************************************************)
(* The same registers, in the graph and at an instruction of the program.  *)
Same(t, m, pc) ==
  \E a, x, mem : t = At(0, a, x, mem, 0) /\ m = At(pc, a, x, mem, 0)

LEMMA WrittenFields ==
  ASSUME NEW i \in InsnType, NEW dirt
  PROVE  LET w == Written(i, dirt)
         IN  w.class = i.class /\ w.fn = i.fn /\ w.src = i.src /\ w.size = i.size /\ w.k = i.k
BY DEF Written, InsnType

LEMMA Likewise ==
  ASSUME NEW i, NEW w, NEW a, NEW x, NEW mem, NEW pc, NEW p, NEW n, NEW m,
         w.class = i.class, w.fn = i.fn, w.src = i.src, w.size = i.size, w.k = i.k,
         i.class # "jmp"
  PROVE  LET t == At(0, a, x, mem, 0)
             s == At(pc, a, x, mem, 0)
         IN  /\ Faults(s, w, n, p.len) <=> Faults(t, i, m, p.len)
             /\ NewA(s, w, p.at, p.wirelen) = NewA(t, i, p.at, p.wirelen)
             /\ NewX(s, w, p.at, p.wirelen) = NewX(t, i, p.at, p.wirelen)
             /\ NewMem(s, w) = NewMem(t, i)
             /\ NewBack(s, w) = 0
             /\ Target(s, w) = pc + 1
             /\ s.pc = pc /\ ~s.halted /\ ~t.halted
<1>. DEFINE t == At(0, a, x, mem, 0)
            s == At(pc, a, x, mem, 0)
<1>1. /\ s.a = a /\ s.x = x /\ s.mem = mem /\ s.back = 0 /\ s.pc = pc /\ ~s.halted
      /\ t.a = a /\ t.x = x /\ t.mem = mem /\ t.back = 0 /\ ~t.halted
  BY DEF At
<1>. HIDE DEF s, t
<1>2. ~Jumps(w) /\ ~Jumps(i)
  BY DEF Jumps
<1>3. Operand(s, w) = Operand(t, i)
  BY <1>1 DEF Operand
<1>4. Loaded(s, w, p.at, p.wirelen) = Loaded(t, i, p.at, p.wirelen)
  <2>1. Offset(s, w) = Offset(t, i)
    BY <1>1 DEF Offset
  <2>2. Fetch(p.at, Offset(s, w), w.size) = Fetch(p.at, Offset(t, i), i.size)
    BY <2>1
  <2>. QED  BY <1>1, <2>2 DEF Loaded
<1>5. Faults(s, w, n, p.len) <=> Faults(t, i, m, p.len)
  <2>1. Known(w) <=> Known(i)
    BY DEF Known
  <2>2. Inside(s, w, p.len) <=> Inside(t, i, p.len)
    BY <1>1 DEF Inside, Width
  <2>3. (ReadsPacket(w) <=> ReadsPacket(i)) /\ (UsesSlot(w) <=> UsesSlot(i))
        /\ (Divides(w) <=> Divides(i))
    BY DEF ReadsPacket, UsesSlot, Divides
  <2>. QED  BY <1>2, <1>3, <2>1, <2>2, <2>3 DEF Faults
<1>6. NewA(s, w, p.at, p.wirelen) = NewA(t, i, p.at, p.wirelen)
  <2>1. Computed(w.fn, s.a, Operand(s, w)) = Computed(i.fn, t.a, Operand(t, i))
    BY <1>1, <1>3
  <2>. QED  BY <1>1, <1>4, <2>1 DEF NewA
<1>7. NewX(s, w, p.at, p.wirelen) = NewX(t, i, p.at, p.wirelen)
  BY <1>1, <1>4 DEF NewX
<1>8. NewMem(s, w) = NewMem(t, i)
  BY <1>1 DEF NewMem
<1>9. NewBack(s, w) = 0 /\ Target(s, w) = pc + 1
  BY <1>1, <1>2 DEF NewBack, Target
<1>. QED  BY <1>1, <1>5, <1>6, <1>7, <1>8, <1>9 DEF s, t

LEMMA OneStatement ==
  ASSUME NEW i \in InsnType, i.class \notin {"jmp", "ret"}, NEW dirt, NEW p,
         NEW code, NEW n \in Nat, NEW pc \in Nat, pc + 1 < n, code[pc] = Written(i, dirt),
         NEW t, NEW s, Same(t, s, pc)
  PROVE  LET u == Perform(t, i, p)
             v == Go(s, code, n, p)
         IN  \/ u.halted /\ v.halted /\ v.ret = 0
             \/ ~u.halted /\ Same(u, v, pc + 1)
<1>. DEFINE w == Written(i, dirt)
            u == Perform(t, i, p)
            v == Go(s, code, n, p)
<1>1. PICK a, x, mem : t = At(0, a, x, mem, 0) /\ s = At(pc, a, x, mem, 0)
  BY DEF Same
<1>2. w.class = i.class /\ w.fn = i.fn /\ w.src = i.src /\ w.size = i.size /\ w.k = i.k
  BY WrittenFields
<1>. HIDE DEF w
<1>3. /\ Faults(s, w, n, p.len) <=> Faults(t, i, MaxInsns, p.len)
      /\ NewA(s, w, p.at, p.wirelen) = NewA(t, i, p.at, p.wirelen)
      /\ NewX(s, w, p.at, p.wirelen) = NewX(t, i, p.at, p.wirelen)
      /\ NewMem(s, w) = NewMem(t, i)
      /\ NewBack(s, w) = 0
      /\ Target(s, w) = pc + 1
      /\ s.pc = pc /\ ~s.halted /\ ~t.halted
  <2>1. i.class # "jmp"
    OBVIOUS
  <2>2. Faults(s, w, n, p.len) <=> Faults(t, i, MaxInsns, p.len)
    BY <1>1, <1>2, <2>1, Likewise
  <2>3. NewA(s, w, p.at, p.wirelen) = NewA(t, i, p.at, p.wirelen)
    BY <1>1, <1>2, <2>1, Likewise
  <2>4. NewX(s, w, p.at, p.wirelen) = NewX(t, i, p.at, p.wirelen)
    BY <1>1, <1>2, <2>1, Likewise
  <2>5. NewMem(s, w) = NewMem(t, i)
    BY <1>1, <1>2, <2>1, Likewise
  <2>6. NewBack(s, w) = 0 /\ Target(s, w) = pc + 1
    BY <1>1, <1>2, <2>1, Likewise
  <2>7. s.pc = pc /\ ~s.halted /\ ~t.halted
    BY <1>1 DEF At
  <2>. QED  BY <2>2, <2>3, <2>4, <2>5, <2>6, <2>7
<1>4. code[s.pc] = w
  BY <1>3 DEF w
<1>5. u = IF Faults(t, i, MaxInsns, p.len) THEN Stop(t, 0)
          ELSE At(0, NewA(t, i, p.at, p.wirelen), NewX(t, i, p.at, p.wirelen), NewMem(t, i), 0)
  BY <1>3 DEF Perform
<1>6. v = IF Faults(t, i, MaxInsns, p.len) THEN Stop(s, 0)
          ELSE At(pc + 1, NewA(t, i, p.at, p.wirelen), NewX(t, i, p.at, p.wirelen), NewMem(t, i), 0)
  <2>1. v = Step(s, code, n, p.at, p.wirelen, p.len)
    BY <1>3 DEF Go
  <2>2. w.class # "ret" /\ ~(pc + 1 >= n)
    BY <1>2
  <2>. QED  BY <1>3, <1>4, <2>1, <2>2 DEF Step
<1>. HIDE DEF u, v
<1>7. CASE Faults(t, i, MaxInsns, p.len)
  BY <1>5, <1>6, <1>7 DEF Stop, u, v
<1>8. CASE ~Faults(t, i, MaxInsns, p.len)
  <2>1. ~u.halted
    BY <1>5, <1>8 DEF At
  <2>2. Same(u, v, pc + 1)
    BY <1>5, <1>6, <1>8 DEF Same
  <2>. QED  BY <2>1, <2>2 DEF u, v
<1>. QED  BY <1>7, <1>8

-----------------------------------------------------------------------------
(***************************************************************************)
(* Blocks, in the graph and in the program.                                *)
(***************************************************************************)
IsRun(r, code, n, p) ==
  r[0] = Start /\ \A k \in 1 .. n : r[k] = Go(r[k - 1], code, n, p)

LEMMA Stays ==
  ASSUME NEW code, NEW n \in Nat, NEW p, NEW r, IsRun(r, code, n, p),
         NEW k \in 0 .. n, r[k].halted
  PROVE  r[n] = r[k]
<1>. DEFINE S == {j \in Nat : k + j <= n => r[k + j] = r[k]}
<1>1. 0 \in S
  OBVIOUS
<1>2. ASSUME NEW j \in Nat, j \in S PROVE j + 1 \in S
  <2>1. SUFFICES ASSUME k + (j + 1) <= n PROVE r[k + (j + 1)] = r[k]
    OBVIOUS
  <2>2. k + (j + 1) \in 1 .. n /\ (k + (j + 1)) - 1 = k + j /\ k + j <= n
    BY <2>1
  <2>3. r[k + (j + 1)] = Go(r[k + j], code, n, p)
    BY <2>2 DEF IsRun
  <2>. QED  BY <1>2, <2>2, <2>3 DEF Go
<1>. HIDE DEF S
<1>3. n - k \in S
  <2>1. n - k \in Nat
    OBVIOUS
  <2>. QED  BY <1>1, <1>2, <2>1, Induct
<1>4. k + (n - k) = n
  OBVIOUS
<1>. QED  BY <1>3, <1>4 DEF S

LEMMA HaltedPerforms ==
  ASSUME NEW g, Sound(g), NEW b \in Blocks(g), NEW t, t.halted, NEW p
  PROVE  PerformAll(t, g.stmts[b], p) = t
<1>. DEFINE kept == Kept(g.stmts[b])
            q == Performed(t, kept, p)
            S == {j \in Nat : j <= Len(kept) => q[j] = t}
<1>1. Len(kept) \in Nat
  BY RoomTyped
<1>. HIDE DEF kept
<1>2. q[0] = t /\ \A k \in 1 .. Len(kept) : q[k] = Perform(q[k - 1], kept[k], p)
  BY <1>1, PerformedUnfolds
<1>. HIDE DEF q
<1>3. 0 \in S
  BY <1>2
<1>4. ASSUME NEW j \in Nat, j \in S PROVE j + 1 \in S
  <2>1. SUFFICES ASSUME j + 1 <= Len(kept) PROVE q[j + 1] = t
    OBVIOUS
  <2>2. j + 1 \in 1 .. Len(kept) /\ (j + 1) - 1 = j /\ j <= Len(kept)
    BY <1>1, <2>1
  <2>3. q[j + 1] = Perform(q[j], kept[j + 1], p)
    BY <1>2, <2>2
  <2>. QED  BY <1>4, <2>2, <2>3 DEF Perform
<1>. HIDE DEF S
<1>5. Len(kept) \in S
  BY <1>1, <1>3, <1>4, Induct
<1>6. q[Len(kept)] = t
  BY <1>1, <1>5 DEF S
<1>. QED  BY <1>6 DEF PerformAll, q, kept

LEMMA Statements ==
  ASSUME NEW g, Sound(g), NEW b \in Blocks(g), NEW dirt, NEW p,
         NEW code, NEW n \in Nat, NEW r, IsRun(r, code, n, p),
         NEW at \in Nat, at + Len(Kept(g.stmts[b])) < n,
         \A j \in 1 .. Len(Kept(g.stmts[b])) :
            code[at + j - 1] = Written(Kept(g.stmts[b])[j], dirt),
         NEW t, NEW s \in 0 .. at, Same(t, r[s], at)
  PROVE  LET u == PerformAll(t, g.stmts[b], p)
             l == Len(Kept(g.stmts[b]))
         IN  \/ u.halted /\ r[n].halted /\ r[n].ret = 0
             \/ ~u.halted /\ Same(u, r[s + l], at + l)
<1>. DEFINE kept == Kept(g.stmts[b])
            l == Len(kept)
            q == Performed(t, kept, p)
            Fine(j) == \/ q[j].halted /\ r[n].halted /\ r[n].ret = 0
                       \/ ~q[j].halted /\ Same(q[j], r[s + j], at + j)
            S == {j \in Nat : j <= l => Fine(j)}
<1>1. l \in Nat /\ \A j \in 1 .. l : kept[j] \in InsnType /\ kept[j].class \notin {"jmp", "ret"}
  <2>1. kept \in Seq(InsnType)
    BY DEF Sound, SoundBlock
  <2>2. \A j \in 1 .. l : kept[j].class \notin {"jmp", "ret"}
    BY DEF Sound, SoundBlock
  <2>. HIDE DEF kept
  <2>. QED  BY <2>1, <2>2
<1>2. \A j \in 1 .. l : code[at + j - 1] = Written(kept[j], dirt)
  OBVIOUS
<1>3. at + l < n
  OBVIOUS
<1>. HIDE DEF kept
<1>4. q[0] = t /\ \A k \in 1 .. l : q[k] = Perform(q[k - 1], kept[k], p)
  BY <1>1, PerformedUnfolds
<1>. HIDE DEF q, l
<1>5. Fine(0)
  <2>1. ~t.halted
    BY DEF Same, At
  <2>. QED  BY <1>4, <2>1
<1>6. ASSUME NEW j \in Nat, j + 1 <= l, Fine(j) PROVE Fine(j + 1)
  <2>1. j + 1 \in 1 .. l /\ (j + 1) - 1 = j /\ at + (j + 1) - 1 = at + j /\ s \in Nat
    BY <1>1, <1>6
  <2>2. q[j + 1] = Perform(q[j], kept[j + 1], p)
    BY <1>4, <2>1
  <2>3. CASE q[j].halted
    BY <1>6, <2>2, <2>3 DEF Perform, Same, At
  <2>4. CASE ~q[j].halted
    <3>1. Same(q[j], r[s + j], at + j)
      BY <1>6, <2>4
    <3>2. s + (j + 1) \in 1 .. n /\ (s + (j + 1)) - 1 = s + j /\ s + (j + 1) \in 0 .. n
      BY <1>1, <1>3, <2>1, <1>6
    <3>3. r[s + (j + 1)] = Go(r[s + j], code, n, p)
      BY <3>2 DEF IsRun
    <3>4. /\ kept[j + 1] \in InsnType /\ kept[j + 1].class \notin {"jmp", "ret"}
          /\ code[at + j] = Written(kept[j + 1], dirt)
      BY <1>1, <1>2, <1>3, <2>1, <1>6
    <3>5. (at + j) + 1 < n /\ (at + j) + 1 = at + (j + 1) /\ at + j \in Nat
      <4>1. j \in Nat /\ j + 1 <= l /\ l \in Nat
        BY <1>1, <1>6
      <4>. QED  BY ONLY <1>3, <4>1, at \in Nat, n \in Nat
    <3>6. \/ q[j + 1].halted /\ r[s + (j + 1)].halted /\ r[s + (j + 1)].ret = 0
          \/ ~q[j + 1].halted /\ Same(q[j + 1], r[s + (j + 1)], (at + j) + 1)
      BY ONLY <2>2, <3>1, <3>3, <3>4, <3>5, n \in Nat, OneStatement
    <3>7. CASE r[s + (j + 1)].halted /\ q[j + 1].halted /\ r[s + (j + 1)].ret = 0
      <4>1. r[n] = r[s + (j + 1)]
        BY <3>2, <3>7, Stays
      <4>. QED  BY <3>7, <4>1
    <3>. QED  BY <3>5, <3>6, <3>7
  <2>. QED  BY <2>3, <2>4
<1>. HIDE DEF Fine
<1>7. 0 \in S /\ \A j \in Nat : j \in S => j + 1 \in S
  BY <1>1, <1>5, <1>6
<1>. HIDE DEF S
<1>8. l \in S
  BY <1>1, <1>7, Induct
<1>9. Fine(l)
  BY <1>1, <1>8 DEF S
<1>10. q[l] = PerformAll(t, g.stmts[b], p)
  BY DEF PerformAll, q, l, kept
<1>. QED  BY <1>9, <1>10 DEF Fine, l, kept

-----------------------------------------------------------------------------
(***************************************************************************)
(* Tests and jumps.                                                        *)
(***************************************************************************)
LEMMA TestStep ==
  ASSUME NEW w, w.class = "jmp", w.fn \in CondFn, Known(w), NEW a, NEW x, NEW mem,
         NEW pc \in Nat, NEW code, NEW n \in Nat, NEW p, code[pc] = w,
         NEW d \in Nat, d = IF Holds(w.fn, a, Operand(At(pc, a, x, mem, 0), w)) THEN w.jt ELSE w.jf,
         pc + 1 + d < n
  PROVE  Go(At(pc, a, x, mem, 0), code, n, p) = At(pc + 1 + d, a, x, mem, 0)
<1>. DEFINE s == At(pc, a, x, mem, 0)
<1>1. s.a = a /\ s.x = x /\ s.mem = mem /\ s.back = 0 /\ s.pc = pc /\ ~s.halted
  BY DEF At
<1>2. d = IF Holds(w.fn, a, Operand(s, w)) THEN w.jt ELSE w.jf
  OBVIOUS
<1>. HIDE DEF s
<1>3. w.fn # "ja" /\ ~Jumps(w)
  BY DEF CondFn, Jumps
<1>4. ~Faults(s, w, n, p.len)
  BY <1>3 DEF Faults, ReadsPacket, UsesSlot, Divides
<1>5. Target(s, w) = pc + 1 + d /\ ~(pc + 1 + d >= n)
  BY <1>1, <1>2, <1>3 DEF Target
<1>6. NewA(s, w, p.at, p.wirelen) = a /\ NewX(s, w, p.at, p.wirelen) = x
      /\ NewMem(s, w) = mem /\ NewBack(s, w) = 0
  BY <1>1, <1>3 DEF NewA, NewX, NewMem, NewBack
<1>7. Go(s, code, n, p) = Step(s, code, n, p.at, p.wirelen, p.len)
  BY <1>1 DEF Go
<1>8. Step(s, code, n, p.at, p.wirelen, p.len) = At(pc + 1 + d, a, x, mem, 0)
  <2>1. code[s.pc] = w /\ w.class # "ret"
    BY <1>1
  <2>. QED  BY <1>4, <1>5, <1>6, <2>1 DEF Step
<1>. QED  BY <1>7, <1>8 DEF s

(* A long jump goes forward: k is small, so it is read without a sign and  *)
(* its sum with the place does not wrap.                                   *)
LEMMA JumpStep ==
  ASSUME NEW dirt, NEW k \in Nat, NEW a, NEW x, NEW mem,
         NEW pc \in Nat, NEW code, NEW n \in 0 .. MaxInsns, NEW p,
         code[pc] = Written(Jmp("ja", "k", k), dirt), pc + 1 + k < n
  PROVE  Go(At(pc, a, x, mem, 0), code, n, p) = At(pc + 1 + k, a, x, mem, 0)
<1>. DEFINE s == At(pc, a, x, mem, 0)
            w == Written(Jmp("ja", "k", k), dirt)
<1>1. s.a = a /\ s.x = x /\ s.mem = mem /\ s.back = 0 /\ s.pc = pc /\ ~s.halted
  BY DEF At
<1>2. w.class = "jmp" /\ w.fn = "ja" /\ w.src = "k" /\ w.k = k
  BY DEF Written, Jmp, Op
<1>3. code[pc] = w
  OBVIOUS
<1>4. k \in Nat /\ pc + 1 + k < n
  OBVIOUS
<1>. HIDE DEF s, w
<1>5. W \in Nat /\ 2 * MaxInsns < W /\ MaxInsns \in Nat
  <2>1. ByteBase \in Nat /\ MaxInsns \in Nat /\ 2 * MaxInsns < W
    BY BpfAssumption
  <2>2. ByteBase * ByteBase \in Nat
    BY <2>1
  <2>3. ByteBase * ByteBase * ByteBase \in Nat
    BY <2>1, <2>2
  <2>4. ByteBase * ByteBase * ByteBase * ByteBase \in Nat
    BY <2>1, <2>3
  <2>. QED  BY <2>1, <2>4 DEF W
<1>6. Signed(k) = k
  BY <1>4, <1>5 DEF Signed
<1>7. (pc + k + 1) % W = pc + k + 1
  BY <1>4, <1>5
<1>8. Jumps(w) /\ ~TooFar(s, w, n)
  BY <1>1, <1>2, <1>4, <1>6, <1>7 DEF Jumps, TooFar
<1>9. ~Faults(s, w, n, p.len)
  BY <1>2, <1>8 DEF Faults, ReadsPacket, UsesSlot, Divides, Known
<1>10. Target(s, w) = pc + 1 + k /\ ~(pc + 1 + k >= n)
  BY <1>1, <1>2, <1>4, <1>6 DEF Target
<1>11. NewA(s, w, p.at, p.wirelen) = a /\ NewX(s, w, p.at, p.wirelen) = x
      /\ NewMem(s, w) = mem
  BY <1>1, <1>2 DEF NewA, NewX, NewMem
<1>12. NewBack(s, w) = 0
  BY <1>1, <1>2, <1>4, <1>6 DEF NewBack
<1>13. Step(s, code, n, p.at, p.wirelen, p.len) = At(pc + 1 + k, a, x, mem, 0)
  <2>1. code[s.pc] = w /\ w.class # "ret"
    BY <1>1, <1>2, <1>3
  <2>. QED  BY <1>9, <1>10, <1>11, <1>12, <2>1 DEF Step
<1>14. Go(s, code, n, p) = Step(s, code, n, p.at, p.wirelen, p.len)
  BY <1>1 DEF Go
<1>. QED  BY <1>13, <1>14 DEF s

LEMMA RetStep ==
  ASSUME NEW i \in InsnType, i.class = "ret", i.src = "k", NEW dirt, NEW a, NEW x, NEW mem,
         NEW pc, NEW code, NEW n, NEW p, code[pc] = Written(i, dirt)
  PROVE  LET v == Go(At(pc, a, x, mem, 0), code, n, p)
         IN  v.halted /\ v.ret = i.k
<1>. DEFINE s == At(pc, a, x, mem, 0)
            w == Written(i, dirt)
<1>1. s.pc = pc /\ ~s.halted
  BY DEF At
<1>2. w.class = "ret" /\ w.src = "k" /\ w.k = i.k
  BY WrittenFields
<1>3. code[pc] = w
  OBVIOUS
<1>. HIDE DEF s, w
<1>4. Known(w)
  BY <1>2 DEF Known
<1>5. Go(s, code, n, p) = Stop(s, i.k)
  BY <1>1, <1>2, <1>3, <1>4 DEF Go, Step
<1>. QED  BY <1>5 DEF Stop, s

(* One side of a test: straight to its place, or over the long jump.       *)
Aims(w, a, x, mem, pc, code, n, p, dirt, far, extra) ==
  /\ w.class = "jmp" /\ w.fn \in CondFn /\ Known(w) /\ code[pc] = w
  /\ pc \in Nat /\ n \in 0 .. MaxInsns /\ far \in Nat /\ extra \in {0, 1}
  /\ (IF Holds(w.fn, a, Operand(At(pc, a, x, mem, 0), w)) THEN w.jt ELSE w.jf)
       = (IF far >= ByteBase THEN extra ELSE far)
  /\ far >= ByteBase => code[pc + 1 + extra] = Written(LongJump(extra, far), dirt)
  /\ pc + 1 + far < n

Arrives(w, a, x, mem, pc, code, n, p, far) ==
  LET one == Go(At(pc, a, x, mem, 0), code, n, p)
  IN  \/ one = At(pc + 1 + far, a, x, mem, 0)
      \/ /\ pc + 1 + far > pc + 1
         /\ Go(one, code, n, p) = At(pc + 1 + far, a, x, mem, 0)

LEMMA Side ==
  ASSUME NEW w, NEW a, NEW x, NEW mem, NEW pc, NEW code, NEW n, NEW p, NEW dirt,
         NEW far, NEW extra, Aims(w, a, x, mem, pc, code, n, p, dirt, far, extra)
  PROVE  Arrives(w, a, x, mem, pc, code, n, p, far)
<1>0. /\ w.class = "jmp" /\ w.fn \in CondFn /\ Known(w) /\ code[pc] = w
      /\ pc \in Nat /\ n \in 0 .. MaxInsns /\ far \in Nat /\ extra \in {0, 1}
      /\ (IF Holds(w.fn, a, Operand(At(pc, a, x, mem, 0), w)) THEN w.jt ELSE w.jf)
           = (IF far >= ByteBase THEN extra ELSE far)
      /\ far >= ByteBase => code[pc + 1 + extra] = Written(LongJump(extra, far), dirt)
      /\ pc + 1 + far < n
  BY DEF Aims
<1>. USE <1>0
<1>. DEFINE hop == IF far >= ByteBase THEN extra ELSE far
<1>1. ByteBase \in Nat /\ ByteBase > 1 /\ n \in Nat /\ MaxInsns \in Nat
  BY BpfAssumption
<1>2. hop \in Nat /\ pc + 1 + hop < n
  BY <1>1
<1>3. Go(At(pc, a, x, mem, 0), code, n, p) = At(pc + 1 + hop, a, x, mem, 0)
  BY <1>1, <1>2, TestStep
<1>4. CASE far >= ByteBase
  <2>1. /\ hop = extra /\ far - extra - 1 \in Nat /\ far \in Int
        /\ pc + 1 + extra \in Nat /\ pc + 1 + far > pc + 1
        /\ (pc + 1 + extra) + 1 + (far - extra - 1) = pc + 1 + far
        /\ extra \in Nat
    BY <1>1, <1>4
  <2>2. code[pc + 1 + extra] = Written(LongJump(extra, far), dirt)
    BY <1>4
  <2>3. Go(At(pc + 1 + extra, a, x, mem, 0), code, n, p) = At(pc + 1 + far, a, x, mem, 0)
    <3>. DEFINE q == pc + 1 + extra
                k == far - extra - 1
    <3>1. q \in Nat /\ k \in Nat /\ q + 1 + k = pc + 1 + far /\ q + 1 + k < n
      BY <2>1
    <3>2. code[q] = Written(Jmp("ja", "k", k), dirt)
      BY <2>2 DEF LongJump
    <3>. HIDE DEF q, k
    <3>3. Go(At(q, a, x, mem, 0), code, n, p) = At(q + 1 + k, a, x, mem, 0)
      BY ONLY <1>0, <1>1, <3>1, <3>2, JumpStep
    <3>. QED  BY <3>1, <3>3 DEF q
  <2>. QED  BY <1>3, <2>1, <2>3 DEF Arrives
<1>5. CASE ~(far >= ByteBase)
  BY <1>3, <1>5 DEF Arrives
<1>. QED  BY <1>4, <1>5

LEMMA Ahead ==
  ASSUME NEW pc \in Nat, NEW z \in Int, pc < z, NEW base, NEW l, pc = base + l,
         base \in Int, l \in Nat
  PROVE  z - (base + l) - 1 \in Nat /\ z = pc + 1 + (z - (base + l) - 1)
OBVIOUS

(* The block that convert_code_r wrote takes the run where the graph goes, *)
(* over one jump or two.                                                   *)
LEMMA Branches ==
  ASSUME NEW g, Sound(g), NEW b \in Blocks(g), ~EndsRun(g, b),
         NEW at \in [Blocks(g) -> Int], NEW dirt, NEW p,
         NEW code, NEW n \in 0 .. MaxInsns, NEW pc \in Nat,
         pc = at[b] + Len(Kept(g.stmts[b])),
         code[pc] = Test(g, at, b),
         \A c \in Successors(g, b) : pc < at[c] /\ at[c] < n,
         LET jt == Distance(g, at, b, JT(g, b))
             jf == Distance(g, at, b, JF(g, b))
             t == IF jt >= ByteBase THEN 1 ELSE 0
         IN  /\ jt >= ByteBase => code[pc + 1] = Written(LongJump(0, jt), dirt)
             /\ jf >= ByteBase => code[pc + 1 + t] = Written(LongJump(t, jf), dirt),
         NEW u, NEW m, Same(u, m, pc)
  PROVE  LET c == Next1(g, b, u)
             one == Go(m, code, n, p)
             two == Go(one, code, n, p)
         IN  /\ c \in Successors(g, b)
             /\ \/ Same(u, one, at[c])
                \/ at[c] > pc + 1 /\ Same(u, two, at[c])
<1>. DEFINE br == g.br[b]
            jt == Distance(g, at, b, JT(g, b))
            jf == Distance(g, at, b, JF(g, b))
            t == IF jt >= ByteBase THEN 1 ELSE 0
            w == Test(g, at, b)
            c == Next1(g, b, u)
            one == Go(m, code, n, p)
            two == Go(one, code, n, p)
<1>1. PICK a, x, mem : u = At(0, a, x, mem, 0) /\ m = At(pc, a, x, mem, 0)
  BY DEF Same
<1>2. br \in InsnType /\ Known(br) /\ br.class = "jmp" /\ br.fn \in CondFn
  BY DEF Sound, SoundBlock
<1>3. Successors(g, b) = {JT(g, b), JF(g, b)} /\ Successors(g, b) \subseteq Blocks(g)
  BY Edged
<1>4. at[b] \in Int /\ Len(Kept(g.stmts[b])) \in Nat
  <2>1. Kept(g.stmts[b]) \in Seq(InsnType)
    BY DEF Sound, SoundBlock
  <2>. QED  BY <2>1
<1>5. /\ jt \in Nat /\ at[JT(g, b)] = pc + 1 + jt /\ at[JT(g, b)] < n
      /\ jf \in Nat /\ at[JF(g, b)] = pc + 1 + jf /\ at[JF(g, b)] < n
  <2>1. /\ at[JT(g, b)] \in Int /\ at[JF(g, b)] \in Int
        /\ pc < at[JT(g, b)] /\ at[JT(g, b)] < n
        /\ pc < at[JF(g, b)] /\ at[JF(g, b)] < n
    BY <1>3
  <2>2. pc = at[b] + Len(Kept(g.stmts[b]))
    OBVIOUS
  <2>3. jt \in Nat /\ at[JT(g, b)] = pc + 1 + jt
    <3>. DEFINE z == at[JT(g, b)]
                from == at[b]
                l == Len(Kept(g.stmts[b]))
    <3>1. z \in Int /\ pc < z /\ from \in Int /\ l \in Nat /\ pc = from + l
      BY <1>4, <2>1, <2>2
    <3>2. jt = z - (from + l) - 1
      BY DEF Distance
    <3>. HIDE DEF z, from, l, jt
    <3>3. z - (from + l) - 1 \in Nat /\ z = pc + 1 + (z - (from + l) - 1)
      BY ONLY <3>1, pc \in Nat, Ahead
    <3>. QED  BY ONLY <3>2, <3>3 DEF z
  <2>4. jf \in Nat /\ at[JF(g, b)] = pc + 1 + jf
    <3>. DEFINE z == at[JF(g, b)]
                from == at[b]
                l == Len(Kept(g.stmts[b]))
    <3>1. z \in Int /\ pc < z /\ from \in Int /\ l \in Nat /\ pc = from + l
      BY <1>4, <2>1, <2>2
    <3>2. jf = z - (from + l) - 1
      BY DEF Distance
    <3>. HIDE DEF z, from, l, jf
    <3>3. z - (from + l) - 1 \in Nat /\ z = pc + 1 + (z - (from + l) - 1)
      BY ONLY <3>1, pc \in Nat, Ahead
    <3>. QED  BY ONLY <3>2, <3>3 DEF z
  <2>. QED  BY <2>1, <2>3, <2>4
<1>6. /\ w.class = "jmp" /\ w.fn = br.fn /\ w.src = br.src /\ w.k = br.k /\ w.size = br.size
      /\ w.jt = IF jt >= ByteBase THEN 0 ELSE jt
      /\ w.jf = IF jf >= ByteBase THEN t ELSE jf
  BY <1>2 DEF Test, InsnType
<1>7. /\ code[pc] = w
      /\ jt >= ByteBase => code[pc + 1] = Written(LongJump(0, jt), dirt)
      /\ jf >= ByteBase => code[pc + 1 + t] = Written(LongJump(t, jf), dirt)
  OBVIOUS
<1>8. c = IF Holds(br.fn, a, Operand(u, br)) THEN JT(g, b) ELSE JF(g, b)
  BY <1>1 DEF Next1, At
<1>9. pc + 1 + 0 = pc + 1 /\ t \in {0, 1} /\ 0 \in {0, 1}
  OBVIOUS
<1>. HIDE DEF jt, jf, w, c, br, t
<1>10. Operand(u, br) = Operand(m, w)
  BY <1>1, <1>6 DEF Operand, At
<1>11. Known(w) /\ w.fn \in CondFn /\ w.class = "jmp"
  BY <1>2, <1>6 DEF Known
<1>12. CASE Holds(br.fn, a, Operand(u, br))
  <2>1. c = JT(g, b) /\ c \in Successors(g, b) /\ at[c] = pc + 1 + jt /\ pc + 1 + jt < n
    BY <1>3, <1>5, <1>8, <1>12
  <2>2. w.jt = IF Holds(w.fn, a, Operand(At(pc, a, x, mem, 0), w)) THEN w.jt ELSE w.jf
    BY <1>1, <1>6, <1>10, <1>12
  <2>3. w.jt = IF jt >= ByteBase THEN 0 ELSE jt
    BY <1>6
  <2>4. jt >= ByteBase => code[pc + 1 + 0] = Written(LongJump(0, jt), dirt)
    BY <1>7, <1>9
  <2>5. \/ one = At(pc + 1 + jt, a, x, mem, 0)
        \/ pc + 1 + jt > pc + 1 /\ two = At(pc + 1 + jt, a, x, mem, 0)
    <3>1. m = At(pc, a, x, mem, 0) /\ code[pc] = w /\ jt \in Nat
      BY <1>1, <1>5, <1>7
    <3>2. (IF Holds(w.fn, a, Operand(At(pc, a, x, mem, 0), w)) THEN w.jt ELSE w.jf)
          = (IF jt >= ByteBase THEN 0 ELSE jt)
      BY <2>2, <2>3
    <3>3. Aims(w, a, x, mem, pc, code, n, p, dirt, jt, 0)
      BY ONLY <1>9, <1>11, <2>1, <2>4, <3>1, <3>2, pc \in Nat, n \in 0 .. MaxInsns DEF Aims
    <3>4. Arrives(w, a, x, mem, pc, code, n, p, jt)
      BY ONLY <3>3, Side
    <3>. QED  BY ONLY <3>1, <3>4 DEF Arrives, one, two
  <2>. HIDE DEF one, two
  <2>6. \/ one = At(at[c], a, x, mem, 0)
        \/ at[c] > pc + 1 /\ two = At(at[c], a, x, mem, 0)
    BY <2>1, <2>5
  <2>7. Same(u, one, at[c]) \/ (at[c] > pc + 1 /\ Same(u, two, at[c]))
    BY <1>1, <2>6, Zenon DEF Same
  <2>. QED  BY <2>1, <2>7, Zenon DEF c, one, two
<1>13. CASE ~Holds(br.fn, a, Operand(u, br))
  <2>1. c = JF(g, b) /\ c \in Successors(g, b) /\ at[c] = pc + 1 + jf /\ pc + 1 + jf < n
    BY <1>3, <1>5, <1>8, <1>13
  <2>2. w.jf = IF Holds(w.fn, a, Operand(At(pc, a, x, mem, 0), w)) THEN w.jt ELSE w.jf
    BY <1>1, <1>6, <1>10, <1>13
  <2>3. w.jf = IF jf >= ByteBase THEN t ELSE jf
    BY <1>6
  <2>4. jf >= ByteBase => code[pc + 1 + t] = Written(LongJump(t, jf), dirt)
    BY <1>7
  <2>5. \/ one = At(pc + 1 + jf, a, x, mem, 0)
        \/ pc + 1 + jf > pc + 1 /\ two = At(pc + 1 + jf, a, x, mem, 0)
    <3>1. m = At(pc, a, x, mem, 0) /\ code[pc] = w /\ jf \in Nat
      BY <1>1, <1>5, <1>7
    <3>2. (IF Holds(w.fn, a, Operand(At(pc, a, x, mem, 0), w)) THEN w.jt ELSE w.jf)
          = (IF jf >= ByteBase THEN t ELSE jf)
      BY <2>2, <2>3
    <3>3. Aims(w, a, x, mem, pc, code, n, p, dirt, jf, t)
      BY ONLY <1>9, <1>11, <2>1, <2>4, <3>1, <3>2, pc \in Nat, n \in 0 .. MaxInsns DEF Aims
    <3>4. Arrives(w, a, x, mem, pc, code, n, p, jf)
      BY ONLY <3>3, Side
    <3>. QED  BY ONLY <3>1, <3>4 DEF Arrives, one, two
  <2>. HIDE DEF one, two
  <2>6. \/ one = At(at[c], a, x, mem, 0)
        \/ at[c] > pc + 1 /\ two = At(at[c], a, x, mem, 0)
    BY <2>1, <2>5
  <2>7. Same(u, one, at[c]) \/ (at[c] > pc + 1 /\ Same(u, two, at[c]))
    BY <1>1, <2>6, Zenon DEF Same
  <2>. QED  BY <2>1, <2>7, Zenon DEF c, one, two
<1>. QED  BY <1>12, <1>13 DEF c

-----------------------------------------------------------------------------
(***************************************************************************)
(* Programs that are laid out as the graph says: every block that can be   *)
(* reached has its instructions at its place, before those it leads to.    *)
(***************************************************************************)
BlockLaid(g, at, code, n, dirt, b) ==
  LET l == Len(BlockCode(g, at, b, dirt))
  IN  /\ at[b] >= 0 /\ at[b] + l <= n
      /\ \A c \in Successors(g, b) : at[b] + l <= at[c]
      /\ \A j \in 1 .. l : code[at[b] + j - 1] = BlockCode(g, at, b, dirt)[j]

LaidOut(g, at, code, n, dirt) ==
  /\ at \in [Blocks(g) -> Int] /\ at[g.root] = 0
  /\ \A b \in Reached(g) : BlockLaid(g, at, code, n, dirt, b)

LEMMA LaidShape ==
  ASSUME NEW g, Sound(g), NEW at, NEW code, NEW n \in Nat, NEW dirt,
         LaidOut(g, at, code, n, dirt), NEW b \in Reached(g)
  PROVE  LET l == Len(Kept(g.stmts[b]))
             pc == at[b] + l
             jt == Distance(g, at, b, JT(g, b))
             jf == Distance(g, at, b, JF(g, b))
             t == IF jt >= ByteBase THEN 1 ELSE 0
         IN  /\ b \in Blocks(g) /\ at \in [Blocks(g) -> Int]
             /\ at[b] \in Nat /\ l \in Nat /\ pc \in Nat /\ pc < n
             /\ \A j \in 1 .. l : code[at[b] + j - 1] = Written(Kept(g.stmts[b])[j], dirt)
             /\ EndsRun(g, b) => code[pc] = Written(g.br[b], dirt)
             /\ ~EndsRun(g, b) =>
                  /\ \A c \in Successors(g, b) : pc < at[c]
                  /\ code[pc] = Test(g, at, b)
                  /\ jt >= ByteBase => code[pc + 1] = Written(LongJump(0, jt), dirt)
                  /\ jf >= ByteBase => code[pc + 1 + t] = Written(LongJump(t, jf), dirt)
<1>. DEFINE kept == Kept(g.stmts[b])
            l == Len(kept)
            pc == at[b] + l
            jt == Distance(g, at, b, JT(g, b))
            jf == Distance(g, at, b, JF(g, b))
            t == IF jt >= ByteBase THEN 1 ELSE 0
            f == IF jf >= ByteBase THEN 1 ELSE 0
            c == BlockCode(g, at, b, dirt)
            line(j) == Written(kept[j], dirt)
            long1 == Written(LongJump(0, jt), dirt)
            long2 == Written(LongJump(t, jf), dirt)
            ret == Written(g.br[b], dirt)
            test == Test(g, at, b)
<1>1. b \in Blocks(g) /\ at \in [Blocks(g) -> Int]
  BY Closed DEF LaidOut
<1>2. BlockLaid(g, at, code, n, dirt, b)
  BY DEF LaidOut
<1>3. /\ at[b] >= 0 /\ at[b] + Len(c) <= n
      /\ \A s \in Successors(g, b) : at[b] + Len(c) <= at[s]
      /\ \A j \in 1 .. Len(c) : code[at[b] + j - 1] = c[j]
  BY <1>2 DEF BlockLaid
<1>4. l \in Nat /\ Len(c) \in Nat
  BY <1>1, BlockShape
<1>5. \A j \in 1 .. l : c[j] = line(j)
  BY <1>1, BlockShape
<1>6. EndsRun(g, b) => Len(c) = l + 1 /\ c[l + 1] = ret
  BY <1>1, BlockShape
<1>7. ~EndsRun(g, b) => Len(c) = l + 1 + t + f /\ c[l + 1] = test
  BY <1>1, BlockShape
<1>8. ~EndsRun(g, b) => (t = 1 => c[l + 2] = long1)
  BY <1>1, BlockShape
<1>9. ~EndsRun(g, b) => (f = 1 => c[l + 2 + t] = long2)
  BY <1>1, BlockShape
<1>10. t \in {0, 1} /\ f \in {0, 1} /\ (jt >= ByteBase <=> t = 1) /\ (jf >= ByteBase <=> f = 1)
  OBVIOUS
<1>11. at[b] \in Int /\ \A s \in Successors(g, b) : at[s] \in Int
  BY <1>1, Edged
<1>. HIDE DEF l, t, f, c, line, long1, long2, ret, test, kept
<1>12. at[b] \in Nat /\ pc \in Nat /\ pc < n
  <2>1. Len(c) >= l + 1
    BY <1>4, <1>6, <1>7, <1>10
  <2>. QED  BY <1>3, <1>4, <1>11, <2>1
<1>13. \A j \in 1 .. l : code[at[b] + j - 1] = line(j)
  <2>1. Len(c) >= l
    BY <1>4, <1>6, <1>7, <1>10
  <2>. QED  BY <1>3, <1>4, <1>5, <2>1
<1>14. Len(c) >= l + 1 => code[pc] = c[l + 1]
  <2>1. Len(c) >= l + 1 => l + 1 \in 1 .. Len(c)
    BY <1>4
  <2>2. at[b] + (l + 1) - 1 = pc
    BY <1>4, <1>11
  <2>. QED  BY <1>3, <2>1, <2>2
<1>15. EndsRun(g, b) => code[pc] = ret
  BY <1>4, <1>6, <1>14
<1>16. ~EndsRun(g, b) => code[pc] = test
  BY <1>4, <1>7, <1>10, <1>14
<1>17. ~EndsRun(g, b) => \A s \in Successors(g, b) : pc < at[s]
  BY <1>3, <1>4, <1>7, <1>10, <1>11
<1>18. ~EndsRun(g, b) => (t = 1 => code[pc + 1] = long1)
  <2>1. ~EndsRun(g, b) /\ t = 1 => l + 2 \in 1 .. Len(c)
    BY <1>4, <1>7, <1>10
  <2>2. at[b] + (l + 2) - 1 = pc + 1
    BY <1>4, <1>11
  <2>. HIDE DEF pc
  <2>. QED  BY <1>3, <1>8, <2>1, <2>2
<1>19. ~EndsRun(g, b) => (f = 1 => code[pc + 1 + t] = long2)
  <2>1. ~EndsRun(g, b) /\ f = 1 => l + 2 + t \in 1 .. Len(c)
    BY <1>4, <1>7, <1>10
  <2>2. at[b] + (l + 2 + t) - 1 = pc + 1 + t
    BY <1>4, <1>10, <1>11
  <2>. HIDE DEF pc
  <2>. QED  BY <1>3, <1>9, <2>1, <2>2
<1>20. ~EndsRun(g, b) => (jt >= ByteBase => code[pc + 1] = long1)
                      /\ (jf >= ByteBase => code[pc + 1 + t] = long2)
  BY <1>10, <1>18, <1>19
<1>21. l \in Nat
  BY <1>4
<1>. USE DEF kept, l, line, long1, long2, ret, test, t
<1>. HIDE DEF jt, jf, pc
<1>. QED  BY <1>1, <1>12, <1>13, <1>15, <1>16, <1>17, <1>20, <1>21, Zenon DEF jt, jf, pc

(* From block to block: where the graph goes, the run goes.                *)
LEMMA Passage ==
  ASSUME NEW g, Sound(g), NEW at, NEW code, NEW n \in 0 .. MaxInsns, NEW dirt, NEW p,
         LaidOut(g, at, code, n, dirt), NEW r, IsRun(r, code, n, p),
         NEW b \in Reached(g), ~EndsRun(g, b),
         NEW t, NEW s \in 0 .. at[b], Same(t, r[s], at[b])
  PROVE  LET u == PerformAll(t, g.stmts[b], p)
             c == Next1(g, b, u)
         IN  \/ u.halted /\ r[n].halted /\ r[n].ret = 0
             \/ ~u.halted /\ c \in Successors(g, b) /\ \E s2 \in 0 .. at[c] : Same(u, r[s2], at[c])
<1>. DEFINE u == PerformAll(t, g.stmts[b], p)
            c == Next1(g, b, u)
            l == Len(Kept(g.stmts[b]))
            pc == at[b] + l
            jt == Distance(g, at, b, JT(g, b))
            jf == Distance(g, at, b, JF(g, b))
            e == IF jt >= ByteBase THEN 1 ELSE 0
            one == Go(r[s + l], code, n, p)
            two == Go(one, code, n, p)
<1>1. n \in Nat /\ MaxInsns \in Nat
  BY BpfAssumption
<1>2. /\ b \in Blocks(g) /\ at \in [Blocks(g) -> Int]
      /\ at[b] \in Nat /\ l \in Nat /\ pc \in Nat /\ pc < n
  BY <1>1, LaidShape
<1>3. \A j \in 1 .. l : code[at[b] + j - 1] = Written(Kept(g.stmts[b])[j], dirt)
  BY <1>1, LaidShape
<1>4. code[pc] = Test(g, at, b) /\ \A d \in Successors(g, b) : pc < at[d]
  BY <1>1, LaidShape
<1>5. /\ jt >= ByteBase => code[pc + 1] = Written(LongJump(0, jt), dirt)
      /\ jf >= ByteBase => code[pc + 1 + e] = Written(LongJump(e, jf), dirt)
  BY <1>1, LaidShape
<1>6. \A d \in Successors(g, b) : at[d] \in Nat /\ at[d] < n
  <2>1. Successors(g, b) \subseteq Reached(g)
    BY Closed
  <2>. TAKE d \in Successors(g, b)
  <2>. DEFINE m == Len(Kept(g.stmts[d]))
  <2>2. d \in Reached(g)
    BY <2>1
  <2>3. at[d] \in Nat /\ m \in Nat /\ at[d] + m < n
    BY <1>1, <2>2, LaidShape
  <2>. HIDE DEF m
  <2>. QED  BY <1>1, <2>3
<1>7. \/ u.halted /\ r[n].halted /\ r[n].ret = 0
      \/ ~u.halted /\ Same(u, r[s + l], pc)
  BY <1>1, <1>2, <1>3, Statements
<1>8. CASE u.halted /\ r[n].halted /\ r[n].ret = 0
  BY <1>8
<1>9. CASE ~u.halted /\ Same(u, r[s + l], pc)
  <2>1. /\ c \in Successors(g, b)
        /\ \/ Same(u, one, at[c])
           \/ at[c] > pc + 1 /\ Same(u, two, at[c])
    <3>. DEFINE m == r[s + l]
    <3>1. Same(u, m, pc)
      BY <1>9
    <3>2. pc = at[b] + Len(Kept(g.stmts[b])) /\ ~EndsRun(g, b) /\ Sound(g)
      OBVIOUS
    <3>3. \A d \in Successors(g, b) : pc < at[d] /\ at[d] < n
      BY <1>4, <1>6
    <3>. HIDE DEF m, u, pc
    <3>. QED  BY <1>2, <1>4, <1>5, <3>1, <3>2, <3>3, Branches DEF m
  <2>2. at[c] \in Nat /\ at[c] < n /\ pc < at[c]
    BY <1>4, <1>6, <2>1
  <2>3. s \in Nat /\ s <= at[b]
    BY <1>2
  <2>. DEFINE z == at[c]
              base == at[b]
  <2>. HIDE DEF c, l, u, z, base
  <2>4. pc = base + l /\ base \in Nat /\ s <= base /\ z \in Nat /\ z < n /\ pc < z
    BY <1>2, <2>2, <2>3 DEF z, base
  <2>. HIDE DEF pc
  <2>5. s + l + 1 \in 1 .. n /\ s + l + 1 \in 0 .. z /\ (s + l + 1) - 1 = s + l
    BY <1>1, <1>2, <2>3, <2>4
  <2>6. z > pc + 1 => s + l + 2 \in 1 .. n /\ s + l + 2 \in 0 .. z /\ (s + l + 2) - 1 = s + l + 1
    BY <1>1, <1>2, <2>3, <2>4
  <2>7. r[s + l + 1] = one
    BY <2>5 DEF IsRun
  <2>8. z > pc + 1 => r[s + l + 2] = two
    BY <2>6, <2>7 DEF IsRun
  <2>. HIDE DEF one, two
  <2>9. \E s2 \in 0 .. z : Same(u, r[s2], z)
    <3>1. Same(u, one, z) \/ (z > pc + 1 /\ Same(u, two, z))
      BY <2>1 DEF z
    <3>. QED  BY <2>5, <2>6, <2>7, <2>8, <3>1
  <2>. QED  BY <1>9, <2>1, <2>9 DEF z, c, u
<1>. QED  BY <1>7, <1>8, <1>9

(* The last block: its ret, or the statement that stops the run before it. *)
Returned(g, b, t, p, r, n) ==
  LET u == PerformAll(t, g.stmts[b], p)
  IN  r[n].halted /\ r[n].ret = (IF u.halted THEN 0 ELSE g.br[b].k)

LEMMA LastBlock ==
  ASSUME NEW g, Sound(g), NEW at, NEW code, NEW n \in Nat, NEW dirt, NEW p,
         LaidOut(g, at, code, n, dirt), NEW r, IsRun(r, code, n, p),
         NEW b \in Reached(g), EndsRun(g, b),
         NEW t, NEW s \in 0 .. at[b], Same(t, r[s], at[b])
  PROVE  Returned(g, b, t, p, r, n)
<1>. DEFINE u == PerformAll(t, g.stmts[b], p)
            l == Len(Kept(g.stmts[b]))
            pc == at[b] + l
            q == s + l
            m == r[q]
            one == Go(m, code, n, p)
<1>1. n \in Nat
  OBVIOUS
<1>2. /\ b \in Blocks(g) /\ at[b] \in Nat /\ l \in Nat /\ pc \in Nat /\ pc < n
  BY <1>1, LaidShape
<1>3. \A j \in 1 .. l : code[at[b] + j - 1] = Written(Kept(g.stmts[b])[j], dirt)
  BY <1>1, LaidShape
<1>4. code[pc] = Written(g.br[b], dirt)
  BY <1>1, LaidShape
<1>5. g.br[b] \in InsnType /\ g.br[b].class = "ret" /\ g.br[b].src = "k"
  BY <1>2 DEF Sound, SoundBlock
<1>6. \/ u.halted /\ r[n].halted /\ r[n].ret = 0
      \/ ~u.halted /\ Same(u, m, pc)
  BY <1>1, <1>2, <1>3, Statements
<1>7. CASE u.halted /\ r[n].halted /\ r[n].ret = 0
  BY <1>7 DEF Returned
<1>8. CASE ~u.halted /\ Same(u, m, pc)
  <2>1. q \in Nat /\ q + 1 \in 1 .. n /\ q + 1 \in 0 .. n /\ (q + 1) - 1 = q
    BY <1>1, <1>2
  <2>. HIDE DEF q, pc, u
  <2>2. r[q + 1] = one
    BY <2>1 DEF IsRun
  <2>3. one.halted /\ one.ret = g.br[b].k
    <3>. HIDE DEF m
    <3>1. PICK a, x, mem : u = At(0, a, x, mem, 0) /\ m = At(pc, a, x, mem, 0)
      BY <1>8 DEF Same
    <3>. QED  BY <1>4, <1>5, <3>1, RetStep
  <2>. HIDE DEF one
  <2>4. r[n] = r[q + 1]
    <3>. DEFINE k == q + 1
    <3>1. k \in 0 .. n /\ r[k].halted
      BY <2>1, <2>2, <2>3
    <3>. HIDE DEF k
    <3>2. r[n] = r[k]
      BY <1>1, <3>1, Stays
    <3>. QED  BY <3>2 DEF k
  <2>. QED  BY <1>8, <2>2, <2>3, <2>4 DEF u, Returned
<1>. QED  BY <1>6, <1>7, <1>8

-----------------------------------------------------------------------------
(***************************************************************************)
(* The run of the whole program and the way through the whole graph.       *)
(***************************************************************************)
Together(g, at, n, r, w) ==
  /\ w.at \in Reached(g)
  /\ \/ w.vm.halted /\ r[n].halted /\ r[n].ret = 0
     \/ ~w.vm.halted /\ \E s \in 0 .. at[w.at] : Same(w.vm, r[s], at[w.at])

LEMMA FollowTogether ==
  ASSUME NEW g, Sound(g), NEW at, NEW code, NEW n \in 0 .. MaxInsns, NEW dirt, NEW p,
         LaidOut(g, at, code, n, dirt), NEW r, IsRun(r, code, n, p),
         NEW w, Together(g, at, n, r, w)
  PROVE  LET v == Follow(g, w, p)
         IN  /\ Together(g, at, n, r, v)
             /\ w.vm.halted \/ EndsRun(g, w.at) => v = w
             /\ ~(w.vm.halted \/ EndsRun(g, w.at)) =>
                  v.vm.halted \/ v.at \in Successors(g, w.at)
<1>. DEFINE b == w.at
            u == PerformAll(w.vm, g.stmts[b], p)
            v == Follow(g, w, p)
<1>1. CASE w.vm.halted \/ EndsRun(g, b)
  BY <1>1 DEF Follow
<1>2. CASE ~w.vm.halted /\ ~EndsRun(g, b)
  <2>. DEFINE c == Next1(g, b, u)
  <2>1. b \in Reached(g)
    BY DEF Together
  <2>2. PICK s \in 0 .. at[b] : Same(w.vm, r[s], at[b])
    BY <1>2 DEF Together
  <2>3. v = Leave(g, b, u)
    BY <1>2 DEF Follow
  <2>4. v.at = (IF u.halted THEN b ELSE c) /\ v.vm = u
    BY <2>3 DEF Leave
  <2>5. \/ u.halted /\ r[n].halted /\ r[n].ret = 0
        \/ ~u.halted /\ c \in Successors(g, b) /\ \E s2 \in 0 .. at[c] : Same(u, r[s2], at[c])
    <3>. DEFINE t == w.vm
    <3>1. Same(t, r[s], at[b]) /\ u = PerformAll(t, g.stmts[b], p)
      BY <2>2
    <3>2. ~EndsRun(g, b)
      BY <1>2
    <3>. HIDE DEF t, b, u
    <3>. QED  BY <2>1, <3>1, <3>2, Passage
  <2>6. Successors(g, b) \subseteq Reached(g)
    BY <2>1, Closed
  <2>. HIDE DEF c, u, v, b
  <2>7. CASE u.halted /\ r[n].halted /\ r[n].ret = 0
    BY <1>2, <2>1, <2>4, <2>7 DEF Together, v, b
  <2>8. CASE ~u.halted /\ c \in Successors(g, b) /\ \E s2 \in 0 .. at[c] : Same(u, r[s2], at[c])
    <3>1. v.at = c /\ v.vm = u
      BY <2>4, <2>8
    <3>2. Together(g, at, n, r, v)
      BY <2>6, <2>8, <3>1, Zenon DEF Together
    <3>. QED  BY <1>2, <2>8, <3>1, <3>2 DEF v, b
  <2>. QED  BY <2>5, <2>7, <2>8
<1>. QED  BY <1>1, <1>2 DEF b

(* A program that is laid out as a sound graph says returns what the graph *)
(* makes of the packet.                                                    *)
LEMMA LaidOutMeans ==
  ASSUME NEW g, Sound(g), NEW at, NEW code, NEW n \in 0 .. MaxInsns, NEW dirt,
         LaidOut(g, at, code, n, dirt), NEW p
  PROVE  SameOutcome(Outcome(code, n, p), Meaning(g, p))
<1>. DEFINE r == RunOf(code, n, p)
            w == Walk(g, p)
            ends == Within(g)
            Ok(k) == /\ Together(g, at, n, r, w[k])
                     /\ w[k].vm.halted \/ EndsRun(g, w[k].at) \/ w[k].at \in ends[g.n - k]
            S == {k \in Nat : k <= g.n => Ok(k)}
<1>1. n \in Nat /\ MaxInsns \in Nat /\ g.n \in Nat
  BY BpfAssumption DEF Sound
<1>2. IsRun(r, code, n, p)
  BY <1>1, RunUnfolds DEF IsRun
<1>3. w[0] = [at |-> g.root, vm |-> Start] /\ \A k \in 1 .. g.n : w[k] = Follow(g, w[k - 1], p)
  BY <1>1, WalkUnfolds
<1>4. /\ \A b \in ends[0] : Successors(g, b) = {}
      /\ \A k \in 1 .. g.n : \A b \in ends[k] : Successors(g, b) \subseteq ends[k - 1]
  BY Ending
<1>5. r[0] = Start
  BY <1>2 DEF IsRun
<1>. HIDE DEF r, w, ends
<1>6. Ok(0)
  <2>1. w[0].at = g.root /\ w[0].vm = Start /\ at[g.root] = 0
    BY <1>3 DEF LaidOut
  <2>2. g.root \in Reached(g) /\ g.root \in ends[g.n]
    BY Closed DEF Sound, ends
  <2>3. Same(Start, r[0], 0) /\ ~Start.halted
    BY <1>5 DEF Same, Start, At
  <2>4. Together(g, at, n, r, w[0])
    <3>1. 0 \in 0 .. at[w[0].at] /\ Same(w[0].vm, r[0], at[w[0].at])
      BY <2>1, <2>3
    <3>. QED  BY <2>1, <2>2, <2>3, <3>1 DEF Together
  <2>5. g.n - 0 = g.n
    BY <1>1
  <2>. QED  BY <2>1, <2>2, <2>4, <2>5
<1>7. \A k \in Nat : k \in S => k + 1 \in S
  <2>. SUFFICES ASSUME NEW k \in Nat, k \in S, k + 1 <= g.n PROVE Ok(k + 1)
    OBVIOUS
  <2>1. Ok(k) /\ k + 1 \in 1 .. g.n /\ (k + 1) - 1 = k /\ g.n - k \in 1 .. g.n
        /\ (g.n - k) - 1 = g.n - (k + 1)
    BY <1>1
  <2>2. w[k + 1] = Follow(g, w[k], p)
    BY <1>3, <2>1
  <2>3. /\ Together(g, at, n, r, w[k + 1])
        /\ w[k].vm.halted \/ EndsRun(g, w[k].at) => w[k + 1] = w[k]
        /\ ~(w[k].vm.halted \/ EndsRun(g, w[k].at)) =>
             w[k + 1].vm.halted \/ w[k + 1].at \in Successors(g, w[k].at)
    <3>. DEFINE x == w[k]
    <3>1. Together(g, at, n, r, x)
      BY <2>1
    <3>. HIDE DEF x
    <3>2. LET v == Follow(g, x, p)
          IN  /\ Together(g, at, n, r, v)
              /\ x.vm.halted \/ EndsRun(g, x.at) => v = x
              /\ ~(x.vm.halted \/ EndsRun(g, x.at)) =>
                   v.vm.halted \/ v.at \in Successors(g, x.at)
      BY <1>2, <3>1, FollowTogether
    <3>. QED  BY <2>2, <3>2 DEF x
  <2>4. w[k].at \in ends[g.n - k] => Successors(g, w[k].at) \subseteq ends[g.n - (k + 1)]
    BY <1>4, <2>1
  <2>. QED  BY <2>1, <2>3, <2>4
<1>8. g.n \in S
  <2>1. 0 \in S
    BY <1>6
  <2>. HIDE DEF S
  <2>2. Nat \subseteq S
    BY <1>7, <2>1, Induct
  <2>. QED  BY <1>1, <2>2
<1>9. Ok(g.n) /\ g.n - g.n = 0
  BY <1>1, <1>8
<1>. DEFINE z == w[g.n]
            b == z.at
            u == PerformAll(z.vm, g.stmts[b], p)
<1>10. Together(g, at, n, r, z) /\ (z.vm.halted \/ EndsRun(g, b) \/ b \in ends[0])
  BY <1>9
<1>11. b \in Reached(g) /\ b \in Blocks(g)
  BY <1>10, Closed DEF Together
<1>12. Meaning(g, p) = Return(g, z, p) /\ Outcome(code, n, p) = r[n]
  BY DEF Meaning, Outcome, r, w
<1>. HIDE DEF Ok, S, z
<1>13. CASE z.vm.halted
  <2>1. r[n].halted /\ r[n].ret = 0
    BY <1>10, <1>13 DEF Together
  <2>2. u = z.vm
    <3>. DEFINE t == z.vm
    <3>1. t.halted
      BY <1>13
    <3>. HIDE DEF t, b
    <3>2. PerformAll(t, g.stmts[b], p) = t
      BY <1>11, <3>1, HaltedPerforms
    <3>. QED  BY <3>2 DEF t
  <2>3. Meaning(g, p) = Rejection
    BY <1>12, <1>13, <2>2 DEF Return
  <2>. QED  BY <1>12, <2>1, <2>3 DEF SameOutcome, Rejection
<1>14. CASE ~z.vm.halted
  <2>1. EndsRun(g, b)
    BY <1>4, <1>10, <1>11, <1>14, Edged
  <2>2. PICK s \in 0 .. at[b] : Same(z.vm, r[s], at[b])
    BY <1>10, <1>14 DEF Together
  <2>3. Returned(g, b, z.vm, p, r, n)
    <3>. HIDE DEF b
    <3>. QED  BY <1>1, <1>2, <1>11, <2>1, <2>2, LastBlock
  <2>4. Meaning(g, p) = IF u.halted THEN Rejection ELSE Verdict(g.br[b].k)
    BY <1>12 DEF Return
  <2>5. r[n].halted /\ r[n].ret = (IF u.halted THEN 0 ELSE g.br[b].k)
    BY <2>3 DEF Returned
  <2>. HIDE DEF u
  <2>. QED  BY <1>12, <2>4, <2>5 DEF SameOutcome, Rejection, Verdict
<1>. QED  BY <1>13, <1>14

-----------------------------------------------------------------------------
(***************************************************************************)
(* The inductive invariant of the conversion.                              *)
(***************************************************************************)
OnPath == {conv.path[i] : i \in 1 .. Len(conv.path)}
Placed == conv.marked \ OnPath

RecordInv ==
  conv = [n |-> conv.n, long |-> conv.long, path |-> conv.path, marked |-> conv.marked,
          tail |-> conv.tail, dirt |-> conv.dirt, at |-> conv.at, code |-> conv.code]

(* The calls under way are a path from the root without a repetition.      *)
PathInv ==
  /\ conv.path \in Seq(Blocks(o))
  /\ OnPath \subseteq conv.marked /\ conv.marked \subseteq Reached(o)
  /\ o.root \in conv.marked
  /\ conv.path # << >> => conv.path[1] = o.root
  /\ \A i, j \in 1 .. Len(conv.path) : conv.path[i] = conv.path[j] => i = j
  /\ \A i \in 1 .. Len(conv.path) - 1 : conv.path[i + 1] \in Successors(o, conv.path[i])

(* What is left of the array is the room of the blocks not yet placed.     *)
TailInv ==
  /\ conv.n = Total(o, Reached(o), conv.long)
  /\ conv.tail = conv.n - Total(o, Placed, conv.long)
  /\ DOMAIN conv.code = 0 .. conv.n - 1
  /\ conv.path = << >> => conv.at[o.root] = conv.tail

(* What a placed block leads to is placed, behind it.                      *)
PlacedInv ==
  /\ conv.at \in [Blocks(o) -> Int]
  /\ \A b \in Placed :
       /\ Successors(o, b) \subseteq Placed /\ conv.tail <= conv.at[b]
       /\ BlockLaid(o, conv.at, conv.code, conv.n, conv.dirt, b)

LayoutInv ==
  /\ Sound(o)
  /\ phase # "graph" => RecordInv /\ PathInv /\ TailInv /\ PlacedInv
  /\ phase = "done" => conv.path = << >> /\ Validate(conv.code, conv.n)

LEMMA AttemptInv ==
  ASSUME Sound(o), o' = o, NEW long, NEW dirt, conv' = Attempt(o, long, dirt)
  PROVE  RecordInv' /\ PathInv' /\ TailInv' /\ PlacedInv'
<1>. DEFINE n == Total(o, Reached(o), long)
<1>1. conv' = [n |-> n, long |-> long, path |-> << o.root >>, marked |-> {o.root},
               tail |-> n, dirt |-> dirt,
               at |-> [b \in Blocks(o) |-> 0], code |-> [j \in 0 .. n - 1 |-> Unwritten]]
  BY DEF Attempt
<1>. HIDE DEF n
<1>2. /\ conv'.n = n /\ conv'.long = long /\ conv'.path = << o.root >> /\ conv'.marked = {o.root}
      /\ conv'.tail = n /\ conv'.at = [b \in Blocks(o) |-> 0]
      /\ conv'.code = [j \in 0 .. n - 1 |-> Unwritten]
  BY <1>1
<1>3. RecordInv'
  BY <1>1 DEF RecordInv
<1>4. o.root \in Reached(o) /\ o.root \in Blocks(o)
  BY Closed DEF Sound
<1>5. OnPath' = {o.root} /\ Placed' = {}
  BY <1>2 DEF OnPath, Placed
<1>6. PathInv'
  BY <1>2, <1>4, <1>5 DEF PathInv
<1>7. n \in Nat /\ Total(o, {}, long) = 0
  BY TotalMore, TotalNothing DEF n
<1>8. TailInv'
  <2>1. << o.root >> # << >>
    OBVIOUS
  <2>2. n = n - Total(o, {}, long)
    BY <1>7
  <2>3. DOMAIN conv'.code = 0 .. n - 1
    BY <1>2
  <2>. QED  BY <1>2, <1>5, <2>1, <2>2, <2>3 DEF TailInv, n
<1>9. PlacedInv'
  <2>1. conv'.at \in [Blocks(o) -> Int]
    BY <1>2
  <2>. QED  BY <1>5, <2>1 DEF PlacedInv
<1>. QED  BY <1>3, <1>6, <1>8, <1>9

(* The innermost call.                                                     *)
LEMMA AtCurrent ==
  ASSUME Sound(o), RecordInv, PathInv, conv.path # << >>
  PROVE  /\ Len(conv.path) \in Nat \ {0}
         /\ Current \in OnPath /\ Current \in Blocks(o) /\ Current \in Reached(o)
         /\ Current \notin Placed
         /\ Onward # None => Onward \in Successors(o, Current) /\ Onward \notin conv.marked
         /\ Onward = None => Successors(o, Current) \subseteq conv.marked
<1>1. Len(conv.path) \in Nat \ {0} /\ conv.path \in Seq(Blocks(o))
  BY DEF PathInv
<1>2. Current \in OnPath /\ Current \in Blocks(o)
  BY <1>1 DEF Current, OnPath
<1>3. Current \in Reached(o) /\ Current \notin Placed
  BY <1>2 DEF PathInv, Placed
<1>. DEFINE t == JT(o, Current)
            f == JF(o, Current)
<1>4. Successors(o, Current) = {t, f} \ {None}
  BY DEF Successors
<1>5. Onward = (IF f # None /\ f \notin conv.marked THEN f
                ELSE IF t # None /\ t \notin conv.marked THEN t ELSE None)
  BY DEF Onward, Unmarked
<1>. HIDE DEF t, f
<1>6. Onward # None => Onward \in Successors(o, Current) /\ Onward \notin conv.marked
  BY <1>4, <1>5
<1>7. Onward = None => Successors(o, Current) \subseteq conv.marked
  BY <1>4, <1>5
<1>. QED  BY <1>1, <1>2, <1>3, <1>6, <1>7

LEMMA EnterInv ==
  ASSUME LayoutInv, Enter
  PROVE  RecordInv' /\ PathInv' /\ TailInv' /\ PlacedInv'
<1>. DEFINE c == Onward
            path == conv.path
            l == Len(path)
<1>1. /\ Sound(o) /\ RecordInv /\ PathInv /\ TailInv /\ PlacedInv
      /\ path # << >> /\ c # None /\ o' = o
  BY DEF LayoutInv, Enter
<1>2. conv' = [conv EXCEPT !.path = Append(@, c), !.marked = @ \cup {c}]
  BY DEF Enter
<1>3. /\ l \in Nat \ {0} /\ Current = path[l] /\ Current \in Reached(o)
      /\ c \in Successors(o, Current) /\ c \notin conv.marked
  BY <1>1, AtCurrent DEF Current
<1>4. c \in Reached(o) /\ c \in Blocks(o) /\ path \in Seq(Blocks(o))
  BY <1>1, <1>3, Closed DEF PathInv
<1>. HIDE DEF c
<1>5. /\ conv'.path = Append(path, c) /\ conv'.marked = conv.marked \cup {c}
      /\ conv'.n = conv.n /\ conv'.long = conv.long /\ conv'.tail = conv.tail
      /\ conv'.dirt = conv.dirt /\ conv'.at = conv.at /\ conv'.code = conv.code
      /\ RecordInv'
  BY <1>1, <1>2 DEF RecordInv
<1>6. /\ conv'.path \in Seq(Blocks(o)) /\ Len(conv'.path) = l + 1
      /\ \A i \in 1 .. l : conv'.path[i] = path[i]
      /\ conv'.path[l + 1] = c /\ conv'.path # << >>
  BY <1>3, <1>4, <1>5
<1>7. OnPath' = OnPath \cup {c}
  <2>1. OnPath' = {conv'.path[i] : i \in 1 .. l + 1} /\ OnPath = {path[i] : i \in 1 .. l}
    BY <1>6 DEF OnPath
  <2>2. \A i : i \in 1 .. l + 1 <=> i \in 1 .. l \/ i = l + 1
    BY <1>3
  <2>. HIDE DEF l, path
  <2>. QED  BY <1>6, <2>1, <2>2
<1>8. Placed' = Placed
  BY <1>1, <1>3, <1>5, <1>7 DEF Placed, PathInv
<1>9. PathInv'
  <2>1. \A i \in 1 .. l : path[i] \in conv.marked
    BY <1>1 DEF PathInv, OnPath
  <2>2. ASSUME NEW i \in 1 .. l + 1, NEW j \in 1 .. l + 1, conv'.path[i] = conv'.path[j]
        PROVE  i = j
    <3>1. i \in 1 .. l /\ j \in 1 .. l => i = j
      BY <1>1, <1>6, <2>2 DEF PathInv
    <3>2. ~(i \in 1 .. l /\ j = l + 1) /\ ~(j \in 1 .. l /\ i = l + 1)
      BY <1>3, <1>6, <2>1, <2>2
    <3>3. (i \in 1 .. l \/ i = l + 1) /\ (j \in 1 .. l \/ j = l + 1)
      BY <1>3
    <3>. QED  BY <3>1, <3>2, <3>3
  <2>3. ASSUME NEW i \in 1 .. (l + 1) - 1
        PROVE  conv'.path[i + 1] \in Successors(o, conv'.path[i])
    <3>1. i \in 1 .. l - 1 \/ i = l
      BY <1>3
    <3>2. i \in 1 .. l - 1 => i \in 1 .. l /\ i + 1 \in 1 .. l
      BY <1>3
    <3>3. i \in 1 .. l - 1 => conv'.path[i + 1] \in Successors(o, conv'.path[i])
      BY <1>1, <1>6, <3>2 DEF PathInv
    <3>4. i = l => conv'.path[i + 1] \in Successors(o, conv'.path[i])
      BY <1>3, <1>6
    <3>. QED  BY <3>1, <3>3, <3>4
  <2>4. conv'.path[1] = o.root
    BY <1>1, <1>3, <1>6 DEF PathInv
  <2>5. OnPath' \subseteq conv'.marked /\ conv'.marked \subseteq Reached(o) /\ o.root \in conv'.marked
    BY <1>1, <1>4, <1>5, <1>7 DEF PathInv
  <2>. QED  BY <1>1, <1>6, <2>2, <2>3, <2>4, <2>5 DEF PathInv
<1>10. TailInv'
  BY <1>1, <1>5, <1>6, <1>8 DEF TailInv
<1>11. PlacedInv'
  BY <1>1, <1>5, <1>8 DEF PlacedInv
<1>. QED  BY <1>5, <1>9, <1>10, <1>11

(* A block only leads to blocks that are placed: one on the path would     *)
(* close a cycle.                                                          *)
LEMMA LeadsToPlaced ==
  ASSUME Sound(o), RecordInv, PathInv, conv.path # << >>, Onward = None
  PROVE  Successors(o, Current) \subseteq Placed
<1>. DEFINE path == conv.path
            l == Len(path)
            b == Current
<1>1. l \in Nat \ {0} /\ b = path[l] /\ Successors(o, b) \subseteq conv.marked
  BY AtCurrent DEF Current
<1>. SUFFICES ASSUME NEW c \in Successors(o, b), c \in OnPath PROVE FALSE
  BY <1>1 DEF Placed
<1>2. PICK i \in 1 .. l : c = path[i]
  BY DEF OnPath
<1>. DEFINE S == {path[j] : j \in i .. l}
<1>3. S \subseteq Reached(o)
  <2>1. \A j \in i .. l : j \in 1 .. l
    BY <1>1, <1>2
  <2>. QED  BY <2>1 DEF PathInv, OnPath
<1>4. b \in S /\ c \in S
  BY <1>1, <1>2
<1>5. \A d \in S : Successors(o, d) \cap S # {}
  <2>. TAKE d \in S
  <2>1. PICK j \in i .. l : d = path[j]
    OBVIOUS
  <2>2. CASE j = l
    BY <1>1, <1>4, <2>1, <2>2
  <2>3. CASE j # l
    <3>1. j \in 1 .. l - 1 /\ j + 1 \in i .. l
      BY <1>1, <1>2, <2>1, <2>3
    <3>2. path[j + 1] \in Successors(o, path[j])
      BY <3>1 DEF PathInv
    <3>. QED  BY <2>1, <3>1, <3>2
  <2>. QED  BY <2>2, <2>3
<1>. HIDE DEF S
<1>6. \E d \in S : Successors(o, d) \cap S = {}
  BY <1>3, <1>4, NoCycle
<1>. QED  BY <1>5, <1>6

(* There is room for the block: the array was counted with the same long   *)
(* jumps.                                                                  *)
LEMMA PlaceFits ==
  ASSUME Sound(o), RecordInv, PathInv, TailInv, conv.path # << >>
  PROVE  /\ conv.n \in Nat /\ conv.tail \in Nat /\ conv.tail <= conv.n
         /\ Place \in Nat /\ Place + Room(o, Current, conv.long) = conv.tail
         /\ Place = conv.n - Total(o, Placed \cup {Current}, conv.long)
<1>. DEFINE b == Current
            long == conv.long
            room == Room(o, b, long)
            now == Total(o, Placed, long)
            then == Total(o, Placed \cup {b}, long)
            all == Total(o, Reached(o), long)
<1>1. b \in Blocks(o) /\ b \in Reached(o) /\ b \notin Placed
  BY AtCurrent
<1>2. Placed \cup {b} \subseteq Reached(o)
  BY <1>1 DEF Placed, PathInv
<1>3. room \in Nat
  BY <1>1, RoomTyped
<1>4. now \in Nat /\ then \in Nat /\ all \in Nat /\ then <= all
  BY <1>2, TotalMore
<1>5. then = now + room
  BY <1>1, TotalOneMore
<1>6. conv.n = all /\ conv.tail = conv.n - now /\ Place = conv.tail - room
  BY DEF TailInv, Place
<1>. HIDE DEF room, now, then, all
<1>7. /\ conv.n \in Nat /\ conv.tail \in Nat /\ conv.tail <= conv.n
      /\ Place \in Nat /\ Place + room = conv.tail /\ Place = conv.n - then
  BY <1>3, <1>4, <1>5, <1>6
<1>. QED  BY <1>7 DEF room, then

(* No more is written than there is room: every far jump is a long one.    *)
LEMMA BlockFits ==
  ASSUME NEW g, Sound(g), NEW b \in Blocks(g), NEW at \in [Blocks(g) -> Int], NEW dirt, NEW long,
         \A e \in {b, b + g.n} : g.succ[e] # None /\ Far(g, at, b, g.succ[e]) => e \in long
  PROVE  Len(BlockCode(g, at, b, dirt)) <= Room(g, b, long)
<1>. DEFINE l == Len(Kept(g.stmts[b]))
            jt == Distance(g, at, b, JT(g, b))
            jf == Distance(g, at, b, JF(g, b))
            t == IF jt >= ByteBase THEN 1 ELSE 0
            f == IF jf >= ByteBase THEN 1 ELSE 0
            x == Extra(b, long)
            y == Extra(b + g.n, long)
            n == Len(BlockCode(g, at, b, dirt))
<1>1. l \in Nat /\ x \in {0, 1} /\ y \in {0, 1} /\ Room(g, b, long) = l + 1 + x + y
  BY RoomTyped
<1>2. EndsRun(g, b) => n = l + 1
  BY BlockShape
<1>3. ~EndsRun(g, b) => n = l + 1 + t + f
  BY BlockShape
<1>4. ~EndsRun(g, b) => JT(g, b) # None /\ JF(g, b) # None
  BY Edged DEF EndsRun, Sound, SoundBlock
<1>5. ~EndsRun(g, b) /\ jt >= ByteBase => x = 1
  BY <1>4 DEF JT, Far, Extra
<1>6. ~EndsRun(g, b) /\ jf >= ByteBase => y = 1
  BY <1>4 DEF JF, Far, Extra
<1>7. t \in {0, 1} /\ f \in {0, 1} /\ (t = 1 => jt >= ByteBase) /\ (f = 1 => jf >= ByteBase)
  OBVIOUS
<1>. HIDE DEF l, t, f, x, y, n, jt, jf
<1>8. n <= l + 1 + x + y
  BY <1>1, <1>2, <1>3, <1>5, <1>6, <1>7
<1>. QED  BY <1>1, <1>8 DEF n

(* A block stays what it is when another one is placed.                    *)
LEMMA SameCodeElsewhere ==
  ASSUME NEW g, Sound(g), NEW b \in Blocks(g), NEW at, NEW at2, NEW dirt,
         at[b] = at2[b], \A c \in Successors(g, b) : at[c] = at2[c]
  PROVE  BlockCode(g, at, b, dirt) = BlockCode(g, at2, b, dirt)
<1>1. CASE EndsRun(g, b)
  BY <1>1 DEF BlockCode, Branch
<1>2. CASE ~EndsRun(g, b)
  <2>1. JT(g, b) \in Successors(g, b) /\ JF(g, b) \in Successors(g, b)
    BY <1>2, Edged
  <2>2. /\ Distance(g, at, b, JT(g, b)) = Distance(g, at2, b, JT(g, b))
        /\ Distance(g, at, b, JF(g, b)) = Distance(g, at2, b, JF(g, b))
    BY <2>1 DEF Distance
  <2>3. Branch(g, at, b, dirt) = Branch(g, at2, b, dirt)
    BY <2>2 DEF Branch
  <2>. QED  BY <2>3 DEF BlockCode
<1>. QED  BY <1>1, <1>2

(* What the step writes: one block, in front of those that are there.      *)
LEMMA Wrote ==
  ASSUME LayoutInv, ConvertBlock
  PROVE  LET b == Current
             l == Len(conv.path)
             block == BlockCode(o, Offsets, b, conv.dirt)
         IN  /\ RecordInv' /\ o' = o
             /\ conv'.n = conv.n /\ conv'.long = conv.long /\ conv'.marked = conv.marked
             /\ conv'.dirt = conv.dirt /\ conv'.tail = Place /\ conv'.at = Offsets
             /\ conv'.path = SubSeq(conv.path, 1, l - 1)
             /\ DOMAIN conv'.code = DOMAIN conv.code
             /\ \A j \in DOMAIN conv.code :
                  conv'.code[j] = IF j \in Place .. Place + Len(block) - 1
                                  THEN block[j - Place + 1] ELSE conv.code[j]
             /\ Offsets \in [Blocks(o) -> Int]
             /\ Offsets[b] = Place /\ \A c \in Blocks(o) \ {b} : Offsets[c] = conv.at[c]
             /\ Len(block) \in Nat /\ Len(block) <= Room(o, b, conv.long)
<1>. DEFINE b == Current
            block == BlockCode(o, Offsets, b, conv.dirt)
            code == [j \in DOMAIN conv.code |-> IF j \in Place .. Place + Len(block) - 1
                                        THEN block[j - Place + 1] ELSE conv.code[j]]
            path == SubSeq(conv.path, 1, Len(conv.path) - 1)
<1>1. /\ Sound(o) /\ RecordInv /\ PathInv /\ TailInv /\ PlacedInv
      /\ conv.path # << >> /\ Onward = None /\ TooLong = {} /\ o' = o
  BY DEF LayoutInv, ConvertBlock
<1>2. conv' = [conv EXCEPT !.path = path, !.tail = Place, !.at = Offsets, !.code = code]
  BY DEF ConvertBlock
<1>3. b \in Blocks(o)
  BY <1>1, AtCurrent
<1>4. Place \in Nat
  BY <1>1, PlaceFits
<1>5. /\ Offsets \in [Blocks(o) -> Int]
      /\ Offsets[b] = Place /\ \A c \in Blocks(o) \ {b} : Offsets[c] = conv.at[c]
  <2>1. conv.at \in [Blocks(o) -> Int]
    BY <1>1 DEF PlacedInv
  <2>. QED  BY <1>3, <1>4, <2>1 DEF Offsets
<1>6. Len(block) \in Nat
  BY <1>1, <1>3, <1>5, BlockShape
<1>7. Len(block) <= Room(o, b, conv.long)
  <2>1. \A e \in {b, b + o.n} :
          o.succ[e] # None /\ Far(o, Offsets, b, o.succ[e]) => e \in conv.long
    BY <1>1 DEF TooLong
  <2>. QED  BY <1>1, <1>3, <1>5, <2>1, BlockFits
<1>. HIDE DEF block, path, code
<1>8. /\ conv'.path = path /\ conv'.tail = Place /\ conv'.at = Offsets /\ conv'.code = code
      /\ conv'.n = conv.n /\ conv'.long = conv.long /\ conv'.marked = conv.marked
      /\ conv'.dirt = conv.dirt /\ RecordInv'
  BY <1>1, <1>2 DEF RecordInv
<1>9. /\ DOMAIN conv'.code = DOMAIN conv.code
      /\ \A j \in DOMAIN conv.code :
           conv'.code[j] = IF j \in Place .. Place + Len(block) - 1
                           THEN block[j - Place + 1] ELSE conv.code[j]
  BY <1>8 DEF code
<1>. QED  BY <1>1, <1>5, <1>6, <1>7, <1>8, <1>9 DEF path, block

LEMMA WrittenPath ==
  ASSUME LayoutInv, ConvertBlock
  PROVE  /\ PathInv' /\ Placed' = Placed \cup {Current}
         /\ conv'.path = << >> => Current = o.root
<1>. DEFINE path == conv.path
            l == Len(path)
            b == Current
<1>1. /\ Sound(o) /\ RecordInv /\ PathInv /\ path # << >> /\ Onward = None
  BY DEF LayoutInv, ConvertBlock
<1>2. o' = o /\ conv'.marked = conv.marked /\ conv'.path = SubSeq(path, 1, l - 1)
  BY Wrote
<1>3. /\ l \in Nat \ {0} /\ b = path[l] /\ b \in OnPath /\ path \in Seq(Blocks(o))
  BY <1>1, AtCurrent DEF Current, PathInv
<1>4. /\ conv'.path \in Seq(Blocks(o)) /\ Len(conv'.path) = l - 1
      /\ \A i \in 1 .. l - 1 : conv'.path[i] = path[i]
  BY <1>2, <1>3
<1>5. /\ \A i \in 1 .. l - 1 : i \in 1 .. l /\ i # l
      /\ \A i \in 1 .. l : i \in 1 .. l - 1 \/ i = l
      /\ l \in 1 .. l
  BY <1>3
<1>6. \A i, j \in 1 .. l : path[i] = path[j] => i = j
  BY <1>1 DEF PathInv
<1>7. OnPath' = OnPath \ {b}
  <2>1. OnPath' = {path[i] : i \in 1 .. l - 1}
    BY <1>4 DEF OnPath
  <2>2. OnPath = {path[i] : i \in 1 .. l}
    BY DEF OnPath
  <2>. HIDE DEF l, path, b
  <2>. QED  BY <1>3, <1>5, <1>6, <2>1, <2>2
<1>8. Placed' = Placed \cup {b}
  BY <1>1, <1>2, <1>3, <1>7 DEF Placed, PathInv
<1>9. PathInv'
  <2>1. \A i, j \in 1 .. l - 1 : conv'.path[i] = conv'.path[j] => i = j
    BY <1>4, <1>5, <1>6
  <2>2. ASSUME NEW i \in 1 .. (l - 1) - 1
        PROVE  conv'.path[i + 1] \in Successors(o, conv'.path[i])
    <3>1. i \in 1 .. l - 1 /\ i + 1 \in 1 .. l - 1
      BY <1>3
    <3>2. path[i + 1] \in Successors(o, path[i])
      BY <1>1, <3>1 DEF PathInv
    <3>. QED  BY <1>4, <3>1, <3>2
  <2>3. conv'.path # << >> => conv'.path[1] = o.root
    <3>1. conv'.path # << >> => 1 \in 1 .. l - 1
      BY <1>3, <1>4
    <3>. QED  BY <1>1, <1>4, <3>1 DEF PathInv
  <2>4. OnPath' \subseteq conv'.marked /\ conv'.marked \subseteq Reached(o) /\ o.root \in conv'.marked
    BY <1>1, <1>2, <1>7 DEF PathInv
  <2>. QED  BY <1>2, <1>4, <2>1, <2>2, <2>3, <2>4 DEF PathInv
<1>10. conv'.path = << >> => b = o.root
  <2>1. conv'.path = << >> => l = 1
    BY <1>3, <1>4
  <2>. QED  BY <1>1, <1>3, <2>1 DEF PathInv
<1>. QED  BY <1>8, <1>9, <1>10

LEMMA WrittenTail ==
  ASSUME LayoutInv, ConvertBlock
  PROVE  TailInv'
<1>1. Sound(o) /\ RecordInv /\ PathInv /\ TailInv /\ conv.path # << >>
  BY DEF LayoutInv, ConvertBlock
<1>2. /\ o' = o /\ conv'.n = conv.n /\ conv'.long = conv.long /\ conv'.tail = Place
      /\ conv'.at = Offsets /\ DOMAIN conv'.code = DOMAIN conv.code
      /\ Offsets[Current] = Place
  BY Wrote
<1>3. Placed' = Placed \cup {Current} /\ (conv'.path = << >> => Current = o.root)
  BY WrittenPath
<1>4. Place = conv.n - Total(o, Placed \cup {Current}, conv.long)
  BY <1>1, PlaceFits
<1>. QED  BY <1>1, <1>2, <1>3, <1>4 DEF TailInv

LEMMA WrittenBlocks ==
  ASSUME LayoutInv, ConvertBlock
  PROVE  PlacedInv'
<1>. DEFINE b == Current
            block == BlockCode(o, Offsets, b, conv.dirt)
            len == Len(block)
            room == Room(o, b, conv.long)
            code == conv'.code
            n == conv.n
<1>1. /\ Sound(o) /\ RecordInv /\ PathInv /\ TailInv /\ PlacedInv
      /\ conv.path # << >> /\ Onward = None
  BY DEF LayoutInv, ConvertBlock
<1>2. /\ o' = o /\ conv'.n = n /\ conv'.dirt = conv.dirt /\ conv'.tail = Place
      /\ conv'.at = Offsets /\ Offsets \in [Blocks(o) -> Int]
      /\ Offsets[b] = Place /\ \A c \in Blocks(o) \ {b} : Offsets[c] = conv.at[c]
      /\ len \in Nat /\ len <= room
  BY Wrote
<1>3. \A j \in DOMAIN conv.code :
         code[j] = IF j \in Place .. Place + len - 1 THEN block[j - Place + 1] ELSE conv.code[j]
  BY Wrote
<1>4. Placed' = Placed \cup {b}
  BY WrittenPath
<1>5. b \in Blocks(o) /\ b \notin Placed /\ Successors(o, b) \subseteq Placed
  BY <1>1, AtCurrent, LeadsToPlaced
<1>6. /\ n \in Nat /\ conv.tail \in Nat /\ conv.tail <= n
      /\ Place \in Nat /\ Place + room = conv.tail
  BY <1>1, PlaceFits
<1>7. room \in Nat
  BY <1>1, <1>5, RoomTyped
<1>8. DOMAIN conv.code = 0 .. n - 1
  BY <1>1 DEF TailInv
<1>9. /\ Placed \subseteq Blocks(o)
      /\ \A x \in Placed : /\ Successors(o, x) \subseteq Placed /\ conv.tail <= conv.at[x]
                           /\ BlockLaid(o, conv.at, conv.code, n, conv.dirt, x)
                           /\ conv.at[x] \in Int
  <2>1. Placed \subseteq Blocks(o)
    BY <1>1, Closed DEF Placed, PathInv
  <2>. QED  BY <1>1, <2>1 DEF PlacedInv
<1>. DEFINE place == Place
            tail == conv.tail
            at == Offsets
<1>. HIDE DEF len, room, place, code, n, tail, at, b
<1>10. place + len <= tail /\ place <= tail /\ tail <= n /\ place \in Nat /\ tail \in Nat /\ n \in Nat
  BY <1>2, <1>6, <1>7 DEF place, tail
<1>11. BlockLaid(o, Offsets, code, n, conv.dirt, b)
  <2>1. \A c \in Successors(o, b) : at[c] = conv.at[c] /\ tail <= at[c] /\ at[c] \in Int
    <3>. TAKE c \in Successors(o, b)
    <3>1. c \in Placed /\ c \in Blocks(o) \ {b}
      BY <1>5, <1>9
    <3>. QED  BY <1>2, <1>9, <3>1 DEF tail, at
  <2>2. \A c \in Successors(o, b) : place + len <= at[c]
    BY <1>2, <1>10, <2>1
  <2>3. \A j \in 1 .. len : code[place + j - 1] = block[j]
    <3>. TAKE j \in 1 .. len
    <3>. DEFINE i == place + j - 1
    <3>1. i \in 0 .. n - 1 /\ i \in place .. place + len - 1 /\ i - place + 1 = j
      BY <1>2, <1>10
    <3>. HIDE DEF i
    <3>2. code[i] = block[i - place + 1]
      BY <1>3, <1>8, <3>1 DEF place
    <3>. QED  BY <3>1, <3>2 DEF i
  <2>4. place >= 0 /\ place + len <= n
    BY <1>2, <1>10
  <2>5. Offsets[b] = place
    BY <1>2 DEF place
  <2>. HIDE DEF block
  <2>. QED  BY <2>2, <2>3, <2>4, <2>5 DEF BlockLaid, len, block, at
<1>12. ASSUME NEW x \in Placed
       PROVE  Offsets[x] = conv.at[x] /\ BlockLaid(o, Offsets, code, n, conv.dirt, x)
  <2>. DEFINE old == BlockCode(o, conv.at, x, conv.dirt)
              m == Len(old)
              z == conv.at[x]
  <2>1. x \in Blocks(o) \ {b} /\ \A c \in Successors(o, x) : c \in Blocks(o) \ {b}
    BY <1>5, <1>9
  <2>2. at[x] = z /\ \A c \in Successors(o, x) : at[c] = conv.at[c]
    BY <1>2, <2>1 DEF at
  <2>3. BlockCode(o, at, x, conv.dirt) = old
    BY <1>1, <2>1, <2>2, SameCodeElsewhere
  <2>4. /\ z >= 0 /\ z + m <= n /\ \A c \in Successors(o, x) : z + m <= conv.at[c]
        /\ \A j \in 1 .. m : conv.code[z + j - 1] = old[j]
    BY <1>9 DEF BlockLaid
  <2>5. tail <= z /\ z \in Int
    BY <1>9 DEF tail
  <2>6. m \in Nat
    BY <1>1, <2>1, BlockShape DEF PlacedInv
  <2>. HIDE DEF old, m, z
  <2>7. \A j \in 1 .. m : code[z + j - 1] = old[j]
    <3>. TAKE j \in 1 .. m
    <3>. DEFINE i == z + j - 1
    <3>1. i \in 0 .. n - 1 /\ ~(i \in place .. place + len - 1)
      BY <1>2, <1>10, <2>4, <2>5, <2>6
    <3>2. conv.code[i] = old[j]
      BY <2>4
    <3>. HIDE DEF i
    <3>3. code[i] = conv.code[i]
      BY <1>3, <1>8, <3>1 DEF place
    <3>. QED  BY <3>2, <3>3 DEF i
  <2>8. BlockLaid(o, at, code, n, conv.dirt, x)
    BY <2>2, <2>3, <2>4, <2>7 DEF BlockLaid, m
  <2>. QED  BY <2>2, <2>8 DEF at, z
<1>13. PlacedInv'
  <2>1. conv'.at = Offsets /\ conv'.at \in [Blocks(o) -> Int]
    BY <1>2
  <2>2. ASSUME NEW x \in Placed \cup {b}
        PROVE  /\ Successors(o, x) \subseteq Placed \cup {b} /\ place <= Offsets[x]
               /\ BlockLaid(o, Offsets, code, n, conv.dirt, x)
    <3>1. CASE x = b
      <4>1. place <= Offsets[b]
        BY <1>2, <1>10 DEF place
      <4>. QED  BY <1>5, <1>11, <3>1, <4>1
    <3>2. CASE x \in Placed
      <4>1. tail <= conv.at[x] /\ conv.at[x] \in Int /\ Offsets[x] = conv.at[x]
        BY <1>9, <1>12, <3>2 DEF tail
      <4>2. place <= conv.at[x]
        BY <1>10, <4>1
      <4>. QED  BY <1>9, <1>12, <3>2, <4>1, <4>2
    <3>. QED  BY <3>1, <3>2
  <2>3. conv'.tail = place /\ conv'.n = n /\ conv'.dirt = conv.dirt /\ o' = o /\ conv'.code = code
    BY <1>2 DEF place, code
  <2>. QED  BY <1>4, <2>1, <2>2, <2>3 DEF PlacedInv
<1>. QED  BY <1>13

-----------------------------------------------------------------------------
(***************************************************************************)
(* The theorems.                                                           *)
(***************************************************************************)
LEMMA LayoutStep == LayoutInv /\ [LayoutNext]_layoutVars => LayoutInv'
<1>. SUFFICES ASSUME LayoutInv, [LayoutNext]_layoutVars PROVE LayoutInv'
  OBVIOUS
<1>1. CASE BeginConvert
  <2>1. PICK dirt \in Garbage : conv' = Attempt(o, {}, dirt)
    BY <1>1 DEF BeginConvert
  <2>2. Sound(o) /\ o' = o /\ phase' = "convert"
    BY <1>1 DEF BeginConvert, LayoutInv
  <2>3. RecordInv' /\ PathInv' /\ TailInv' /\ PlacedInv'
    BY <2>1, <2>2, AttemptInv
  <2>. QED  BY <2>2, <2>3 DEF LayoutInv
<1>2. CASE Enter
  <2>1. RecordInv' /\ PathInv' /\ TailInv' /\ PlacedInv'
    BY <1>2, EnterInv
  <2>2. Sound(o) /\ o' = o /\ phase' = "convert"
    BY <1>2 DEF Enter, LayoutInv
  <2>. QED  BY <2>1, <2>2 DEF LayoutInv
<1>3. CASE Restart
  <2>1. PICK dirt \in Garbage : conv' = Attempt(o, conv.long \cup {Widen(TooLong)}, dirt)
    BY <1>3 DEF Restart
  <2>2. Sound(o) /\ o' = o /\ phase' = "convert"
    BY <1>3 DEF Restart, LayoutInv
  <2>3. RecordInv' /\ PathInv' /\ TailInv' /\ PlacedInv'
    BY <2>1, <2>2, AttemptInv
  <2>. QED  BY <2>2, <2>3 DEF LayoutInv
<1>4. CASE ConvertBlock
  <2>1. PathInv'
    BY <1>4, WrittenPath
  <2>2. TailInv'
    BY <1>4, WrittenTail
  <2>3. PlacedInv'
    BY <1>4, WrittenBlocks
  <2>4. RecordInv'
    BY <1>4, Wrote
  <2>5. Sound(o) /\ o' = o /\ phase' = "convert"
    BY <1>4 DEF ConvertBlock, LayoutInv
  <2>. QED  BY <2>1, <2>2, <2>3, <2>4, <2>5 DEF LayoutInv
<1>5. CASE Check
  <2>1. /\ Sound(o) /\ RecordInv /\ PathInv /\ TailInv /\ PlacedInv
        /\ conv.path = << >> /\ o' = o /\ conv' = conv
        /\ phase' = IF Validate(conv.code, conv.n) THEN "done" ELSE "invalid"
    BY <1>5 DEF Check, LayoutInv
  <2>2. RecordInv' /\ OnPath' = OnPath /\ Placed' = Placed
    BY <2>1 DEF RecordInv, OnPath, Placed
  <2>3. PathInv'
    BY <2>1, <2>2 DEF PathInv
  <2>4. TailInv'
    BY <2>1, <2>2 DEF TailInv
  <2>5. PlacedInv'
    BY <2>1, <2>2 DEF PlacedInv
  <2>. QED  BY <2>1, <2>2, <2>3, <2>4, <2>5 DEF LayoutInv
<1>6. CASE UNCHANGED layoutVars
  BY <1>6 DEF layoutVars, LayoutInv, RecordInv, PathInv, TailInv, PlacedInv, OnPath, Placed
<1>. QED  BY <1>1, <1>2, <1>3, <1>4, <1>5, <1>6 DEF LayoutNext

(* The conversion keeps to its order: whatever graph it is given, the      *)
(* calls of convert_code_r under way are a path from the root, the tail of *)
(* the array behind the last block holds every block that is done and all  *)
(* that those lead to, complete and in order, and what is in front of it   *)
(* is as much as count_stmts found room for in the blocks still to come.   *)
THEOREM ConversionKeepsOrder == LayoutSpec => []LayoutInv
<1>1. LayoutInit => LayoutInv
  BY DEF LayoutInit, LayoutInv
<1>. QED  BY <1>1, LayoutStep, PTL DEF LayoutSpec

(* When every block is written, the program is the graph, laid out.        *)
LEMMA DoneIsLaidOut ==
  ASSUME LayoutInv, phase = "done"
  PROVE  /\ Sound(o) /\ conv.n \in 0 .. MaxInsns
         /\ LaidOut(o, conv.at, conv.code, conv.n, conv.dirt)
<1>1. /\ Sound(o) /\ PathInv /\ TailInv /\ PlacedInv
      /\ conv.path = << >> /\ Validate(conv.code, conv.n)
  BY DEF LayoutInv
<1>2. conv.n \in 1 .. MaxInsns
  BY <1>1 DEF Validate
<1>3. OnPath = {} /\ Placed = conv.marked
  BY <1>1 DEF OnPath, Placed
<1>4. Placed = Reached(o)
  <2>1. o.root \in Placed /\ Placed \subseteq Reached(o)
    BY <1>1, <1>3 DEF PathInv
  <2>2. \A b \in Placed : Successors(o, b) \subseteq Placed
    BY <1>1 DEF PlacedInv
  <2>3. Reached(o) \subseteq Placed
    BY <1>1, <2>1, <2>2, Closed
  <2>. QED  BY <2>1, <2>3
<1>5. conv.at[o.root] = 0
  <2>. DEFINE all == Total(o, Reached(o), conv.long)
  <2>1. all \in Nat
    BY <1>1, TotalMore
  <2>2. conv.n = all /\ conv.tail = conv.n - all /\ conv.at[o.root] = conv.tail
    BY <1>1, <1>4 DEF TailInv
  <2>. HIDE DEF all
  <2>. QED  BY <2>1, <2>2
<1>6. LaidOut(o, conv.at, conv.code, conv.n, conv.dirt)
  BY <1>1, <1>4, <1>5 DEF LaidOut, PlacedInv
<1>7. conv.n \in 0 .. MaxInsns
  BY <1>2, BpfAssumption
<1>. QED  BY <1>1, <1>6, <1>7

(* InstructionsMeanGraph: for every sound graph, every size of a byte and  *)
(* every packet, the program that icode_to_fcode hands over does what the  *)
(* flow graph does, whatever the memory held that it was written to, and   *)
(* however often a jump turned out to be too long for its byte.            *)
THEOREM ConversionKeepsMeaning == LayoutSpec => []InstructionsMeanGraph
<1>1. LayoutInv => InstructionsMeanGraph
  <2>. SUFFICES ASSUME LayoutInv, phase = "done", NEW p \in Meanings
                PROVE  SameOutcome(Outcome(conv.code, conv.n, Packets[p]), Meaning(o, Packets[p]))
    BY DEF InstructionsMeanGraph
  <2>1. /\ Sound(o) /\ conv.n \in 0 .. MaxInsns
        /\ LaidOut(o, conv.at, conv.code, conv.n, conv.dirt)
    BY DoneIsLaidOut
  <2>. QED  BY <2>1, LaidOutMeans
<1>. QED  BY <1>1, ConversionKeepsOrder, PTL

(* No block is written outside the array: convert_code_r takes the room of *)
(* a block off the tail and writes no more than that, so that the size     *)
(* count_stmts found for the array is enough in every attempt.             *)
BlockInsideArray ==
  ConvertBlock =>
    /\ Place \in Nat
    /\ Place + Len(BlockCode(o, Offsets, Current, conv.dirt)) <= conv.tail
    /\ conv.tail <= conv.n
THEOREM ArrayIsBigEnough == LayoutSpec => [][BlockInsideArray]_layoutVars
<1>1. LayoutInv => BlockInsideArray
  <2>. SUFFICES ASSUME LayoutInv, ConvertBlock
                PROVE  /\ Place \in Nat
                       /\ Place + Len(BlockCode(o, Offsets, Current, conv.dirt)) <= conv.tail
                       /\ conv.tail <= conv.n
    BY DEF BlockInsideArray
  <2>. DEFINE len == Len(BlockCode(o, Offsets, Current, conv.dirt))
              room == Room(o, Current, conv.long)
  <2>1. Sound(o) /\ RecordInv /\ PathInv /\ TailInv /\ conv.path # << >>
    BY DEF LayoutInv, ConvertBlock
  <2>2. /\ conv.n \in Nat /\ conv.tail \in Nat /\ conv.tail <= conv.n
        /\ Place \in Nat /\ Place + room = conv.tail
    BY <2>1, PlaceFits
  <2>3. len \in Nat /\ len <= room
    BY Wrote
  <2>4. room \in Nat
    BY <2>1, AtCurrent, RoomTyped
  <2>. HIDE DEF len, room
  <2>5. Place + len <= conv.tail
    BY <2>2, <2>3, <2>4
  <2>. QED  BY <2>2, <2>5 DEF len
<1>. QED  BY <1>1, ConversionKeepsOrder, PTL DEF LayoutSpec

-----------------------------------------------------------------------------
(***************************************************************************)
(* The blocks that the code generator links: lists of open exits           *)
(* (backpatch, merge, gen_and, gen_or in gencode.c).                       *)
(***************************************************************************)

(* Backpatching, exit by exit.                                             *)
LEMMA PatchingUnfolds ==
  ASSUME NEW blocks, Len(blocks) \in Nat, NEW list, NEW target
  PROVE  LET r == Patching(blocks, list, target)
         IN  /\ r[0] = [blocks |-> blocks, at |-> list]
             /\ \A k \in 1 .. Len(blocks) : r[k] = Patch(r[k - 1], target)
<1>. DEFINE F(k, x) == Patch(x, target)
            base == [blocks |-> blocks, at |-> list]
            Body(f, m) == [k \in 0 .. m |-> IF k = 0 THEN base ELSE F(k, f[k - 1])]
            Good(m) == \E f : f = Body(f, m)
            S == {m \in Nat : Good(m)}
            r == Patching(blocks, list, target)
<1>. HIDE DEF F, base
<1>1. Good(0)
  <2>. DEFINE h == [k \in 0 .. 0 |-> base]
  <2>1. h = Body(h, 0)
    OBVIOUS
  <2>. QED  BY <2>1
<1>2. ASSUME NEW m \in Nat, Good(m) PROVE Good(m + 1)
  <2>1. PICK f : f = Body(f, m)
    BY <1>2
  <2>. DEFINE h == [k \in 0 .. m + 1 |-> IF k = m + 1 THEN F(m + 1, f[m]) ELSE f[k]]
  <2>2. ASSUME NEW k \in 0 .. m + 1
        PROVE  h[k] = IF k = 0 THEN base ELSE F(k, h[k - 1])
    <3>1. CASE k = m + 1
      <4>1. k # 0 /\ k - 1 = m /\ m \in 0 .. m + 1 /\ m # m + 1
        BY <3>1
      <4>. QED  BY <3>1, <4>1
    <3>2. CASE k = 0
      <4>1. k \in 0 .. m /\ k # m + 1
        BY <3>2
      <4>2. f[k] = base
        BY <2>1, <3>2, <4>1
      <4>. QED  BY <3>2, <4>1, <4>2
    <3>3. CASE k # 0 /\ k # m + 1
      <4>1. k \in 0 .. m /\ k - 1 \in 0 .. m + 1 /\ k - 1 # m + 1
        BY <3>3
      <4>2. f[k] = F(k, f[k - 1])
        BY <2>1, <3>3, <4>1
      <4>. QED  BY <3>3, <4>1, <4>2
    <3>. QED  BY <3>1, <3>2, <3>3
  <2>. HIDE DEF h
  <2>3. h = Body(h, m + 1)
    BY <2>2 DEF h
  <2>. QED  BY <2>3
<1>. HIDE DEF Good
<1>3. 0 \in S /\ \A m \in Nat : m \in S => m + 1 \in S
  BY <1>1, <1>2
<1>. HIDE DEF S
<1>4. Len(blocks) \in S
  <2>1. Len(blocks) \in Nat
    OBVIOUS
  <2>. QED  BY <1>3, <2>1, Induct
<1>5. \E f : f = Body(f, Len(blocks))
  BY <1>4 DEF S, Good
<1>6. r = Body(r, Len(blocks))
  BY <1>5 DEF F, base, Patching
<1>. HIDE DEF r
<1>7. /\ r = [k \in 0 .. Len(blocks) |-> r[k]]
      /\ r[0] = base
      /\ \A k \in 1 .. Len(blocks) : r[k] = F(k, r[k - 1])
  BY <1>6
<1>. QED  BY <1>7 DEF r, F, base


(* The search for the end of a list, exit by exit.                         *)
LEMMA SeekingUnfolds ==
  ASSUME NEW blocks, Len(blocks) \in Nat, NEW b0
  PROVE  LET r == Seeking(blocks, b0)
         IN  /\ r[0] = b0
             /\ \A k \in 1 .. Len(blocks) : r[k] = Onto(blocks, r[k - 1])
<1>. DEFINE F(k, x) == Onto(blocks, x)
            base == b0
            Body(f, m) == [k \in 0 .. m |-> IF k = 0 THEN base ELSE F(k, f[k - 1])]
            Good(m) == \E f : f = Body(f, m)
            S == {m \in Nat : Good(m)}
            r == Seeking(blocks, b0)
<1>. HIDE DEF F, base
<1>1. Good(0)
  <2>. DEFINE h == [k \in 0 .. 0 |-> base]
  <2>1. h = Body(h, 0)
    OBVIOUS
  <2>. QED  BY <2>1
<1>2. ASSUME NEW m \in Nat, Good(m) PROVE Good(m + 1)
  <2>1. PICK f : f = Body(f, m)
    BY <1>2
  <2>. DEFINE h == [k \in 0 .. m + 1 |-> IF k = m + 1 THEN F(m + 1, f[m]) ELSE f[k]]
  <2>2. ASSUME NEW k \in 0 .. m + 1
        PROVE  h[k] = IF k = 0 THEN base ELSE F(k, h[k - 1])
    <3>1. CASE k = m + 1
      <4>1. k # 0 /\ k - 1 = m /\ m \in 0 .. m + 1 /\ m # m + 1
        BY <3>1
      <4>. QED  BY <3>1, <4>1
    <3>2. CASE k = 0
      <4>1. k \in 0 .. m /\ k # m + 1
        BY <3>2
      <4>2. f[k] = base
        BY <2>1, <3>2, <4>1
      <4>. QED  BY <3>2, <4>1, <4>2
    <3>3. CASE k # 0 /\ k # m + 1
      <4>1. k \in 0 .. m /\ k - 1 \in 0 .. m + 1 /\ k - 1 # m + 1
        BY <3>3
      <4>2. f[k] = F(k, f[k - 1])
        BY <2>1, <3>3, <4>1
      <4>. QED  BY <3>3, <4>1, <4>2
    <3>. QED  BY <3>1, <3>2, <3>3
  <2>. HIDE DEF h
  <2>3. h = Body(h, m + 1)
    BY <2>2 DEF h
  <2>. QED  BY <2>3
<1>. HIDE DEF Good
<1>3. 0 \in S /\ \A m \in Nat : m \in S => m + 1 \in S
  BY <1>1, <1>2
<1>. HIDE DEF S
<1>4. Len(blocks) \in S
  <2>1. Len(blocks) \in Nat
    OBVIOUS
  <2>. QED  BY <1>3, <2>1, Induct
<1>5. \E f : f = Body(f, Len(blocks))
  BY <1>4 DEF S, Good
<1>6. r = Body(r, Len(blocks))
  BY <1>5 DEF F, base, Seeking
<1>. HIDE DEF r
<1>7. /\ r = [k \in 0 .. Len(blocks) |-> r[k]]
      /\ r[0] = base
      /\ \A k \in 1 .. Len(blocks) : r[k] = F(k, r[k - 1])
  BY <1>6
<1>. QED  BY <1>7 DEF r, F, base


(* The depth first search, visit by visit.                                 *)
LEMMA VisitingUnfolds ==
  ASSUME NEW blocks, Len(blocks) \in Nat, NEW root
  PROVE  LET r == Visiting(blocks, root)
         IN  /\ r[0] = [seen |-> << >>, todo |-> << root >>]
             /\ \A k \in 1 .. 2 * Len(blocks) + 1 : r[k] = Visit(blocks, r[k - 1])
<1>. DEFINE F(k, x) == Visit(blocks, x)
            base == [seen |-> << >>, todo |-> << root >>]
            Body(f, m) == [k \in 0 .. m |-> IF k = 0 THEN base ELSE F(k, f[k - 1])]
            Good(m) == \E f : f = Body(f, m)
            S == {m \in Nat : Good(m)}
            r == Visiting(blocks, root)
<1>. HIDE DEF F, base
<1>1. Good(0)
  <2>. DEFINE h == [k \in 0 .. 0 |-> base]
  <2>1. h = Body(h, 0)
    OBVIOUS
  <2>. QED  BY <2>1
<1>2. ASSUME NEW m \in Nat, Good(m) PROVE Good(m + 1)
  <2>1. PICK f : f = Body(f, m)
    BY <1>2
  <2>. DEFINE h == [k \in 0 .. m + 1 |-> IF k = m + 1 THEN F(m + 1, f[m]) ELSE f[k]]
  <2>2. ASSUME NEW k \in 0 .. m + 1
        PROVE  h[k] = IF k = 0 THEN base ELSE F(k, h[k - 1])
    <3>1. CASE k = m + 1
      <4>1. k # 0 /\ k - 1 = m /\ m \in 0 .. m + 1 /\ m # m + 1
        BY <3>1
      <4>. QED  BY <3>1, <4>1
    <3>2. CASE k = 0
      <4>1. k \in 0 .. m /\ k # m + 1
        BY <3>2
      <4>2. f[k] = base
        BY <2>1, <3>2, <4>1
      <4>. QED  BY <3>2, <4>1, <4>2
    <3>3. CASE k # 0 /\ k # m + 1
      <4>1. k \in 0 .. m /\ k - 1 \in 0 .. m + 1 /\ k - 1 # m + 1
        BY <3>3
      <4>2. f[k] = F(k, f[k - 1])
        BY <2>1, <3>3, <4>1
      <4>. QED  BY <3>3, <4>1, <4>2
    <3>. QED  BY <3>1, <3>2, <3>3
  <2>. HIDE DEF h
  <2>3. h = Body(h, m + 1)
    BY <2>2 DEF h
  <2>. QED  BY <2>3
<1>. HIDE DEF Good
<1>3. 0 \in S /\ \A m \in Nat : m \in S => m + 1 \in S
  BY <1>1, <1>2
<1>. HIDE DEF S
<1>4. 2 * Len(blocks) + 1 \in S
  <2>1. 2 * Len(blocks) + 1 \in Nat
    OBVIOUS
  <2>. QED  BY <1>3, <2>1, Induct
<1>5. \E f : f = Body(f, 2 * Len(blocks) + 1)
  BY <1>4 DEF S, Good
<1>6. r = Body(r, 2 * Len(blocks) + 1)
  BY <1>5 DEF F, base, Visiting
<1>. HIDE DEF r
<1>7. /\ r[0] = base
      /\ \A k \in 1 .. 2 * Len(blocks) + 1 : r[k] = F(k, r[k - 1])
  <2>. DEFINE L == 2 * Len(blocks) + 1
  <2>1. L \in Nat /\ L >= 1
    OBVIOUS
  <2>2. r = Body(r, L)
    BY <1>6
  <2>. HIDE DEF L
  <2>3. r[0] = base /\ \A k \in 1 .. L : r[k] = F(k, r[k - 1])
    BY <2>1, <2>2
  <2>. QED  BY <2>3 DEF L
<1>. QED  BY <1>7 DEF r, F, base


(* The kinds on the stack, reduction by reduction.                         *)
LEMMA KindsUnfolds ==
  ASSUME NEW e, Len(e) \in Nat
  PROVE  LET r == Kinds(e)
         IN  /\ r[0] = << >>
             /\ \A k \in 1 .. Len(e) : r[k] = Append(Rest(r[k - 1], e[k]), Gives(e[k]))
<1>. DEFINE F(k, x) == Append(Rest(x, e[k]), Gives(e[k]))
            base == << >>
            Body(f, m) == [k \in 0 .. m |-> IF k = 0 THEN base ELSE F(k, f[k - 1])]
            Good(m) == \E f : f = Body(f, m)
            S == {m \in Nat : Good(m)}
            r == Kinds(e)
<1>. HIDE DEF F, base
<1>1. Good(0)
  <2>. DEFINE h == [k \in 0 .. 0 |-> base]
  <2>1. h = Body(h, 0)
    OBVIOUS
  <2>. QED  BY <2>1
<1>2. ASSUME NEW m \in Nat, Good(m) PROVE Good(m + 1)
  <2>1. PICK f : f = Body(f, m)
    BY <1>2
  <2>. DEFINE h == [k \in 0 .. m + 1 |-> IF k = m + 1 THEN F(m + 1, f[m]) ELSE f[k]]
  <2>2. ASSUME NEW k \in 0 .. m + 1
        PROVE  h[k] = IF k = 0 THEN base ELSE F(k, h[k - 1])
    <3>1. CASE k = m + 1
      <4>1. k # 0 /\ k - 1 = m /\ m \in 0 .. m + 1 /\ m # m + 1
        BY <3>1
      <4>. QED  BY <3>1, <4>1
    <3>2. CASE k = 0
      <4>1. k \in 0 .. m /\ k # m + 1
        BY <3>2
      <4>2. f[k] = base
        BY <2>1, <3>2, <4>1
      <4>. QED  BY <3>2, <4>1, <4>2
    <3>3. CASE k # 0 /\ k # m + 1
      <4>1. k \in 0 .. m /\ k - 1 \in 0 .. m + 1 /\ k - 1 # m + 1
        BY <3>3
      <4>2. f[k] = F(k, f[k - 1])
        BY <2>1, <3>3, <4>1
      <4>. QED  BY <3>3, <4>1, <4>2
    <3>. QED  BY <3>1, <3>2, <3>3
  <2>. HIDE DEF h
  <2>3. h = Body(h, m + 1)
    BY <2>2 DEF h
  <2>. QED  BY <2>3
<1>. HIDE DEF Good
<1>3. 0 \in S /\ \A m \in Nat : m \in S => m + 1 \in S
  BY <1>1, <1>2
<1>. HIDE DEF S
<1>4. Len(e) \in S
  <2>1. Len(e) \in Nat
    OBVIOUS
  <2>. QED  BY <1>3, <2>1, Induct
<1>5. \E f : f = Body(f, Len(e))
  BY <1>4 DEF S, Good
<1>6. r = Body(r, Len(e))
  BY <1>5 DEF F, base, Kinds
<1>. HIDE DEF r
<1>7. /\ r = [k \in 0 .. Len(e) |-> r[k]]
      /\ r[0] = base
      /\ \A k \in 1 .. Len(e) : r[k] = F(k, r[k - 1])
  BY <1>6
<1>. QED  BY <1>7 DEF r, F, base

(***************************************************************************)
(* The exits of blocks.  << b, TRUE >> is the exit of block b by jt, and   *)
(* << b, FALSE >> the one by jf.                                           *)
(***************************************************************************)
Block == [stmts : Seq(InsnType), br : InsnType, jt : Nat, jf : Nat, sense : BOOLEAN,
          head : Nat, means : {"uncertain", "true", "false"}]

Exits(blocks) == (1 .. Len(blocks)) \X BOOLEAN
Exit(blocks, e) == IF e[2] THEN blocks[e[1]].jt ELSE blocks[e[1]].jf

(* The exits that are linked in a list: the first ones of T are open.      *)
ExitList(blocks, T) ==
  /\ T \in Seq(Exits(blocks)) /\ Len(T) >= 1
  /\ \A i \in 1 .. Len(T) : T[i][2] = ~blocks[T[i][1]].sense
  /\ \A i \in 1 .. Len(T) : Exit(blocks, T[i]) = IF i = Len(T) THEN Nil ELSE T[i + 1][1]
  /\ \A i, j \in 1 .. Len(T) : T[i] = T[j] => i = j
  /\ \A i \in 1 .. Len(T) : T[i][1] # Nil

(* Only the exits of S are changed: they lead to target.                   *)
Alike(b, c) ==
  b.stmts = c.stmts /\ b.br = c.br /\ b.head = c.head /\ b.means = c.means
Rewired(old, new, S, target) ==
  /\ new \in Seq(Block) /\ Len(new) = Len(old)
  /\ \A b \in 1 .. Len(old) : Alike(new[b], old[b]) /\ new[b].sense = old[b].sense
  /\ \A e \in Exits(old) : Exit(new, e) = IF e \in S THEN target ELSE Exit(old, e)

LEMMA Linking ==
  ASSUME NEW blk \in Block, NEW t \in Nat
  PROVE  /\ Linked(blk, t) \in Block /\ Alike(Linked(blk, t), blk)
         /\ Linked(blk, t).sense = blk.sense
         /\ Linked(blk, t).jt = IF blk.sense THEN blk.jt ELSE t
         /\ Linked(blk, t).jf = IF blk.sense THEN t ELSE blk.jf
  BY DEF Linked, Block, Alike

(* One exit is closed or linked.                                           *)
LEMMA LinkOne ==
  ASSUME NEW blocks \in Seq(Block), NEW b \in 1 .. Len(blocks), NEW t \in Nat
  PROVE  Rewired(blocks, [blocks EXCEPT ![b] = Linked(@, t)], {<< b, ~blocks[b].sense >>}, t)
<1>. DEFINE new == [blocks EXCEPT ![b] = Linked(@, t)]
<1>1. /\ new \in [1 .. Len(blocks) -> Block] /\ Len(new) = Len(blocks) /\ new \in Seq(Block)
      /\ \A c \in 1 .. Len(blocks) : new[c] = IF c = b THEN Linked(blocks[b], t) ELSE blocks[c]
  <2>1. blocks \in [1 .. Len(blocks) -> Block] /\ Len(blocks) \in Nat
    OBVIOUS
  <2>2. Linked(blocks[b], t) \in Block
    BY Linking
  <2>. QED  BY <2>1, <2>2
<1>2. \A c \in 1 .. Len(blocks) : Alike(new[c], blocks[c]) /\ new[c].sense = blocks[c].sense
  <2>1. blocks[b] \in Block
    OBVIOUS
  <2>2. Alike(Linked(blocks[b], t), blocks[b]) /\ Linked(blocks[b], t).sense = blocks[b].sense
    BY <2>1, Linking
  <2>. HIDE DEF new
  <2>. QED  BY ONLY <1>1, <2>2 DEF Alike
<1>3. ASSUME NEW e \in Exits(blocks)
      PROVE  Exit(new, e) = IF e \in {<< b, ~blocks[b].sense >>} THEN t ELSE Exit(blocks, e)
  <2>. PICK c \in 1 .. Len(blocks), d \in BOOLEAN : e = << c, d >>
    BY DEF Exits
  <2>0. blocks[b] \in Block
    OBVIOUS
  <2>1. e[1] = c /\ e[2] = d /\ blocks[b].sense \in BOOLEAN
    BY <2>0 DEF Block
  <2>2. e \in {<< b, ~blocks[b].sense >>} <=> c = b /\ d = ~blocks[b].sense
    BY <2>1
  <2>3. /\ Linked(blocks[b], t).jt = IF blocks[b].sense THEN blocks[b].jt ELSE t
        /\ Linked(blocks[b], t).jf = IF blocks[b].sense THEN t ELSE blocks[b].jf
    BY <2>0, Linking
  <2>. HIDE DEF new
  <2>. QED  BY <1>1, <2>1, <2>2, <2>3 DEF Exit
<1>. QED  BY <1>1, <1>2, <1>3 DEF Rewired

LEMMA RewiredNothing ==
  ASSUME NEW blocks \in Seq(Block), NEW t
  PROVE  Rewired(blocks, blocks, {}, t)
  BY DEF Rewired, Alike

LEMMA RewiredTwice ==
  ASSUME NEW a \in Seq(Block), NEW b, NEW c, NEW S, NEW T, NEW t,
         Rewired(a, b, S, t), Rewired(b, c, T, t)
  PROVE  Rewired(a, c, S \cup T, t)
<1>1. Len(b) = Len(a) /\ Exits(b) = Exits(a)
  BY DEF Rewired, Exits
<1>. QED  BY <1>1 DEF Rewired, Alike

(* The link of a block is its exit against its sense.                      *)
LEMMA LinkIsExit ==
  ASSUME NEW blocks \in Seq(Block), NEW b \in 1 .. Len(blocks)
  PROVE  /\ Link(blocks[b]) = Exit(blocks, << b, ~blocks[b].sense >>)
         /\ << b, ~blocks[b].sense >> \in Exits(blocks)
         /\ blocks[b].sense \in BOOLEAN
<1>1. blocks[b] \in Block
  OBVIOUS
<1>. QED  BY <1>1 DEF Link, Exit, Exits, Block

FirstOf(T, k) == {T[i] : i \in (1 .. k) \cap (1 .. Len(T))}

LEMMA PatchStep ==
  ASSUME NEW blocks \in Seq(Block), NEW T, ExitList(blocks, T), NEW target \in Nat,
         NEW k \in Nat, NEW w,
         w.at = (IF k < Len(T) THEN T[k + 1][1] ELSE Nil),
         Rewired(blocks, w.blocks, FirstOf(T, k), target)
  PROVE  LET v == Patch(w, target)
         IN  /\ v.at = IF k + 1 < Len(T) THEN T[k + 2][1] ELSE Nil
             /\ Rewired(blocks, v.blocks, FirstOf(T, k + 1), target)
<1>0. Len(T) \in Nat /\ Len(T) >= 1
  BY DEF ExitList
<1>1. CASE k < Len(T)
  <2>. DEFINE e == T[k + 1]
              b == T[k + 1][1]
  <2>1. /\ k + 1 \in 1 .. Len(T) /\ e \in Exits(blocks) /\ b # Nil /\ e[2] = ~blocks[b].sense
        /\ Exit(blocks, e) = IF k + 1 = Len(T) THEN Nil ELSE T[k + 2][1]
    BY <1>0, <1>1 DEF ExitList
  <2>2. b \in 1 .. Len(blocks) /\ e = << b, ~blocks[b].sense >>
    BY <2>1 DEF Exits
  <2>3. e \notin FirstOf(T, k)
    <3>1. \A i \in (1 .. k) \cap (1 .. Len(T)) : T[i] # T[k + 1]
      BY <1>0, <2>1 DEF ExitList
    <3>. QED  BY <3>1 DEF FirstOf
  <2>4. /\ w.blocks \in Seq(Block) /\ Len(w.blocks) = Len(blocks) /\ w.blocks[b].sense = blocks[b].sense
        /\ Exit(w.blocks, e) = Exit(blocks, e)
    BY <2>1, <2>2, <2>3 DEF Rewired
  <2>5. Link(w.blocks[b]) = Exit(blocks, e)
    BY <2>2, <2>4, LinkIsExit
  <2>6. Rewired(w.blocks, [w.blocks EXCEPT ![b] = Linked(@, target)], {e}, target)
    BY <2>2, <2>4, LinkOne
  <2>7. FirstOf(T, k + 1) = FirstOf(T, k) \cup {e}
    <3>1. \A i : i \in (1 .. k + 1) \cap (1 .. Len(T)) <=> i \in (1 .. k) \cap (1 .. Len(T)) \/ i = k + 1
      BY <1>0, <1>1
    <3>. QED  BY <3>1 DEF FirstOf
  <2>8. /\ Patch(w, target).at = Link(w.blocks[b])
        /\ Patch(w, target).blocks = [w.blocks EXCEPT ![b] = Linked(@, target)]
    BY <1>1, <2>1 DEF Patch
  <2>9. Rewired(blocks, Patch(w, target).blocks, FirstOf(T, k + 1), target)
    BY ONLY <2>6, <2>7, <2>8, RewiredTwice, Rewired(blocks, w.blocks, FirstOf(T, k), target),
       blocks \in Seq(Block)
  <2>10. Patch(w, target).at = IF k + 1 < Len(T) THEN T[k + 2][1] ELSE Nil
    BY <1>0, <1>1, <2>1, <2>5, <2>8
  <2>. QED  BY <2>9, <2>10
<1>2. CASE ~(k < Len(T))
  <2>1. FirstOf(T, k + 1) = FirstOf(T, k)
    <3>1. (1 .. k + 1) \cap (1 .. Len(T)) = (1 .. k) \cap (1 .. Len(T))
      BY <1>0, <1>2
    <3>. QED  BY <3>1 DEF FirstOf
  <2>2. Patch(w, target) = w /\ ~(k + 1 < Len(T))
    BY <1>0, <1>2 DEF Patch
  <2>. QED  BY <1>2, <2>1, <2>2
<1>. QED  BY <1>1, <1>2

(* Backpatching closes the exits of a list, and nothing else changes       *)
(* (gen_and, gen_or, finish_parse: backpatch).                             *)
LEMMA BackpatchExits ==
  ASSUME NEW blocks \in Seq(Block), NEW T, ExitList(blocks, T), Len(T) <= Len(blocks),
         NEW target \in Nat
  PROVE  Rewired(blocks, Backpatch(blocks, T[1][1], target), {T[i] : i \in 1 .. Len(T)}, target)
<1>. DEFINE r == Patching(blocks, T[1][1], target)
            P(k) == /\ r[k].at = IF k < Len(T) THEN T[k + 1][1] ELSE Nil
                    /\ Rewired(blocks, r[k].blocks, FirstOf(T, k), target)
            S == {k \in Nat : k <= Len(blocks) => P(k)}
<1>0. Len(T) \in Nat /\ Len(T) >= 1 /\ Len(blocks) \in Nat
  BY DEF ExitList
<1>1. /\ r[0] = [blocks |-> blocks, at |-> T[1][1]]
      /\ \A k \in 1 .. Len(blocks) : r[k] = Patch(r[k - 1], target)
  BY <1>0, PatchingUnfolds
<1>. HIDE DEF r
<1>2. P(0)
  <2>1. FirstOf(T, 0) = {}
    BY <1>0 DEF FirstOf
  <2>2. Rewired(blocks, blocks, {}, target)
    BY RewiredNothing
  <2>3. r[0].at = T[1][1] /\ r[0].blocks = blocks /\ 0 < Len(T) /\ 0 + 1 = 1
    BY <1>0, <1>1
  <2>. QED  BY <2>1, <2>2, <2>3
<1>3. ASSUME NEW k \in Nat, k + 1 <= Len(blocks), P(k) PROVE P(k + 1)
  <2>1. r[k + 1] = Patch(r[k], target)
    <3>1. k + 1 \in 1 .. Len(blocks) /\ (k + 1) - 1 = k
      BY <1>0, <1>3
    <3>. QED  BY <1>1, <3>1
  <2>2. (k + 1) + 1 = k + 2
    OBVIOUS
  <2>. QED  BY ONLY <2>1, <2>2, <1>3, PatchStep, ExitList(blocks, T), blocks \in Seq(Block), target \in Nat
<1>. HIDE DEF P
<1>4. 0 \in S /\ \A k \in Nat : k \in S => k + 1 \in S
  BY <1>0, <1>2, <1>3
<1>5. P(Len(blocks))
  <2>1. Nat \subseteq S
    BY <1>4, Induct
  <2>. QED  BY <1>0, <2>1
<1>6. FirstOf(T, Len(blocks)) = {T[i] : i \in 1 .. Len(T)}
  <2>1. (1 .. Len(blocks)) \cap (1 .. Len(T)) = 1 .. Len(T)
    BY <1>0
  <2>. QED  BY <2>1 DEF FirstOf
<1>. QED  BY <1>5, <1>6 DEF P, Backpatch, r

(* The end of a list is found, and the other list is put behind it         *)
(* (gen_and, gen_or: merge).                                               *)
LEMMA MergeExits ==
  ASSUME NEW blocks \in Seq(Block), NEW T, ExitList(blocks, T), Len(T) <= Len(blocks),
         NEW b1 \in Nat
  PROVE  Rewired(blocks, Merge(blocks, T[1][1], b1), {T[Len(T)]}, b1)
<1>. DEFINE r == Seeking(blocks, T[1][1])
            n == Len(T)
            P(k) == r[k] = IF k < n THEN T[k + 1][1] ELSE T[n][1]
            S == {k \in Nat : k <= Len(blocks) => P(k)}
<1>0. n \in Nat /\ n >= 1 /\ Len(blocks) \in Nat
  BY DEF ExitList
<1>1. /\ r[0] = T[1][1]
      /\ \A k \in 1 .. Len(blocks) : r[k] = Onto(blocks, r[k - 1])
  BY <1>0, SeekingUnfolds
<1>2. ASSUME NEW i \in 1 .. n
      PROVE  /\ T[i][1] \in 1 .. Len(blocks) /\ T[i] = << T[i][1], ~blocks[T[i][1]].sense >>
             /\ Link(blocks[T[i][1]]) = IF i = n THEN Nil ELSE T[i + 1][1]
             /\ T[i][1] # Nil
  <2>1. /\ T[i] \in Exits(blocks) /\ T[i][1] # Nil /\ T[i][2] = ~blocks[T[i][1]].sense
        /\ Exit(blocks, T[i]) = IF i = n THEN Nil ELSE T[i + 1][1]
    BY DEF ExitList
  <2>2. T[i][1] \in 1 .. Len(blocks) /\ T[i] = << T[i][1], ~blocks[T[i][1]].sense >>
    BY <2>1 DEF Exits
  <2>. QED  BY <2>1, <2>2, LinkIsExit
<1>. HIDE DEF r
<1>3. P(0)
  BY <1>0, <1>1
<1>4. ASSUME NEW k \in Nat, k + 1 <= Len(blocks), P(k) PROVE P(k + 1)
  <2>1. r[k + 1] = Onto(blocks, r[k])
    <3>1. k + 1 \in 1 .. Len(blocks) /\ (k + 1) - 1 = k
      BY <1>0, <1>4
    <3>. QED  BY <1>1, <3>1
  <2>2. CASE k + 1 < n
    <3>1. k + 1 \in 1 .. n /\ k + 1 # n /\ k + 2 \in 1 .. n /\ (k + 1) + 1 = k + 2 /\ k < n
      BY <1>0, <2>2
    <3>2. Link(blocks[T[k + 1][1]]) = T[k + 2][1] /\ T[k + 2][1] # Nil
      BY <1>2, <3>1
    <3>. QED  BY <1>4, <2>1, <2>2, <3>1, <3>2 DEF Onto
  <2>3. CASE ~(k + 1 < n)
    <3>1. r[k] = T[n][1]
      BY <1>0, <1>4, <2>3
    <3>2. Link(blocks[T[n][1]]) = Nil
      BY <1>0, <1>2
    <3>. QED  BY <2>1, <2>3, <3>1, <3>2 DEF Onto
  <2>. QED  BY <2>2, <2>3
<1>. HIDE DEF P
<1>5. 0 \in S /\ \A k \in Nat : k \in S => k + 1 \in S
  BY <1>0, <1>3, <1>4
<1>6. P(Len(blocks))
  <2>1. Nat \subseteq S
    BY <1>5, Induct
  <2>. QED  BY <1>0, <2>1
<1>7. EndOf(blocks, T[1][1]) = T[n][1]
  BY <1>0, <1>6 DEF P, EndOf, r
<1>8. n \in 1 .. n /\ T[n][1] \in 1 .. Len(blocks) /\ T[n] = << T[n][1], ~blocks[T[n][1]].sense >>
  BY <1>0, <1>2
<1>. QED  BY <1>7, <1>8, LinkOne DEF Merge

(***************************************************************************)
(* A part of a graph under construction: the blocks g.K with the exits     *)
(* g.T, taken when it is true, and g.F, taken when it is false, which are  *)
(* open and linked in lists from block b on.  Every other exit leads to a  *)
(* block of the part, of a higher rank g.r below g.N.                      *)
(***************************************************************************)
Ends(T) == {T[i] : i \in 1 .. Len(T)}

(* The statements that the generator makes are ones the machine knows.     *)
Stmt == {i \in InsnType : ValidInsn(i) /\ i.class \notin {"jmp", "ret", "nop", "stx"}}
Test1 == {i \in InsnType : ValidInsn(i) /\ i.class = "jmp" /\ i.fn \in CondFn}

LinkedList(blocks, K, T) ==
  /\ T \in Seq(K \X BOOLEAN) /\ Len(T) >= 1
  /\ \A i \in 2 .. Len(T) : T[i][2] = ~blocks[T[i][1]].sense
  /\ \A i \in 1 .. Len(T) : Exit(blocks, T[i]) = IF i = Len(T) THEN Nil ELSE T[i + 1][1]
  /\ \A i, j \in 1 .. Len(T) : T[i] = T[j] => i = j

Opened(blocks, b, g) ==
  /\ g.K \subseteq 1 .. Len(blocks) /\ b \in g.K /\ blocks[b].head \in g.K
  /\ g.N \in Nat /\ g.r \in [g.K -> 0 .. g.N - 1]
  /\ LinkedList(blocks, g.K, g.T) /\ g.T[1] = << b, ~blocks[b].sense >> /\ Len(g.T) <= g.N
  /\ LinkedList(blocks, g.K, g.F) /\ g.F[1] = << b, blocks[b].sense >> /\ Len(g.F) <= g.N
  /\ Ends(g.T) \cap Ends(g.F) = {}
  /\ \A e \in (g.K \X BOOLEAN) \ (Ends(g.T) \cup Ends(g.F)) :
       Exit(blocks, e) \in g.K /\ g.r[Exit(blocks, e)] > g.r[e[1]]
  /\ \A c \in g.K : blocks[c].stmts \in Seq(Stmt) /\ blocks[c].br \in Test1

(* The exits S lead to a block head1, the one exit last to b0, and b1 has  *)
(* the head that b0 had.                                                   *)
Spliced(old, new, S, head1, last, b0, b1, flip) ==
  /\ new \in Seq(Block) /\ Len(new) = Len(old)
  /\ \A c \in 1 .. Len(old) :
       /\ new[c].stmts = old[c].stmts /\ new[c].br = old[c].br /\ new[c].means = old[c].means
       /\ new[c].head = old[IF c = b1 THEN b0 ELSE c].head
       /\ new[c].sense = IF flip /\ c = b0 THEN ~old[c].sense ELSE old[c].sense
  /\ \A e \in Exits(old) : Exit(new, e) = IF e \in S THEN head1
                                         ELSE IF e = last THEN b0 ELSE Exit(old, e)

LEMMA FlipShape ==
  ASSUME NEW blocks \in Seq(Block), NEW b \in 1 .. Len(blocks)
  PROVE  LET new == Flip(blocks, b)
         IN  /\ new \in Seq(Block) /\ Len(new) = Len(blocks)
             /\ \A c \in 1 .. Len(blocks) :
                  /\ Alike(new[c], blocks[c])
                  /\ new[c].sense = IF c = b THEN ~blocks[c].sense ELSE blocks[c].sense
             /\ \A e \in Exits(blocks) : Exit(new, e) = Exit(blocks, e)
<1>. DEFINE new == Flip(blocks, b)
            x == [blocks[b] EXCEPT !.sense = ~@]
<1>1. /\ x \in Block /\ Alike(x, blocks[b]) /\ x.sense = ~blocks[b].sense
      /\ x.jt = blocks[b].jt /\ x.jf = blocks[b].jf
  <2>1. blocks[b] \in Block
    OBVIOUS
  <2>. QED  BY <2>1 DEF Block, Alike
<1>. HIDE DEF x
<1>2. new = [blocks EXCEPT ![b] = x]
  BY DEF Flip, x
<1>3. /\ new \in [1 .. Len(blocks) -> Block] /\ Len(new) = Len(blocks) /\ new \in Seq(Block)
      /\ \A c \in 1 .. Len(blocks) : new[c] = IF c = b THEN x ELSE blocks[c]
  <2>1. blocks \in [1 .. Len(blocks) -> Block] /\ Len(blocks) \in Nat
    OBVIOUS
  <2>. QED  BY <1>1, <1>2, <2>1
<1>. HIDE DEF new
<1>4. \A c \in 1 .. Len(blocks) :
        /\ Alike(new[c], blocks[c])
        /\ new[c].sense = IF c = b THEN ~blocks[c].sense ELSE blocks[c].sense
  BY ONLY <1>1, <1>3 DEF Alike
<1>5. ASSUME NEW e \in Exits(blocks) PROVE Exit(new, e) = Exit(blocks, e)
  <2>. PICK c \in 1 .. Len(blocks), d \in BOOLEAN : e = << c, d >>
    BY DEF Exits
  <2>. QED  BY <1>1, <1>3 DEF Exit
<1>. QED  BY <1>3, <1>4, <1>5 DEF new

LEMMA SetHead ==
  ASSUME NEW blocks \in Seq(Block), NEW b \in 1 .. Len(blocks), NEW h \in Nat
  PROVE  LET new == [blocks EXCEPT ![b].head = h]
         IN  /\ new \in Seq(Block) /\ Len(new) = Len(blocks)
             /\ \A c \in 1 .. Len(blocks) :
                  /\ new[c].stmts = blocks[c].stmts /\ new[c].br = blocks[c].br
                  /\ new[c].means = blocks[c].means /\ new[c].sense = blocks[c].sense
                  /\ new[c].head = IF c = b THEN h ELSE blocks[c].head
             /\ \A e \in Exits(blocks) : Exit(new, e) = Exit(blocks, e)
<1>. DEFINE new == [blocks EXCEPT ![b].head = h]
            x == [blocks[b] EXCEPT !.head = h]
<1>1. /\ x \in Block /\ x.stmts = blocks[b].stmts /\ x.br = blocks[b].br
      /\ x.means = blocks[b].means /\ x.sense = blocks[b].sense /\ x.head = h
      /\ x.jt = blocks[b].jt /\ x.jf = blocks[b].jf
  <2>1. blocks[b] \in Block
    OBVIOUS
  <2>. QED  BY <2>1 DEF Block
<1>. HIDE DEF x
<1>2. new = [blocks EXCEPT ![b] = x]
  BY DEF x
<1>3. /\ new \in [1 .. Len(blocks) -> Block] /\ Len(new) = Len(blocks) /\ new \in Seq(Block)
      /\ \A c \in 1 .. Len(blocks) : new[c] = IF c = b THEN x ELSE blocks[c]
  <2>1. blocks \in [1 .. Len(blocks) -> Block] /\ Len(blocks) \in Nat
    OBVIOUS
  <2>. QED  BY <1>1, <1>2, <2>1
<1>. HIDE DEF new
<1>4. \A c \in 1 .. Len(blocks) :
        /\ new[c].stmts = blocks[c].stmts /\ new[c].br = blocks[c].br
        /\ new[c].means = blocks[c].means /\ new[c].sense = blocks[c].sense
        /\ new[c].head = IF c = b THEN h ELSE blocks[c].head
  BY ONLY <1>1, <1>3
<1>5. ASSUME NEW e \in Exits(blocks) PROVE Exit(new, e) = Exit(blocks, e)
  <2>. PICK c \in 1 .. Len(blocks), d \in BOOLEAN : e = << c, d >>
    BY DEF Exits
  <2>. QED  BY <1>1, <1>3 DEF Exit
<1>. QED  BY <1>3, <1>4, <1>5 DEF new

(* The lists of a part are lists of exits, seen from either side of b.     *)
LEMMA TrueList ==
  ASSUME NEW blocks \in Seq(Block), NEW b, NEW g, Opened(blocks, b, g)
  PROVE  ExitList(blocks, g.T) /\ g.T[1][1] = b
<1>1. /\ g.K \subseteq 1 .. Len(blocks) /\ LinkedList(blocks, g.K, g.T)
      /\ g.T[1] = << b, ~blocks[b].sense >>
  BY DEF Opened
<1>2. g.T \in Seq(Exits(blocks)) /\ Len(g.T) \in Nat /\ Len(g.T) >= 1
  <2>1. g.K \X BOOLEAN \subseteq Exits(blocks)
    BY <1>1 DEF Exits
  <2>. QED  BY <1>1, <2>1 DEF LinkedList
<1>3. \A i \in 1 .. Len(g.T) : g.T[i][2] = ~blocks[g.T[i][1]].sense
  <2>1. \A i \in 1 .. Len(g.T) : i = 1 \/ i \in 2 .. Len(g.T)
    BY <1>2
  <2>. QED  BY <1>1, <2>1 DEF LinkedList
<1>4. \A i \in 1 .. Len(g.T) : g.T[i][1] # Nil
  <2>1. \A i \in 1 .. Len(g.T) : g.T[i] \in g.K \X BOOLEAN
    BY <1>1 DEF LinkedList
  <2>2. \A i \in 1 .. Len(g.T) : g.T[i][1] \in 1 .. Len(blocks)
    BY <1>1, <2>1
  <2>. QED  BY <2>2 DEF Nil
<1>. QED  BY <1>1, <1>2, <1>3, <1>4 DEF ExitList, LinkedList

LEMMA FalseList ==
  ASSUME NEW blocks \in Seq(Block), NEW b, NEW g, Opened(blocks, b, g)
  PROVE  ExitList(Flip(blocks, b), g.F) /\ g.F[1][1] = b
<1>. DEFINE new == Flip(blocks, b)
<1>1. /\ g.K \subseteq 1 .. Len(blocks) /\ LinkedList(blocks, g.K, g.F)
      /\ g.F[1] = << b, blocks[b].sense >> /\ b \in g.K
      /\ g.T[1] = << b, ~blocks[b].sense >> /\ Ends(g.T) \cap Ends(g.F) = {}
      /\ LinkedList(blocks, g.K, g.T)
  BY DEF Opened
<1>2. /\ new \in Seq(Block) /\ Len(new) = Len(blocks)
      /\ \A c \in 1 .. Len(blocks) : new[c].sense = IF c = b THEN ~blocks[c].sense ELSE blocks[c].sense
      /\ \A e \in Exits(blocks) : Exit(new, e) = Exit(blocks, e)
  BY <1>1, FlipShape
<1>. HIDE DEF new
<1>3. /\ g.F \in Seq(Exits(new)) /\ Len(g.F) \in Nat /\ Len(g.F) >= 1 /\ Exits(new) = Exits(blocks)
  <2>1. g.K \X BOOLEAN \subseteq Exits(new) /\ Exits(new) = Exits(blocks)
    BY <1>1, <1>2 DEF Exits
  <2>. QED  BY <1>1, <2>1 DEF LinkedList
<1>4. ASSUME NEW i \in 1 .. Len(g.F)
      PROVE  /\ g.F[i][1] \in 1 .. Len(blocks) /\ g.F[i][1] # Nil
             /\ g.F[i][2] = ~new[g.F[i][1]].sense
             /\ Exit(new, g.F[i]) = IF i = Len(g.F) THEN Nil ELSE g.F[i + 1][1]
  <2>1. g.F[i] \in g.K \X BOOLEAN /\ g.F[i] \in Exits(blocks)
    BY <1>1, <1>3 DEF LinkedList
  <2>2. g.F[i][1] \in 1 .. Len(blocks) /\ g.F[i][1] # Nil
    BY <1>1, <2>1 DEF Nil
  <2>3. Exit(new, g.F[i]) = IF i = Len(g.F) THEN Nil ELSE g.F[i + 1][1]
    BY <1>1, <1>2, <2>1 DEF LinkedList
  <2>4. g.F[i][2] = ~new[g.F[i][1]].sense
    <3>1. CASE i = 1
      <4>1. b \in 1 .. Len(blocks) /\ blocks[b] \in Block
        BY <1>1
      <4>2. blocks[b].sense \in BOOLEAN
        BY <4>1 DEF Block
      <4>3. g.F[i][1] = b /\ g.F[i][2] = blocks[b].sense
        BY <1>1, <3>1
      <4>4. new[b].sense = ~blocks[b].sense
        BY <1>2, <4>1
      <4>. QED  BY ONLY <4>2, <4>3, <4>4
    <3>2. CASE i # 1
      <4>1. i \in 2 .. Len(g.F)
        BY <1>3, <3>2
      <4>2. g.F[i][2] = ~blocks[g.F[i][1]].sense
        BY <1>1, <4>1 DEF LinkedList
      <4>3. g.F[i][1] # b
        <5>1. SUFFICES ASSUME g.F[i][1] = b PROVE FALSE
          OBVIOUS
        <5>2. g.F[i] = g.T[1]
          BY <1>1, <2>1, <4>2, <5>1
        <5>3. g.F[i] \in Ends(g.F) /\ g.T[1] \in Ends(g.T)
          BY <1>1 DEF Ends, LinkedList
        <5>. QED  BY <1>1, <5>2, <5>3
      <4>. QED  BY <1>2, <2>2, <4>2, <4>3
    <3>. QED  BY <3>1, <3>2
  <2>. QED  BY <2>2, <2>3, <2>4
<1>5. \A i, j \in 1 .. Len(g.F) : g.F[i] = g.F[j] => i = j
  BY <1>1 DEF LinkedList
<1>6. ExitList(new, g.F)
  BY ONLY <1>3, <1>4, <1>5 DEF ExitList
<1>. QED  BY <1>1, <1>6 DEF new

LEMMA ListKept ==
  ASSUME NEW old, NEW new, NEW T, ExitList(old, T), Exits(new) = Exits(old),
         \A e \in Ends(T) : new[e[1]].sense = old[e[1]].sense /\ Exit(new, e) = Exit(old, e)
  PROVE  ExitList(new, T)
  BY DEF ExitList, Ends

LEMMA EndsIn ==
  ASSUME NEW S, NEW s \in Seq(S)
  PROVE  Len(s) \in Nat /\ Ends(s) \subseteq S
  BY DEF Ends

(* The two parts that are joined: they share nothing.                      *)
Apart(blocks, b0, g0, b1, g1) ==
  /\ blocks \in Seq(Block)
  /\ Opened(blocks, b0, g0) /\ Opened(blocks, b1, g1)
  /\ g0.K \cap g1.K = {} /\ g0.N + g1.N <= Len(blocks)

LEMMA ApartFacts ==
  ASSUME NEW blocks, NEW b0, NEW g0, NEW b1, NEW g1, Apart(blocks, b0, g0, b1, g1)
  PROVE  /\ b0 \in 1 .. Len(blocks) /\ b1 \in 1 .. Len(blocks) /\ b0 # b1
         /\ Len(blocks) \in Nat /\ blocks[b1].head \in 1 .. Len(blocks)
         /\ blocks[b0].head \in 1 .. Len(blocks)
         /\ g0.N \in Nat /\ g1.N \in Nat
         /\ Len(g0.T) <= Len(blocks) /\ Len(g0.F) <= Len(blocks)
         /\ Len(g1.T) <= Len(blocks) /\ Len(g1.F) <= Len(blocks)
         /\ Len(g0.T) >= 1 /\ Len(g0.F) >= 1 /\ Len(g1.T) >= 1 /\ Len(g1.F) >= 1
         /\ Len(g0.T) \in Nat /\ Len(g0.F) \in Nat /\ Len(g1.T) \in Nat /\ Len(g1.F) \in Nat
         /\ Ends(g0.T) \subseteq g0.K \X BOOLEAN /\ Ends(g0.F) \subseteq g0.K \X BOOLEAN
         /\ Ends(g1.T) \subseteq g1.K \X BOOLEAN /\ Ends(g1.F) \subseteq g1.K \X BOOLEAN
         /\ g0.K \X BOOLEAN \subseteq Exits(blocks) /\ g1.K \X BOOLEAN \subseteq Exits(blocks)
         /\ (g0.K \X BOOLEAN) \cap (g1.K \X BOOLEAN) = {}
<1>1. /\ blocks \in Seq(Block) /\ g0.K \cap g1.K = {} /\ g0.N + g1.N <= Len(blocks)
      /\ g0.K \subseteq 1 .. Len(blocks) /\ g1.K \subseteq 1 .. Len(blocks)
      /\ b0 \in g0.K /\ b1 \in g1.K /\ blocks[b1].head \in g1.K /\ blocks[b0].head \in g0.K
      /\ g0.N \in Nat /\ g1.N \in Nat
      /\ g0.T \in Seq(g0.K \X BOOLEAN) /\ g0.F \in Seq(g0.K \X BOOLEAN)
      /\ g1.T \in Seq(g1.K \X BOOLEAN) /\ g1.F \in Seq(g1.K \X BOOLEAN)
      /\ Len(g0.T) >= 1 /\ Len(g0.F) >= 1 /\ Len(g1.T) >= 1 /\ Len(g1.F) >= 1
      /\ Len(g0.T) <= g0.N /\ Len(g0.F) <= g0.N /\ Len(g1.T) <= g1.N /\ Len(g1.F) <= g1.N
  BY DEF Apart, Opened, LinkedList
<1>2. /\ Len(g0.T) \in Nat /\ Len(g0.F) \in Nat /\ Len(g1.T) \in Nat /\ Len(g1.F) \in Nat
      /\ Len(blocks) \in Nat
  <2>1. Len(g0.T) \in Nat /\ Len(g0.F) \in Nat /\ Len(g1.T) \in Nat /\ Len(g1.F) \in Nat
    BY ONLY <1>1, EndsIn, SMTT(30)
  <2>2. Len(blocks) \in Nat
    BY ONLY <1>1, EndsIn
  <2>. QED  BY <2>1, <2>2
<1>3. /\ Len(g0.T) <= Len(blocks) /\ Len(g0.F) <= Len(blocks)
      /\ Len(g1.T) <= Len(blocks) /\ Len(g1.F) <= Len(blocks)
  <2>1. /\ g0.N + g1.N <= Len(blocks) /\ g0.N \in Nat /\ g1.N \in Nat
        /\ Len(g0.T) <= g0.N /\ Len(g0.F) <= g0.N /\ Len(g1.T) <= g1.N /\ Len(g1.F) <= g1.N
    BY ONLY <1>1
  <2>. QED  BY ONLY <1>2, <2>1
<1>4. /\ Ends(g0.T) \subseteq g0.K \X BOOLEAN /\ Ends(g0.F) \subseteq g0.K \X BOOLEAN
      /\ Ends(g1.T) \subseteq g1.K \X BOOLEAN /\ Ends(g1.F) \subseteq g1.K \X BOOLEAN
  <2>1. Ends(g0.T) \subseteq g0.K \X BOOLEAN /\ Ends(g0.F) \subseteq g0.K \X BOOLEAN
    BY ONLY <1>1, EndsIn, ZenonT(30)
  <2>2. Ends(g1.T) \subseteq g1.K \X BOOLEAN /\ Ends(g1.F) \subseteq g1.K \X BOOLEAN
    BY ONLY <1>1, EndsIn, ZenonT(30)
  <2>. QED  BY ONLY <2>1, <2>2
<1>5. /\ g0.K \X BOOLEAN \subseteq Exits(blocks) /\ g1.K \X BOOLEAN \subseteq Exits(blocks)
      /\ (g0.K \X BOOLEAN) \cap (g1.K \X BOOLEAN) = {}
  BY <1>1 DEF Exits
<1>. QED  BY <1>1, <1>2, <1>3, <1>4, <1>5

(* gen_and.                                                                *)
LEMMA JoinShape ==
  ASSUME NEW blocks, NEW b0, NEW g0, NEW b1, NEW g1, Apart(blocks, b0, g0, b1, g1)
  PROVE  Spliced(blocks, Join(blocks, b0, b1), Ends(g0.T), blocks[b1].head,
                 g1.F[Len(g1.F)], b0, b1, TRUE)
<1>. DEFINE n == Len(blocks)
            h1 == blocks[b1].head
            last == g1.F[Len(g1.F)]
            B1 == Backpatch(blocks, b0, h1)
            B2 == Flip(B1, b0)
            B3 == Flip(B2, b1)
            B4 == Merge(B3, b1, b0)
            B5 == Flip(B4, b1)
            B6 == [B5 EXCEPT ![b1].head = B4[b0].head]
<1>1. blocks \in Seq(Block) /\ Opened(blocks, b0, g0) /\ Opened(blocks, b1, g1)
  BY DEF Apart
<1>2. /\ b0 \in 1 .. n /\ b1 \in 1 .. n /\ b0 # b1 /\ n \in Nat
      /\ h1 \in Nat /\ blocks[b0].head \in Nat
      /\ Len(g0.T) <= n /\ Len(g1.F) <= n /\ Len(g1.F) >= 1 /\ Len(g1.F) \in Nat
      /\ Ends(g0.T) \subseteq Exits(blocks) /\ Ends(g1.F) \subseteq Exits(blocks)
      /\ Ends(g1.F) \cap Ends(g0.T) = {}
      /\ \A e \in Ends(g1.F) : e[1] # b0
  <2>1. \A e \in g1.K \X BOOLEAN : e[1] \in g1.K
    OBVIOUS
  <2>2. b0 \in g0.K /\ g0.K \cap g1.K = {}
    BY DEF Apart, Opened
  <2>3. /\ b0 \in 1 .. n /\ b1 \in 1 .. n /\ b0 # b1 /\ n \in Nat
        /\ h1 \in 1 .. n /\ blocks[b0].head \in 1 .. n
        /\ Len(g0.T) <= n /\ Len(g1.F) <= n /\ Len(g1.F) >= 1 /\ Len(g1.F) \in Nat
        /\ Ends(g0.T) \subseteq g0.K \X BOOLEAN /\ Ends(g1.F) \subseteq g1.K \X BOOLEAN
        /\ g0.K \X BOOLEAN \subseteq Exits(blocks) /\ g1.K \X BOOLEAN \subseteq Exits(blocks)
        /\ (g0.K \X BOOLEAN) \cap (g1.K \X BOOLEAN) = {}
    BY ApartFacts
  <2>4. \A e \in Ends(g1.F) : e[1] # b0
    BY <2>1, <2>2, <2>3
  <2>. HIDE DEF h1
  <2>5. h1 \in Nat /\ blocks[b0].head \in Nat
    BY <2>3
  <2>. QED  BY ONLY <2>3, <2>4, <2>5
<1>3. Rewired(blocks, B1, Ends(g0.T), h1)
  <2>1. ExitList(blocks, g0.T) /\ g0.T[1][1] = b0
    BY <1>1, TrueList
  <2>. QED  BY <1>1, <1>2, <2>1, BackpatchExits DEF Ends
<1>. HIDE DEF B1
<1>4. /\ B1 \in Seq(Block) /\ Len(B1) = n /\ Exits(B1) = Exits(blocks)
      /\ \A c \in 1 .. n : Alike(B1[c], blocks[c]) /\ B1[c].sense = blocks[c].sense
      /\ \A e \in Exits(blocks) : Exit(B1, e) = IF e \in Ends(g0.T) THEN h1 ELSE Exit(blocks, e)
  BY <1>3 DEF Rewired, Exits
<1>5. /\ B2 \in Seq(Block) /\ Len(B2) = n /\ Exits(B2) = Exits(blocks)
      /\ \A c \in 1 .. n : /\ Alike(B2[c], B1[c])
                           /\ B2[c].sense = IF c = b0 THEN ~B1[c].sense ELSE B1[c].sense
      /\ \A e \in Exits(blocks) : Exit(B2, e) = Exit(B1, e)
  <2>1. b0 \in 1 .. Len(B1)
    BY <1>2, <1>4
  <2>. QED  BY <1>4, <2>1, FlipShape DEF Exits
<1>. HIDE DEF B2
<1>6. /\ B3 \in Seq(Block) /\ Len(B3) = n /\ Exits(B3) = Exits(blocks)
      /\ \A c \in 1 .. n : /\ Alike(B3[c], B2[c])
                           /\ B3[c].sense = IF c = b1 THEN ~B2[c].sense ELSE B2[c].sense
      /\ \A e \in Exits(blocks) : Exit(B3, e) = Exit(B2, e)
  <2>1. b1 \in 1 .. Len(B2)
    BY <1>2, <1>5
  <2>. QED  BY <1>5, <2>1, FlipShape DEF Exits
<1>. HIDE DEF B3
<1>7. Rewired(B3, B4, {last}, b0)
  <2>. DEFINE A1 == Flip(blocks, b1)
  <2>1. ExitList(A1, g1.F) /\ g1.F[1][1] = b1
    BY <1>1, FalseList
  <2>2. /\ Len(A1) = n /\ Exits(A1) = Exits(blocks)
        /\ \A c \in 1 .. n : A1[c].sense = IF c = b1 THEN ~blocks[c].sense ELSE blocks[c].sense
        /\ \A e \in Exits(blocks) : Exit(A1, e) = Exit(blocks, e)
    BY <1>1, <1>2, FlipShape DEF Exits
  <2>. HIDE DEF A1
  <2>3. ASSUME NEW e \in Ends(g1.F)
        PROVE  B3[e[1]].sense = A1[e[1]].sense /\ Exit(B3, e) = Exit(A1, e)
    <3>1. e \in Exits(blocks) /\ e \notin Ends(g0.T) /\ e[1] # b0 /\ e[1] \in 1 .. n
      BY <1>2 DEF Exits
    <3>2. Exit(B3, e) = Exit(A1, e)
      BY <1>4, <1>5, <1>6, <2>2, <3>1
    <3>3. B1[e[1]].sense = blocks[e[1]].sense /\ B2[e[1]].sense = B1[e[1]].sense
      BY <1>4, <1>5, <3>1
    <3>4. B3[e[1]].sense = A1[e[1]].sense
      BY <1>6, <2>2, <3>1, <3>3
    <3>. QED  BY <3>2, <3>4
  <2>4. ExitList(B3, g1.F)
    BY <1>6, <2>1, <2>2, <2>3, ListKept
  <2>5. Len(g1.F) <= Len(B3) /\ b0 \in Nat
    BY <1>2, <1>6
  <2>. QED  BY <1>6, <2>1, <2>4, <2>5, MergeExits
<1>. HIDE DEF B4
<1>8. /\ B4 \in Seq(Block) /\ Len(B4) = n /\ Exits(B4) = Exits(blocks)
      /\ \A c \in 1 .. n : Alike(B4[c], B3[c]) /\ B4[c].sense = B3[c].sense
      /\ \A e \in Exits(blocks) : Exit(B4, e) = IF e \in {last} THEN b0 ELSE Exit(B3, e)
  BY <1>6, <1>7 DEF Rewired, Exits
<1>9. /\ B5 \in Seq(Block) /\ Len(B5) = n /\ Exits(B5) = Exits(blocks)
      /\ \A c \in 1 .. n : /\ Alike(B5[c], B4[c])
                           /\ B5[c].sense = IF c = b1 THEN ~B4[c].sense ELSE B4[c].sense
      /\ \A e \in Exits(blocks) : Exit(B5, e) = Exit(B4, e)
  <2>1. b1 \in 1 .. Len(B4)
    BY <1>2, <1>8
  <2>. QED  BY <1>8, <2>1, FlipShape DEF Exits
<1>. HIDE DEF B5
<1>10. B4[b0].head = blocks[b0].head
  BY <1>2, <1>4, <1>5, <1>6, <1>8 DEF Alike
<1>11. /\ B6 \in Seq(Block) /\ Len(B6) = n
       /\ \A c \in 1 .. n :
            /\ B6[c].stmts = B5[c].stmts /\ B6[c].br = B5[c].br
            /\ B6[c].means = B5[c].means /\ B6[c].sense = B5[c].sense
            /\ B6[c].head = IF c = b1 THEN blocks[b0].head ELSE B5[c].head
       /\ \A e \in Exits(blocks) : Exit(B6, e) = Exit(B5, e)
  BY <1>2, <1>9, <1>10, SetHead
<1>. HIDE DEF B6
<1>12. ASSUME NEW c \in 1 .. n
       PROVE  /\ B6[c].stmts = blocks[c].stmts /\ B6[c].br = blocks[c].br /\ B6[c].means = blocks[c].means
              /\ B6[c].head = blocks[IF c = b1 THEN b0 ELSE c].head
  BY <1>4, <1>5, <1>6, <1>8, <1>9, <1>11 DEF Alike
<1>13. ASSUME NEW c \in 1 .. n
       PROVE  B6[c].sense = IF TRUE /\ c = b0 THEN ~blocks[c].sense ELSE blocks[c].sense
  <2>1. blocks[c] \in Block
    BY <1>1
  <2>2. blocks[c].sense \in BOOLEAN
    BY <2>1 DEF Block
  <2>3. CASE c = b0
    BY <1>2, <1>4, <1>5, <1>6, <1>8, <1>9, <1>11, <2>3, SMTT(30)
  <2>4. CASE c = b1
    <3>1. /\ B3[b1].sense = ~blocks[b1].sense /\ B5[b1].sense = ~B3[b1].sense
          /\ B6[b1].sense = B5[b1].sense
      BY <1>2, <1>4, <1>5, <1>6, <1>8, <1>9, <1>11
    <3>. QED  BY ONLY <1>2, <2>2, <2>4, <3>1
  <2>5. CASE c # b0 /\ c # b1
    BY <1>4, <1>5, <1>6, <1>8, <1>9, <1>11, <2>5
  <2>. QED  BY <2>3, <2>4, <2>5
<1>14. last \notin Ends(g0.T)
  <2>1. last \in Ends(g1.F)
    BY <1>2 DEF Ends
  <2>. QED  BY <1>2, <2>1
<1>15. ASSUME NEW e \in Exits(blocks)
       PROVE  Exit(B6, e) = IF e \in Ends(g0.T) THEN h1 ELSE IF e = last THEN b0 ELSE Exit(blocks, e)
  BY <1>4, <1>5, <1>6, <1>8, <1>9, <1>11, <1>14
<1>16. Join(blocks, b0, b1) = B6
  BY DEF Join, B1, B2, B3, B4, B5, B6
<1>. HIDE DEF h1, last
<1>17. Spliced(blocks, B6, Ends(g0.T), h1, last, b0, b1, TRUE)
  BY <1>11, <1>12, <1>13, <1>15 DEF Spliced
<1>. QED  BY <1>16, <1>17 DEF h1, last

(* gen_or.                                                                 *)
LEMMA JoinOrShape ==
  ASSUME NEW blocks, NEW b0, NEW g0, NEW b1, NEW g1, Apart(blocks, b0, g0, b1, g1)
  PROVE  Spliced(blocks, JoinOr(blocks, b0, b1), Ends(g0.F), blocks[b1].head,
                 g1.T[Len(g1.T)], b0, b1, FALSE)
<1>. DEFINE n == Len(blocks)
            h1 == blocks[b1].head
            last == g1.T[Len(g1.T)]
            A0 == Flip(blocks, b0)
            B1 == Backpatch(A0, b0, h1)
            B2 == Flip(B1, b0)
            B3 == Merge(B2, b1, b0)
            B4 == [B3 EXCEPT ![b1].head = B3[b0].head]
<1>1. blocks \in Seq(Block) /\ Opened(blocks, b0, g0) /\ Opened(blocks, b1, g1)
  BY DEF Apart
<1>2. /\ b0 \in 1 .. n /\ b1 \in 1 .. n /\ b0 # b1 /\ n \in Nat
      /\ h1 \in Nat /\ blocks[b0].head \in Nat
      /\ Len(g0.F) <= n /\ Len(g1.T) <= n /\ Len(g1.T) >= 1 /\ Len(g1.T) \in Nat
      /\ Ends(g0.F) \subseteq Exits(blocks) /\ Ends(g1.T) \subseteq Exits(blocks)
      /\ Ends(g1.T) \cap Ends(g0.F) = {}
      /\ \A e \in Ends(g1.T) : e[1] # b0
  <2>1. \A e \in g1.K \X BOOLEAN : e[1] \in g1.K
    OBVIOUS
  <2>2. b0 \in g0.K /\ g0.K \cap g1.K = {}
    BY DEF Apart, Opened
  <2>3. /\ b0 \in 1 .. n /\ b1 \in 1 .. n /\ b0 # b1 /\ n \in Nat
        /\ h1 \in 1 .. n /\ blocks[b0].head \in 1 .. n
        /\ Len(g0.F) <= n /\ Len(g1.T) <= n /\ Len(g1.T) >= 1 /\ Len(g1.T) \in Nat
        /\ Ends(g0.F) \subseteq g0.K \X BOOLEAN /\ Ends(g1.T) \subseteq g1.K \X BOOLEAN
        /\ g0.K \X BOOLEAN \subseteq Exits(blocks) /\ g1.K \X BOOLEAN \subseteq Exits(blocks)
        /\ (g0.K \X BOOLEAN) \cap (g1.K \X BOOLEAN) = {}
    BY ApartFacts
  <2>4. \A e \in Ends(g1.T) : e[1] # b0
    BY <2>1, <2>2, <2>3
  <2>. HIDE DEF h1
  <2>5. h1 \in Nat /\ blocks[b0].head \in Nat
    BY <2>3
  <2>. QED  BY ONLY <2>3, <2>4, <2>5
<1>3. /\ A0 \in Seq(Block) /\ Len(A0) = n /\ Exits(A0) = Exits(blocks)
      /\ \A c \in 1 .. n : /\ Alike(A0[c], blocks[c])
                           /\ A0[c].sense = IF c = b0 THEN ~blocks[c].sense ELSE blocks[c].sense
      /\ \A e \in Exits(blocks) : Exit(A0, e) = Exit(blocks, e)
  BY <1>1, <1>2, FlipShape DEF Exits
<1>4. Rewired(A0, B1, Ends(g0.F), h1)
  <2>1. ExitList(A0, g0.F) /\ g0.F[1][1] = b0
    BY <1>1, FalseList
  <2>. QED  BY <1>2, <1>3, <2>1, BackpatchExits, ZenonT(30) DEF Ends
<1>. HIDE DEF B1, A0
<1>5. /\ B1 \in Seq(Block) /\ Len(B1) = n /\ Exits(B1) = Exits(blocks)
      /\ \A c \in 1 .. n : Alike(B1[c], A0[c]) /\ B1[c].sense = A0[c].sense
      /\ \A e \in Exits(blocks) : Exit(B1, e) = IF e \in Ends(g0.F) THEN h1 ELSE Exit(A0, e)
  BY <1>3, <1>4 DEF Rewired, Exits
<1>6. /\ B2 \in Seq(Block) /\ Len(B2) = n /\ Exits(B2) = Exits(blocks)
      /\ \A c \in 1 .. n : /\ Alike(B2[c], B1[c])
                           /\ B2[c].sense = IF c = b0 THEN ~B1[c].sense ELSE B1[c].sense
      /\ \A e \in Exits(blocks) : Exit(B2, e) = Exit(B1, e)
  <2>1. b0 \in 1 .. Len(B1)
    BY <1>2, <1>5
  <2>. QED  BY <1>5, <2>1, FlipShape DEF Exits
<1>. HIDE DEF B2
<1>7. Rewired(B2, B3, {last}, b0)
  <2>1. ExitList(blocks, g1.T) /\ g1.T[1][1] = b1
    BY <1>1, TrueList
  <2>3. ASSUME NEW e \in Ends(g1.T)
        PROVE  B2[e[1]].sense = blocks[e[1]].sense /\ Exit(B2, e) = Exit(blocks, e)
    <3>1. e \in Exits(blocks) /\ e \notin Ends(g0.F) /\ e[1] # b0 /\ e[1] \in 1 .. n
      BY <1>2 DEF Exits
    <3>2. Exit(B2, e) = Exit(blocks, e)
      BY <1>3, <1>5, <1>6, <3>1
    <3>3. B2[e[1]].sense = blocks[e[1]].sense
      BY <1>3, <1>5, <1>6, <3>1
    <3>. QED  BY <3>2, <3>3
  <2>4. ExitList(B2, g1.T)
    BY <1>6, <2>1, <2>3, ListKept
  <2>5. Len(g1.T) <= Len(B2) /\ b0 \in Nat
    BY <1>2, <1>6
  <2>. QED  BY <1>6, <2>1, <2>4, <2>5, MergeExits
<1>. HIDE DEF B3
<1>8. /\ B3 \in Seq(Block) /\ Len(B3) = n /\ Exits(B3) = Exits(blocks)
      /\ \A c \in 1 .. n : Alike(B3[c], B2[c]) /\ B3[c].sense = B2[c].sense
      /\ \A e \in Exits(blocks) : Exit(B3, e) = IF e \in {last} THEN b0 ELSE Exit(B2, e)
  BY <1>6, <1>7 DEF Rewired, Exits
<1>10. B3[b0].head = blocks[b0].head
  BY <1>2, <1>3, <1>5, <1>6, <1>8 DEF Alike
<1>11. /\ B4 \in Seq(Block) /\ Len(B4) = n
       /\ \A c \in 1 .. n :
            /\ B4[c].stmts = B3[c].stmts /\ B4[c].br = B3[c].br
            /\ B4[c].means = B3[c].means /\ B4[c].sense = B3[c].sense
            /\ B4[c].head = IF c = b1 THEN blocks[b0].head ELSE B3[c].head
       /\ \A e \in Exits(blocks) : Exit(B4, e) = Exit(B3, e)
  BY <1>2, <1>8, <1>10, SetHead, SMTT(30)
<1>. HIDE DEF B4
<1>12. ASSUME NEW c \in 1 .. n
       PROVE  /\ B4[c].stmts = blocks[c].stmts /\ B4[c].br = blocks[c].br /\ B4[c].means = blocks[c].means
              /\ B4[c].head = blocks[IF c = b1 THEN b0 ELSE c].head
  BY <1>3, <1>5, <1>6, <1>8, <1>11 DEF Alike
<1>13. ASSUME NEW c \in 1 .. n
       PROVE  B4[c].sense = IF FALSE /\ c = b0 THEN ~blocks[c].sense ELSE blocks[c].sense
  <2>1. blocks[c] \in Block
    BY <1>1
  <2>2. blocks[c].sense \in BOOLEAN
    BY <2>1 DEF Block
  <2>3. CASE c = b0
    <3>1. B2[c].sense = ~A0[c].sense /\ A0[c].sense = ~blocks[c].sense /\ B4[c].sense = B2[c].sense
      BY <1>2, <1>3, <1>5, <1>6, <1>8, <1>11, <2>3
    <3>. QED  BY ONLY <2>2, <2>3, <3>1
  <2>4. CASE c # b0
    BY <1>2, <1>3, <1>5, <1>6, <1>8, <1>11, <2>4
  <2>. QED  BY <2>3, <2>4
<1>14. last \notin Ends(g0.F)
  <2>1. last \in Ends(g1.T)
    BY <1>2 DEF Ends
  <2>. QED  BY <1>2, <2>1
<1>15. ASSUME NEW e \in Exits(blocks)
       PROVE  Exit(B4, e) = IF e \in Ends(g0.F) THEN h1 ELSE IF e = last THEN b0 ELSE Exit(blocks, e)
  BY <1>3, <1>5, <1>6, <1>8, <1>11, <1>14
<1>16. JoinOr(blocks, b0, b1) = B4
  BY DEF JoinOr, A0, B1, B2, B3, B4
<1>. HIDE DEF h1, last
<1>17. Spliced(blocks, B4, Ends(g0.F), h1, last, b0, b1, FALSE)
  BY <1>11, <1>12, <1>13, <1>15 DEF Spliced
<1>. QED  BY <1>16, <1>17 DEF h1, last

(* A part, seen from neither side: U is one of its lists and V the other.  *)
Sides(blocks, b, K, r, N, U, V) ==
  /\ K \subseteq 1 .. Len(blocks) /\ b \in K /\ blocks[b].head \in K
  /\ N \in Nat /\ r \in [K -> 0 .. N - 1]
  /\ LinkedList(blocks, K, U) /\ U[1][1] = b /\ Len(U) <= N
  /\ LinkedList(blocks, K, V) /\ V[1][1] = b /\ Len(V) <= N
  /\ Ends(U) \cap Ends(V) = {}
  /\ \A e \in (K \X BOOLEAN) \ (Ends(U) \cup Ends(V)) :
       Exit(blocks, e) \in K /\ r[Exit(blocks, e)] > r[e[1]]
  /\ \A c \in K : blocks[c].stmts \in Seq(Stmt) /\ blocks[c].br \in Test1

LEMMA OpenedSides ==
  ASSUME NEW blocks, NEW b, NEW g
  PROVE  Opened(blocks, b, g) <=> /\ Sides(blocks, b, g.K, g.r, g.N, g.T, g.F)
                                  /\ g.T[1] = << b, ~blocks[b].sense >>
                                  /\ g.F[1] = << b, blocks[b].sense >>
  BY SMTT(30) DEF Opened, Sides

LEMMA SidesTurned ==
  ASSUME NEW blocks, NEW b, NEW K, NEW r, NEW N, NEW U, NEW V, Sides(blocks, b, K, r, N, U, V)
  PROVE  Sides(blocks, b, K, r, N, V, U)
<1>1. Ends(V) \cup Ends(U) = Ends(U) \cup Ends(V) /\ Ends(V) \cap Ends(U) = Ends(U) \cap Ends(V)
  OBVIOUS
<1>. QED  BY ONLY <1>1, Sides(blocks, b, K, r, N, U, V) DEF Sides

(* One list behind another.                                                *)
LEMMA Behind2 ==
  ASSUME NEW S, NEW s \in Seq(S), NEW t \in Seq(S)
  PROVE  /\ s \o t \in Seq(S) /\ Len(s \o t) = Len(s) + Len(t) /\ Ends(s \o t) = Ends(s) \cup Ends(t)
         /\ \A i \in 1 .. Len(s) : (s \o t)[i] = s[i]
         /\ \A i \in 1 .. Len(t) : (s \o t)[Len(s) + i] = t[i]
         /\ \A i \in 1 .. Len(s \o t) : \/ i \in 1 .. Len(s)
                                         \/ \E j \in 1 .. Len(t) : i = Len(s) + j
<1>1. /\ s \o t \in Seq(S) /\ Len(s \o t) = Len(s) + Len(t)
      /\ Len(s) \in Nat /\ Len(t) \in Nat
      /\ \A i \in 1 .. Len(s) : (s \o t)[i] = s[i]
  OBVIOUS
<1>2. \A i \in 1 .. Len(t) : (s \o t)[Len(s) + i] = t[i]
  OBVIOUS
<1>3. ASSUME NEW i \in 1 .. Len(s \o t)
      PROVE  i \in 1 .. Len(s) \/ \E j \in 1 .. Len(t) : i = Len(s) + j
  <2>1. CASE i <= Len(s)
    BY <1>1, <2>1
  <2>2. CASE ~(i <= Len(s))
    <3>1. i - Len(s) \in 1 .. Len(t) /\ i = Len(s) + (i - Len(s))
      BY <1>1, <2>2
    <3>. QED  BY <3>1
  <2>. QED  BY <2>1, <2>2
<1>4. \A i \in 1 .. Len(s) : i \in 1 .. Len(s \o t)
  BY <1>1
<1>5. \A i \in 1 .. Len(t) : Len(s) + i \in 1 .. Len(s \o t)
  BY <1>1
<1>6. Ends(s \o t) = Ends(s) \cup Ends(t)
  BY ONLY <1>1, <1>2, <1>3, <1>4, <1>5, SMTT(30) DEF Ends
<1>. QED  BY <1>1, <1>2, <1>3, <1>6

(* A list of exits that nothing was done to.                               *)
LEMMA LinkedKept ==
  ASSUME NEW old, NEW new, NEW J, NEW K, J \subseteq K, NEW T, LinkedList(old, J, T),
         \A i \in 2 .. Len(T) : new[T[i][1]].sense = old[T[i][1]].sense,
         \A i \in 1 .. Len(T) : Exit(new, T[i]) = Exit(old, T[i])
  PROVE  LinkedList(new, K, T)
<1>1. T \in Seq(K \X BOOLEAN)
  <2>1. J \X BOOLEAN \subseteq K \X BOOLEAN
    OBVIOUS
  <2>. QED  BY <2>1 DEF LinkedList
<1>. QED  BY <1>1 DEF LinkedList

(* The ranks of two parts, the first before the second.                    *)
Stacked(K0, r0, N0, K1, r1) ==
  [c \in K0 \cup K1 |-> IF c \in K0 THEN r0[c] ELSE N0 + r1[c]]

(* Both exits of b are in the lists, so no other of its blocks is b.       *)
LEMMA OnlyFirst ==
  ASSUME NEW blocks, NEW b, NEW K, NEW r, NEW N, NEW U, NEW V, Sides(blocks, b, K, r, N, U, V),
         NEW i \in 2 .. Len(V)
  PROVE  V[i][1] # b
<1>. SUFFICES ASSUME V[i][1] = b PROVE FALSE
  OBVIOUS
<1>1. /\ U \in Seq(K \X BOOLEAN) /\ V \in Seq(K \X BOOLEAN) /\ Len(U) >= 1 /\ Len(V) >= 1
      /\ U[1][1] = b /\ V[1][1] = b /\ Ends(U) \cap Ends(V) = {}
      /\ \A k, j \in 1 .. Len(V) : V[k] = V[j] => k = j
  BY DEF Sides, LinkedList
<1>2. 1 \in 1 .. Len(V) /\ i \in 1 .. Len(V) /\ i # 1 /\ 1 \in 1 .. Len(U)
  BY <1>1
<1>3. V[1] \in K \X BOOLEAN /\ V[i] \in K \X BOOLEAN /\ U[1] \in K \X BOOLEAN
  BY <1>1, <1>2
<1>4. V[i] \in Ends(V) /\ V[1] \in Ends(V) /\ U[1] \in Ends(U)
  BY <1>2 DEF Ends
<1>5. V[i] # U[1] /\ V[1] # U[1] /\ V[i] # V[1]
  BY <1>1, <1>2, <1>4
<1>6. V[i][2] # U[1][2] /\ V[1][2] # U[1][2] /\ V[i][2] # V[1][2]
  BY <1>1, <1>3, <1>5
<1>7. V[i][2] \in BOOLEAN /\ U[1][2] \in BOOLEAN /\ V[1][2] \in BOOLEAN
  BY <1>3
<1>. QED  BY ONLY <1>6, <1>7

(* Two parts that are joined are one part: the exits U0 of the first lead  *)
(* to the second, and its exits V0 are open behind the exits V1.           *)
LEMMA SplicedSides ==
  ASSUME NEW old \in Seq(Block), NEW new,
         NEW b0, NEW K0, NEW r0, NEW N0, NEW U0, NEW V0, Sides(old, b0, K0, r0, N0, U0, V0),
         NEW b1, NEW K1, NEW r1, NEW N1, NEW U1, NEW V1, Sides(old, b1, K1, r1, N1, U1, V1),
         K0 \cap K1 = {}, NEW flip \in BOOLEAN,
         Spliced(old, new, Ends(U0), old[b1].head, V1[Len(V1)], b0, b1, flip),
         V0[1][2] = ~new[b0].sense
  PROVE  Sides(new, b1, K0 \cup K1, Stacked(K0, r0, N0, K1, r1), N0 + N1, U1, V1 \o V0)
<1>. DEFINE K == K0 \cup K1
            r == Stacked(K0, r0, N0, K1, r1)
            V == V1 \o V0
            last == V1[Len(V1)]
<1>0. /\ K0 \subseteq 1 .. Len(old) /\ K1 \subseteq 1 .. Len(old)
      /\ b0 \in K0 /\ b1 \in K1 /\ old[b0].head \in K0 /\ old[b1].head \in K1
      /\ N0 \in Nat /\ N1 \in Nat /\ r0 \in [K0 -> 0 .. N0 - 1] /\ r1 \in [K1 -> 0 .. N1 - 1]
      /\ U0[1][1] = b0 /\ V0[1][1] = b0 /\ U1[1][1] = b1 /\ V1[1][1] = b1
      /\ Len(U0) <= N0 /\ Len(V0) <= N0 /\ Len(U1) <= N1 /\ Len(V1) <= N1
      /\ Ends(U0) \cap Ends(V0) = {} /\ Ends(U1) \cap Ends(V1) = {}
  BY DEF Sides
<1>1. /\ LinkedList(old, K0, U0) /\ LinkedList(old, K0, V0)
      /\ LinkedList(old, K1, U1) /\ LinkedList(old, K1, V1)
  BY DEF Sides
<1>2. /\ U0 \in Seq(K0 \X BOOLEAN) /\ V0 \in Seq(K0 \X BOOLEAN)
      /\ U1 \in Seq(K1 \X BOOLEAN) /\ V1 \in Seq(K1 \X BOOLEAN)
      /\ Len(U0) >= 1 /\ Len(V0) >= 1 /\ Len(U1) >= 1 /\ Len(V1) >= 1
  BY <1>1 DEF LinkedList
<1>3. /\ Len(U0) \in Nat /\ Len(V0) \in Nat /\ Len(U1) \in Nat /\ Len(V1) \in Nat
      /\ Ends(U0) \subseteq K0 \X BOOLEAN /\ Ends(V0) \subseteq K0 \X BOOLEAN
      /\ Ends(U1) \subseteq K1 \X BOOLEAN /\ Ends(V1) \subseteq K1 \X BOOLEAN
  <2>1. Len(U0) \in Nat /\ Ends(U0) \subseteq K0 \X BOOLEAN
    BY ONLY <1>2, EndsIn
  <2>2. Len(V0) \in Nat /\ Ends(V0) \subseteq K0 \X BOOLEAN
    BY ONLY <1>2, EndsIn
  <2>3. Len(U1) \in Nat /\ Ends(U1) \subseteq K1 \X BOOLEAN
    BY ONLY <1>2, EndsIn
  <2>4. Len(V1) \in Nat /\ Ends(V1) \subseteq K1 \X BOOLEAN
    BY ONLY <1>2, EndsIn
  <2>. QED  BY <2>1, <2>2, <2>3, <2>4
<1>4. (K0 \X BOOLEAN) \cap (K1 \X BOOLEAN) = {} /\ b0 # b1 /\ b0 \notin K1 /\ b1 \notin K0
  BY <1>0
<1>5. last \in Ends(V1) /\ last \in K1 \X BOOLEAN
  <2>1. Len(V1) \in 1 .. Len(V1)
    BY <1>2, <1>3
  <2>. QED  BY <1>3, <2>1 DEF Ends
<1>6. /\ new \in Seq(Block) /\ Len(new) = Len(old)
      /\ \A c \in 1 .. Len(old) :
           /\ new[c].stmts = old[c].stmts /\ new[c].br = old[c].br
           /\ new[c].head = old[IF c = b1 THEN b0 ELSE c].head
           /\ new[c].sense = IF flip /\ c = b0 THEN ~old[c].sense ELSE old[c].sense
      /\ \A e \in Exits(old) : Exit(new, e) = IF e \in Ends(U0) THEN old[b1].head
                                             ELSE IF e = last THEN b0 ELSE Exit(old, e)
  BY DEF Spliced
<1>7. \A c \in K, d \in BOOLEAN : << c, d >> \in Exits(old)
  BY <1>0 DEF Exits
<1>. HIDE DEF last
<1>8. K \subseteq 1 .. Len(new) /\ b1 \in K /\ new[b1].head \in K
  BY <1>0, <1>4, <1>6
<1>9. N0 + N1 \in Nat /\ r \in [K -> 0 .. (N0 + N1) - 1]
  <2>0. N0 \in Nat /\ N1 \in Nat /\ r0 \in [K0 -> 0 .. N0 - 1] /\ r1 \in [K1 -> 0 .. N1 - 1]
    BY <1>0
  <2>1. ASSUME NEW c \in K0 PROVE r0[c] \in 0 .. (N0 + N1) - 1
    <3>1. r0[c] \in 0 .. N0 - 1
      BY ONLY <2>0
    <3>. QED  BY ONLY <2>0, <3>1
  <2>2. ASSUME NEW c \in K1 PROVE N0 + r1[c] \in 0 .. (N0 + N1) - 1
    <3>1. r1[c] \in 0 .. N1 - 1
      BY ONLY <2>0
    <3>. QED  BY ONLY <2>0, <3>1
  <2>3. \A c \in K0 \cup K1 : (IF c \in K0 THEN r0[c] ELSE N0 + r1[c]) \in 0 .. (N0 + N1) - 1
    BY ONLY <2>1, <2>2
  <2>4. N0 + N1 \in Nat
    BY ONLY <2>0
  <2>. QED  BY ONLY <2>3, <2>4 DEF Stacked
<1>10. /\ \A c \in K0 : r[c] = r0[c]
       /\ \A c \in K1 : r[c] = N0 + r1[c]
  BY <1>4, <1>0 DEF Stacked
<1>11. \A e \in K1 \X BOOLEAN : new[e[1]].sense = old[e[1]].sense
  BY <1>0, <1>4, <1>6
<1>12. \A e \in K \X BOOLEAN : e \notin Ends(U0) /\ e # last => Exit(new, e) = Exit(old, e)
  <2>1. \A e \in K \X BOOLEAN : e \in Exits(old)
    BY <1>7
  <2>. QED  BY <1>6, <2>1
<1>13. LinkedList(new, K, U1)
  <2>1. ASSUME NEW i \in 1 .. Len(U1) PROVE Exit(new, U1[i]) = Exit(old, U1[i])
    <3>1. U1[i] \in Ends(U1)
      BY DEF Ends
    <3>2. U1[i] \in K1 \X BOOLEAN /\ U1[i] \notin Ends(U0) /\ U1[i] # last
      BY <1>0, <1>3, <1>4, <1>5, <3>1
    <3>. QED  BY <1>12, <3>2
  <2>2. ASSUME NEW i \in 2 .. Len(U1) PROVE new[U1[i][1]].sense = old[U1[i][1]].sense
    <3>1. i \in 1 .. Len(U1)
      BY <1>3
    <3>2. U1[i] \in K1 \X BOOLEAN
      BY <1>2, <3>1
    <3>. QED  BY <1>11, <3>2
  <2>. QED  BY <1>1, <2>1, <2>2, LinkedKept
<1>14. /\ V \in Seq(K \X BOOLEAN) /\ Len(V) = Len(V1) + Len(V0) /\ Ends(V) = Ends(V1) \cup Ends(V0)
       /\ \A i \in 1 .. Len(V1) : V[i] = V1[i]
       /\ \A i \in 1 .. Len(V0) : V[Len(V1) + i] = V0[i]
       /\ \A i \in 1 .. Len(V) : i \in 1 .. Len(V1) \/ \E j \in 1 .. Len(V0) : i = Len(V1) + j
  <2>1. V1 \in Seq(K \X BOOLEAN) /\ V0 \in Seq(K \X BOOLEAN)
    <3>1. K0 \X BOOLEAN \subseteq K \X BOOLEAN /\ K1 \X BOOLEAN \subseteq K \X BOOLEAN
      OBVIOUS
    <3>. QED  BY <1>2, <3>1
  <2>. QED  BY <2>1, Behind2
<1>. HIDE DEF V
<1>15. ASSUME NEW i \in 1 .. Len(V1)
       PROVE  /\ Exit(new, V1[i]) = IF i = Len(V1) THEN b0 ELSE V1[i + 1][1]
              /\ i # 1 => V1[i][2] = ~new[V1[i][1]].sense
              /\ V1[i] \in K1 \X BOOLEAN /\ V1[i] \in Ends(V1)
  <2>1. V1[i] \in Ends(V1) /\ V1[i] \in K1 \X BOOLEAN
    BY <1>2 DEF Ends
  <2>2. V1[i] \notin Ends(U0) /\ V1[i] \in Exits(old)
    BY <1>3, <1>4, <1>7, <2>1
  <2>3. V1[i] = last <=> i = Len(V1)
    <3>1. Len(V1) \in 1 .. Len(V1)
      BY <1>2, <1>3
    <3>. QED  BY <1>1, <3>1 DEF LinkedList, last
  <2>4. Exit(old, V1[i]) = IF i = Len(V1) THEN Nil ELSE V1[i + 1][1]
    BY <1>1 DEF LinkedList
  <2>5. i # 1 => V1[i][2] = ~old[V1[i][1]].sense
    <3>1. i # 1 => i \in 2 .. Len(V1)
      BY <1>3
    <3>. QED  BY <1>1, <3>1 DEF LinkedList
  <2>6. new[V1[i][1]].sense = old[V1[i][1]].sense
    BY <1>11, <2>1
  <2>. QED  BY <1>6, <2>1, <2>2, <2>3, <2>4, <2>5, <2>6
<1>16. ASSUME NEW i \in 1 .. Len(V0)
       PROVE  /\ Exit(new, V0[i]) = IF i = Len(V0) THEN Nil ELSE V0[i + 1][1]
              /\ V0[i][2] = ~new[V0[i][1]].sense
              /\ V0[i] \in K0 \X BOOLEAN /\ V0[i] \in Ends(V0)
  <2>1. V0[i] \in Ends(V0) /\ V0[i] \in K0 \X BOOLEAN
    BY <1>2 DEF Ends
  <2>2. V0[i] \notin Ends(U0) /\ V0[i] # last
    BY <1>0, <1>4, <1>5, <2>1
  <2>3. Exit(old, V0[i]) = IF i = Len(V0) THEN Nil ELSE V0[i + 1][1]
    BY <1>1 DEF LinkedList
  <2>4. V0[i][2] = ~new[V0[i][1]].sense
    <3>1. CASE i = 1
      BY <1>0, <3>1
    <3>2. CASE i # 1
      <4>1. i \in 2 .. Len(V0)
        BY <1>3, <3>2
      <4>2. V0[i][1] # b0
        BY <4>1, OnlyFirst
      <4>3. V0[i][2] = ~old[V0[i][1]].sense
        BY <1>1, <4>1 DEF LinkedList
      <4>4. V0[i][1] \in 1 .. Len(old)
        BY <1>0, <2>1
      <4>. QED  BY <1>6, <4>2, <4>3, <4>4
    <3>. QED  BY <3>1, <3>2
  <2>5. Exit(new, V0[i]) = Exit(old, V0[i])
    <3>1. V0[i] \in K \X BOOLEAN
      BY <2>1
    <3>. QED  BY <1>12, <2>2, <3>1
  <2>. QED  BY <2>1, <2>3, <2>4, <2>5
<1>17. LinkedList(new, K, V)
  <2>1. Len(V) >= 1
    BY <1>2, <1>3, <1>14
  <2>2. ASSUME NEW i \in 2 .. Len(V) PROVE V[i][2] = ~new[V[i][1]].sense
    <3>1. i \in 1 .. Len(V) /\ i # 1
      BY <1>3, <1>14
    <3>2. CASE i \in 1 .. Len(V1)
      BY <1>14, <1>15, <3>1, <3>2
    <3>3. CASE \E j \in 1 .. Len(V0) : i = Len(V1) + j
      <4>1. PICK j \in 1 .. Len(V0) : i = Len(V1) + j
        BY <3>3
      <4>2. V[i] = V0[j]
        BY <1>14, <4>1
      <4>. QED  BY <1>16, <4>2
    <3>. QED  BY <1>14, <3>1, <3>2, <3>3
  <2>3. ASSUME NEW i \in 1 .. Len(V)
        PROVE  Exit(new, V[i]) = IF i = Len(V) THEN Nil ELSE V[i + 1][1]
    <3>1. CASE i \in 1 .. Len(V1)
      <4>1. i # Len(V) /\ V[i] = V1[i]
        BY <1>2, <1>3, <1>14, <3>1
      <4>2. CASE i = Len(V1)
        <5>1. 1 \in 1 .. Len(V0) /\ V[i + 1] = V0[1]
          BY <1>2, <1>3, <1>14, <4>2
        <5>. QED  BY <1>0, <1>15, <3>1, <4>1, <4>2, <5>1
      <4>3. CASE i # Len(V1)
        <5>1. i + 1 \in 1 .. Len(V1) /\ V[i + 1] = V1[i + 1]
          BY <1>3, <1>14, <3>1, <4>3
        <5>. QED  BY <1>15, <3>1, <4>1, <4>3, <5>1
      <4>. QED  BY <4>2, <4>3
    <3>2. CASE \E j \in 1 .. Len(V0) : i = Len(V1) + j
      <4>1. PICK j \in 1 .. Len(V0) : i = Len(V1) + j
        BY <3>2
      <4>2. V[i] = V0[j] /\ (i = Len(V) <=> j = Len(V0))
        <5>1. V[i] = V0[j] /\ Len(V) = Len(V1) + Len(V0)
          BY <1>14, <4>1
        <5>. QED  BY ONLY <1>3, <4>1, <5>1, SMTT(30)
      <4>3. j # Len(V0) => V[i + 1] = V0[j + 1]
        <5>1. j # Len(V0) => j + 1 \in 1 .. Len(V0) /\ i + 1 = Len(V1) + (j + 1)
          BY ONLY <1>3, <4>1
        <5>2. j # Len(V0) => V[Len(V1) + (j + 1)] = V0[j + 1]
          BY ONLY <1>14, <5>1
        <5>. QED  BY ONLY <5>1, <5>2
      <4>. QED  BY <1>16, <4>1, <4>2, <4>3
    <3>. QED  BY <1>14, <3>1, <3>2
  <2>4. ASSUME NEW i \in 1 .. Len(V), NEW j \in 1 .. Len(V), V[i] = V[j] PROVE i = j
    <3>1. \A k, l \in 1 .. Len(V1) : V1[k] = V1[l] => k = l
      BY <1>1 DEF LinkedList
    <3>2. \A k, l \in 1 .. Len(V0) : V0[k] = V0[l] => k = l
      BY <1>1 DEF LinkedList
    <3>3. \A k \in 1 .. Len(V1), l \in 1 .. Len(V0) : V1[k] # V0[l]
      BY <1>4, <1>15, <1>16
    <3>. HIDE DEF K
    <3>4. CASE i \in 1 .. Len(V1) /\ j \in 1 .. Len(V1)
      BY <1>14, <2>4, <3>1, <3>4
    <3>5. CASE i \in 1 .. Len(V1) /\ \E k \in 1 .. Len(V0) : j = Len(V1) + k
      BY <1>14, <2>4, <3>3, <3>5
    <3>6. CASE j \in 1 .. Len(V1) /\ \E k \in 1 .. Len(V0) : i = Len(V1) + k
      BY <1>14, <2>4, <3>3, <3>6
    <3>7. CASE /\ \E k \in 1 .. Len(V0) : i = Len(V1) + k
               /\ \E k \in 1 .. Len(V0) : j = Len(V1) + k
      BY <1>14, <2>4, <3>2, <3>7
    <3>. QED  BY <1>14, <3>4, <3>5, <3>6, <3>7
  <2>. QED  BY <1>14, <2>1, <2>2, <2>3, <2>4 DEF LinkedList
<1>18. V[1][1] = b1 /\ Len(V) <= N0 + N1 /\ Len(U1) <= N0 + N1
  <2>1. 1 \in 1 .. Len(V1)
    BY <1>2, <1>3
  <2>2. V[1] = V1[1]
    BY <1>14, <2>1
  <2>3. /\ Len(U1) <= N1 /\ Len(V1) <= N1 /\ Len(V0) <= N0 /\ N0 \in Nat /\ N1 \in Nat
        /\ Len(V) = Len(V1) + Len(V0) /\ V1[1][1] = b1
    BY <1>0, <1>14
  <2>4. Len(V) <= N0 + N1 /\ Len(U1) <= N0 + N1
    BY ONLY <1>3, <2>3
  <2>. QED  BY <2>2, <2>3, <2>4
<1>19. Ends(U1) \cap Ends(V) = {}
  BY <1>0, <1>3, <1>4, <1>14
<1>20. ASSUME NEW e \in (K \X BOOLEAN) \ (Ends(U1) \cup Ends(V))
       PROVE  Exit(new, e) \in K /\ r[Exit(new, e)] > r[e[1]]
  <2>1. e \notin Ends(V1) /\ e \notin Ends(V0) /\ e \notin Ends(U1) /\ e # last
    BY <1>5, <1>14
  <2>2. CASE e \in Ends(U0)
    <3>1. Exit(new, e) = old[b1].head
      BY <1>6, <1>7, <2>2
    <3>2. e[1] \in K0
      BY <1>3, <2>2
    <3>3. r0[e[1]] \in 0 .. N0 - 1 /\ r1[old[b1].head] \in 0 .. N1 - 1
      BY <1>0, <3>2
    <3>4. N0 + r1[old[b1].head] > r0[e[1]]
      BY ONLY <1>0, <3>3, SMTT(30)
    <3>5. r[e[1]] = r0[e[1]] /\ r[old[b1].head] = N0 + r1[old[b1].head] /\ old[b1].head \in K
      BY <1>0, <1>10, <3>2
    <3>. QED  BY <3>1, <3>4, <3>5
  <2>3. CASE e \notin Ends(U0)
    <3>1. Exit(new, e) = Exit(old, e)
      BY <1>12, <2>1, <2>3
    <3>2. CASE e \in K0 \X BOOLEAN
      <4>1. Exit(old, e) \in K0 /\ r0[Exit(old, e)] > r0[e[1]] /\ e[1] \in K0
        BY <2>1, <2>3, <3>2 DEF Sides
      <4>. QED  BY <1>10, <3>1, <4>1
    <3>3. CASE e \in K1 \X BOOLEAN
      <4>1. Exit(old, e) \in K1 /\ r1[Exit(old, e)] > r1[e[1]] /\ e[1] \in K1
        BY <2>1, <3>3 DEF Sides
      <4>2. r1[Exit(old, e)] \in 0 .. N1 - 1 /\ r1[e[1]] \in 0 .. N1 - 1
        BY <1>0, <4>1
      <4>3. N0 + r1[Exit(old, e)] > N0 + r1[e[1]]
        BY ONLY <1>0, <4>1, <4>2
      <4>. QED  BY <1>10, <3>1, <4>1, <4>3
    <3>. QED  BY <3>2, <3>3
  <2>. QED  BY <2>2, <2>3
<1>21. ASSUME NEW c \in K PROVE new[c].stmts \in Seq(Stmt) /\ new[c].br \in Test1
  <2>1. c \in 1 .. Len(old)
    BY <1>0
  <2>2. old[c].stmts \in Seq(Stmt) /\ old[c].br \in Test1
    BY DEF Sides
  <2>. QED  BY <1>6, <2>1, <2>2
<1>. HIDE DEF K, r
<1>22. Sides(new, b1, K, r, N0 + N1, U1, V)
  BY ONLY <1>8, <1>9, <1>13, <1>17, <1>18, <1>19, <1>20, <1>21, <1>0 DEF Sides
<1>. QED  BY <1>22 DEF K, r, V

(***************************************************************************)
(* What blocks do with a packet.  A machine is ready when it runs and has  *)
(* the length of the prefix in the register for it, if there is one.  What *)
(* a block says is for every ready machine the same, unless the block's    *)
(* own statements write to that register.                                  *)
(***************************************************************************)
Pre(e, p) == IF e \notin Prefixed \/ ~HasPrefix(p) THEN 0 ELSE p.at[2] + ByteBase * p.at[3]

Ready(m, lr, v) == m \in Machine /\ ~m.halted /\ (lr # NoReg => m.mem[lr] = v)
Stores(s) == {s[j].k : j \in {i \in 1 .. Len(s) : s[i].class = "st"}}

Says(blk, lr, v, p, out) ==
  lr \notin Stores(blk.stmts) =>
    \A m : Ready(m, lr, v) =>
      LET t == PerformAll(m, blk.stmts, p)
      IN  ~t.halted /\ (Holds(blk.br.fn, t.a, Operand(t, blk.br)) <=> out)

(* Where the exit e leads if the part's verdict d is to be u in the end by *)
(* the exits U, and the other by the exits V.                              *)
LeadsOn(blocks, e, L, U, V, u, d) ==
  IF e \in Ends(U) THEN d = u
  ELSE IF e \in Ends(V) THEN d # u ELSE Exit(blocks, e) \in L

(* From its head the part comes to the verdict d over the blocks of L.     *)
Decides(blocks, lr, v, p, b, K, U, V, u, d) ==
  d # "reject" =>
    \E L \in SUBSET K :
      /\ blocks[b].head \in L
      /\ \A c \in L : \E out \in BOOLEAN :
           Says(blocks[c], lr, v, p, out) /\ LeadsOn(blocks, << c, out >>, L, U, V, u, d)

Verdict3 == {"yes", "no", "reject"}

LEMMA DecidesTurned ==
  ASSUME NEW blocks, NEW lr, NEW v, NEW p, NEW b, NEW K, NEW U, NEW V, NEW u, NEW w, NEW d,
         {u, w} = {"yes", "no"}, d \in Verdict3, Ends(U) \cap Ends(V) = {},
         Decides(blocks, lr, v, p, b, K, U, V, u, d)
  PROVE  Decides(blocks, lr, v, p, b, K, V, U, w, d)
<1>. SUFFICES ASSUME d # "reject"
             PROVE  \E L \in SUBSET K :
                      /\ blocks[b].head \in L
                      /\ \A c \in L : \E out \in BOOLEAN :
                           Says(blocks[c], lr, v, p, out) /\ LeadsOn(blocks, << c, out >>, L, V, U, w, d)
  BY DEF Decides
<1>1. PICK L \in SUBSET K :
        /\ blocks[b].head \in L
        /\ \A c \in L : \E out \in BOOLEAN :
             Says(blocks[c], lr, v, p, out) /\ LeadsOn(blocks, << c, out >>, L, U, V, u, d)
  BY DEF Decides
<1>2. (d = u <=> d # w) /\ (d = w <=> d # u)
  BY DEF Verdict3
<1>3. ASSUME NEW e, LeadsOn(blocks, e, L, U, V, u, d) PROVE LeadsOn(blocks, e, L, V, U, w, d)
  <2>1. ~(e \in Ends(U) /\ e \in Ends(V))
    OBVIOUS
  <2>. QED  BY ONLY <1>2, <1>3, <2>1 DEF LeadsOn
<1>. QED  BY ONLY <1>1, <1>3

(* The verdict of two parts that are joined.                               *)
LEMMA SplicedDecides ==
  ASSUME NEW old \in Seq(Block), NEW new,
         NEW b0, NEW K0, NEW r0, NEW N0, NEW U0, NEW V0, Sides(old, b0, K0, r0, N0, U0, V0),
         NEW b1, NEW K1, NEW r1, NEW N1, NEW U1, NEW V1, Sides(old, b1, K1, r1, N1, U1, V1),
         K0 \cap K1 = {}, NEW flip \in BOOLEAN,
         Spliced(old, new, Ends(U0), old[b1].head, V1[Len(V1)], b0, b1, flip),
         NEW lr, NEW v, NEW p, NEW u \in {"yes", "no"}, NEW d0, NEW d1,
         Decides(old, lr, v, p, b0, K0, U0, V0, u, d0),
         Decides(old, lr, v, p, b1, K1, U1, V1, u, d1)
  PROVE  Decides(new, lr, v, p, b1, K0 \cup K1, U1, V1 \o V0, u, IF d0 = u THEN d1 ELSE d0)
<1>. DEFINE d == IF d0 = u THEN d1 ELSE d0
            V == V1 \o V0
            last == V1[Len(V1)]
<1>. SUFFICES ASSUME d # "reject"
             PROVE  \E L \in SUBSET (K0 \cup K1) :
                      /\ new[b1].head \in L
                      /\ \A c \in L : \E out \in BOOLEAN :
                           /\ Says(new[c], lr, v, p, out)
                           /\ LeadsOn(new, << c, out >>, L, U1, V, u, d)
  BY DEF Decides
<1>0. /\ K0 \subseteq 1 .. Len(old) /\ K1 \subseteq 1 .. Len(old)
      /\ b0 \in K0 /\ b1 \in K1 /\ old[b0].head \in K0 /\ old[b1].head \in K1
      /\ Ends(U0) \cap Ends(V0) = {} /\ Ends(U1) \cap Ends(V1) = {}
      /\ U0 \in Seq(K0 \X BOOLEAN) /\ V0 \in Seq(K0 \X BOOLEAN)
      /\ U1 \in Seq(K1 \X BOOLEAN) /\ V1 \in Seq(K1 \X BOOLEAN) /\ Len(V1) >= 1
  BY DEF Sides, LinkedList
<1>1. /\ Ends(U0) \subseteq K0 \X BOOLEAN /\ Ends(V0) \subseteq K0 \X BOOLEAN
      /\ Ends(U1) \subseteq K1 \X BOOLEAN /\ Ends(V1) \subseteq K1 \X BOOLEAN
      /\ Len(V1) \in Nat
  <2>1. Ends(U0) \subseteq K0 \X BOOLEAN
    BY ONLY <1>0, EndsIn
  <2>2. Ends(V0) \subseteq K0 \X BOOLEAN
    BY ONLY <1>0, EndsIn
  <2>3. Ends(U1) \subseteq K1 \X BOOLEAN
    BY ONLY <1>0, EndsIn
  <2>4. Len(V1) \in Nat /\ Ends(V1) \subseteq K1 \X BOOLEAN
    BY ONLY <1>0, EndsIn
  <2>. QED  BY <2>1, <2>2, <2>3, <2>4
<1>2. (K0 \X BOOLEAN) \cap (K1 \X BOOLEAN) = {}
  OBVIOUS
<1>3. last \in Ends(V1)
  BY <1>0, <1>1 DEF Ends
<1>4. Ends(V) = Ends(V1) \cup Ends(V0)
  <2>1. V1 \in Seq((K0 \cup K1) \X BOOLEAN) /\ V0 \in Seq((K0 \cup K1) \X BOOLEAN)
    <3>1. K0 \X BOOLEAN \subseteq (K0 \cup K1) \X BOOLEAN /\ K1 \X BOOLEAN \subseteq (K0 \cup K1) \X BOOLEAN
      OBVIOUS
    <3>. QED  BY <1>0, <3>1
  <2>. QED  BY <2>1, Behind2
<1>5. /\ \A c \in K0 \cup K1 : \A out : Says(old[c], lr, v, p, out) => Says(new[c], lr, v, p, out)
      /\ new[b1].head = old[b0].head
      /\ \A e \in (K0 \cup K1) \X BOOLEAN :
           Exit(new, e) = IF e \in Ends(U0) THEN old[b1].head
                          ELSE IF e = last THEN b0 ELSE Exit(old, e)
  <2>1. \A c \in 1 .. Len(old) :
          /\ new[c].stmts = old[c].stmts /\ new[c].br = old[c].br
          /\ new[c].head = old[IF c = b1 THEN b0 ELSE c].head
    BY DEF Spliced
  <2>2. \A e \in Exits(old) : Exit(new, e) = IF e \in Ends(U0) THEN old[b1].head
                                             ELSE IF e = last THEN b0 ELSE Exit(old, e)
    BY DEF Spliced
  <2>3. \A e \in (K0 \cup K1) \X BOOLEAN : e \in Exits(old)
    BY <1>0 DEF Exits
  <2>4. \A c \in K0 \cup K1 : \A out : Says(old[c], lr, v, p, out) => Says(new[c], lr, v, p, out)
    <3>1. \A c \in K0 \cup K1 : new[c].stmts = old[c].stmts /\ new[c].br = old[c].br
      BY <1>0, <2>1
    <3>. QED  BY ONLY <3>1 DEF Says
  <2>. QED  BY <1>0, <2>1, <2>2, <2>3, <2>4
<1>. HIDE DEF last, V
<1>6. d0 # "reject" /\ (d0 = u => d1 # "reject")
  OBVIOUS
<1>7. PICK L0 \in SUBSET K0 :
        /\ old[b0].head \in L0
        /\ \A c \in L0 : \E out \in BOOLEAN :
             Says(old[c], lr, v, p, out) /\ LeadsOn(old, << c, out >>, L0, U0, V0, u, d0)
  BY <1>6 DEF Decides
<1>8. ASSUME NEW c \in L0, NEW out \in BOOLEAN, NEW L1 \in SUBSET K1, d0 = u => old[b1].head \in L1,
             LeadsOn(old, << c, out >>, L0, U0, V0, u, d0)
      PROVE  LeadsOn(new, << c, out >>, L0 \cup L1, U1, V, u, d)
  <2>. DEFINE e == << c, out >>
  <2>1. e \in K0 \X BOOLEAN /\ e \notin Ends(U1) /\ e \notin Ends(V1) /\ e # last
    BY <1>1, <1>2, <1>3
  <2>2. Exit(new, e) = IF e \in Ends(U0) THEN old[b1].head ELSE Exit(old, e)
    BY <1>5, <2>1
  <2>3. CASE e \in Ends(U0)
    <3>1. d0 = u /\ e \notin Ends(V0)
      BY <1>0, <1>8, <2>3 DEF LeadsOn
    <3>. QED  BY <1>4, <1>8, <2>1, <2>2, <2>3, <3>1 DEF LeadsOn
  <2>4. CASE e \in Ends(V0)
    <3>1. d0 # u
      BY <1>0, <1>8, <2>4 DEF LeadsOn
    <3>. QED  BY <1>4, <2>1, <2>4, <3>1 DEF LeadsOn
  <2>5. CASE e \notin Ends(U0) /\ e \notin Ends(V0)
    <3>1. Exit(old, e) \in L0
      BY <1>8, <2>5 DEF LeadsOn
    <3>. QED  BY <1>4, <2>1, <2>2, <2>5, <3>1 DEF LeadsOn
  <2>. QED  BY <2>3, <2>4, <2>5
<1>9. CASE d0 = u
  <2>1. PICK L1 \in SUBSET K1 :
          /\ old[b1].head \in L1
          /\ \A c \in L1 : \E out \in BOOLEAN :
               Says(old[c], lr, v, p, out) /\ LeadsOn(old, << c, out >>, L1, U1, V1, u, d1)
    BY <1>6, <1>9 DEF Decides
  <2>2. ASSUME NEW c \in L1, NEW out \in BOOLEAN, LeadsOn(old, << c, out >>, L1, U1, V1, u, d1)
        PROVE  LeadsOn(new, << c, out >>, L0 \cup L1, U1, V, u, d)
    <3>. DEFINE e == << c, out >>
    <3>1. e \in K1 \X BOOLEAN /\ e \notin Ends(U0) /\ e \notin Ends(V0) /\ d = d1
      BY <1>1, <1>2, <1>9
    <3>2. e # last => Exit(new, e) = Exit(old, e)
      BY <1>5, <3>1
    <3>. QED  BY <1>3, <1>4, <2>2, <3>1, <3>2 DEF LeadsOn
  <2>3. ASSUME NEW c \in L0 \cup L1
        PROVE  \E out \in BOOLEAN : /\ Says(new[c], lr, v, p, out)
                                    /\ LeadsOn(new, << c, out >>, L0 \cup L1, U1, V, u, d)
    <3>1. CASE c \in L0
      <4>1. PICK out \in BOOLEAN :
              Says(old[c], lr, v, p, out) /\ LeadsOn(old, << c, out >>, L0, U0, V0, u, d0)
        BY <1>7, <3>1
      <4>2. LeadsOn(new, << c, out >>, L0 \cup L1, U1, V, u, d)
        BY <1>8, <2>1, <3>1, <4>1
      <4>. QED  BY <1>5, <3>1, <4>1, <4>2
    <3>2. CASE c \in L1
      <4>1. PICK out \in BOOLEAN :
              Says(old[c], lr, v, p, out) /\ LeadsOn(old, << c, out >>, L1, U1, V1, u, d1)
        BY <2>1, <3>2
      <4>. QED  BY <1>5, <2>2, <3>2, <4>1
    <3>. QED  BY <3>1, <3>2
  <2>. QED  BY <1>5, <1>7, <2>1, <2>3
<1>10. CASE d0 # u
  <2>1. ASSUME NEW c \in L0
        PROVE  \E out \in BOOLEAN : /\ Says(new[c], lr, v, p, out)
                                    /\ LeadsOn(new, << c, out >>, L0, U1, V, u, d)
    <3>1. PICK out \in BOOLEAN :
            Says(old[c], lr, v, p, out) /\ LeadsOn(old, << c, out >>, L0, U0, V0, u, d0)
      BY <1>7
    <3>2. LeadsOn(new, << c, out >>, L0 \cup {}, U1, V, u, d)
      BY <1>8, <1>10, <3>1
    <3>3. L0 \cup {} = L0
      OBVIOUS
    <3>. QED  BY <1>5, <3>1, <3>2, <3>3
  <2>. QED  BY <1>5, <1>7, <2>1
<1>. QED  BY <1>9, <1>10

(* A block is its fields.                                                  *)
LEMMA SameBlock ==
  ASSUME NEW x \in Block, NEW y \in Block,
         x.stmts = y.stmts, x.br = y.br, x.jt = y.jt, x.jf = y.jf, x.sense = y.sense,
         x.head = y.head, x.means = y.means
  PROVE  x = y
  BY DEF Block

LEMMA SplicedElsewhere ==
  ASSUME NEW old \in Seq(Block), NEW new, NEW b0, NEW b1, NEW S, NEW head1, NEW last, NEW flip,
         Spliced(old, new, S, head1, last, b0, b1, flip),
         NEW K, S \subseteq K \X BOOLEAN, last \in K \X BOOLEAN, b0 \in K, b1 \in K,
         NEW c \in 1 .. Len(old), c \notin K
  PROVE  new[c] = old[c]
<1>1. new[c] \in Block /\ old[c] \in Block
  BY DEF Spliced
<1>2. << c, TRUE >> \in Exits(old) /\ << c, FALSE >> \in Exits(old)
  BY DEF Exits
<1>3. \A out \in BOOLEAN : << c, out >> \notin S /\ << c, out >> # last
  OBVIOUS
<1>4. Exit(new, << c, TRUE >>) = Exit(old, << c, TRUE >>) /\ Exit(new, << c, FALSE >>) = Exit(old, << c, FALSE >>)
  BY <1>2, <1>3 DEF Spliced
<1>5. new[c].jt = old[c].jt /\ new[c].jf = old[c].jf
  BY <1>4 DEF Exit
<1>6. c # b0 /\ c # b1
  OBVIOUS
<1>7. /\ new[c].stmts = old[c].stmts /\ new[c].br = old[c].br /\ new[c].means = old[c].means
      /\ new[c].head = old[c].head /\ new[c].sense = old[c].sense
  BY <1>6 DEF Spliced
<1>. QED  BY <1>1, <1>5, <1>7, SameBlock

(* What gen_and (u is "yes") and gen_or (u is "no") make of two parts.     *)
Joined(old, new, b1, g0, g1, u) ==
  /\ new \in Seq(Block) /\ Len(new) = Len(old)
  /\ \A c \in 1 .. Len(old) : c \notin g0.K \cup g1.K => new[c] = old[c]
  /\ new[b1].means = old[b1].means
  /\ \E g : /\ Opened(new, b1, g) /\ g.K = g0.K \cup g1.K /\ g.N = g0.N + g1.N
            /\ \A lr, v, p : \A d0, d1 \in Verdict3 :
                 /\ \E b0 : Decides(old, lr, v, p, b0, g0.K, g0.T, g0.F, "yes", d0)
                            /\ Opened(old, b0, g0)
                 /\ Decides(old, lr, v, p, b1, g1.K, g1.T, g1.F, "yes", d1)
                 => Decides(new, lr, v, p, b1, g.K, g.T, g.F, "yes", IF d0 = u THEN d1 ELSE d0)

LEMMA OneFirst ==
  ASSUME NEW blocks \in Seq(Block), NEW b, NEW c, NEW g, Opened(blocks, b, g), Opened(blocks, c, g)
  PROVE  b = c
  BY DEF Opened

LEMMA JoinOpened ==
  ASSUME NEW blocks, NEW b0, NEW g0, NEW b1, NEW g1, Apart(blocks, b0, g0, b1, g1)
  PROVE  Joined(blocks, Join(blocks, b0, b1), b1, g0, g1, "yes")
<1>. DEFINE new == Join(blocks, b0, b1)
            V == g1.F \o g0.F
            r == Stacked(g0.K, g0.r, g0.N, g1.K, g1.r)
            g == [K |-> g0.K \cup g1.K, T |-> g1.T, F |-> V, r |-> r, N |-> g0.N + g1.N]
            last == g1.F[Len(g1.F)]
<1>1. blocks \in Seq(Block) /\ Opened(blocks, b0, g0) /\ Opened(blocks, b1, g1) /\ g0.K \cap g1.K = {}
  BY DEF Apart
<1>2. Spliced(blocks, new, Ends(g0.T), blocks[b1].head, last, b0, b1, TRUE)
  BY JoinShape
<1>3. /\ Sides(blocks, b0, g0.K, g0.r, g0.N, g0.T, g0.F)
      /\ Sides(blocks, b1, g1.K, g1.r, g1.N, g1.T, g1.F)
      /\ g0.F[1] = << b0, blocks[b0].sense >>
      /\ g1.T[1] = << b1, ~blocks[b1].sense >> /\ g1.F[1] = << b1, blocks[b1].sense >>
  BY <1>1, OpenedSides
<1>4. /\ b0 \in 1 .. Len(blocks) /\ b1 \in 1 .. Len(blocks) /\ b0 # b1
      /\ Ends(g0.T) \subseteq g0.K \X BOOLEAN /\ Ends(g1.F) \subseteq g1.K \X BOOLEAN
      /\ Len(g1.F) >= 1 /\ Len(g1.F) \in Nat
      /\ b0 \in g0.K /\ b1 \in g1.K
  <2>1. b0 \in g0.K /\ b1 \in g1.K
    BY <1>1 DEF Opened
  <2>. QED  BY <2>1, ApartFacts
<1>5. last \in Ends(g1.F)
  BY <1>4 DEF Ends
<1>6. /\ new \in Seq(Block) /\ Len(new) = Len(blocks)
      /\ new[b1].means = blocks[b1].means
      /\ new[b1].sense = blocks[b1].sense /\ new[b0].sense = ~blocks[b0].sense
  BY <1>2, <1>4 DEF Spliced
<1>7. blocks[b0].sense \in BOOLEAN
  BY <1>1, <1>4, LinkIsExit
<1>8. g0.F[1][2] = ~new[b0].sense
  <2>1. g0.F[1][2] = blocks[b0].sense
    BY <1>3
  <2>. QED  BY ONLY <1>6, <1>7, <2>1
<1>9. ASSUME NEW c \in 1 .. Len(blocks), c \notin g0.K \cup g1.K PROVE new[c] = blocks[c]
  <2>1. Ends(g0.T) \subseteq (g0.K \cup g1.K) \X BOOLEAN /\ last \in (g0.K \cup g1.K) \X BOOLEAN
    BY <1>4, <1>5
  <2>2. b0 \in g0.K \cup g1.K /\ b1 \in g0.K \cup g1.K
    BY <1>4
  <2>. DEFINE K == g0.K \cup g1.K
              S == Ends(g0.T)
              head1 == blocks[b1].head
              flip == TRUE
  <2>3. /\ Spliced(blocks, new, S, head1, last, b0, b1, flip)
        /\ S \subseteq K \X BOOLEAN /\ last \in K \X BOOLEAN /\ b0 \in K /\ b1 \in K
        /\ c \in 1 .. Len(blocks) /\ c \notin K
    BY <1>2, <1>9, <2>1, <2>2
  <2>. HIDE DEF new, last, K, S, head1, flip
  <2>. QED  BY ONLY <1>1, <2>3, SplicedElsewhere
<1>. HIDE DEF new
<1>10. Sides(new, b1, g0.K \cup g1.K, r, g0.N + g1.N, g1.T, V)
  BY <1>1, <1>2, <1>3, <1>8, SplicedSides
<1>11. V[1] = g1.F[1]
  <2>1. g1.F \in Seq(g1.K \X BOOLEAN) /\ g0.F \in Seq(g0.K \X BOOLEAN)
    BY <1>1 DEF Opened, LinkedList
  <2>2. g1.F \in Seq((g0.K \cup g1.K) \X BOOLEAN) /\ g0.F \in Seq((g0.K \cup g1.K) \X BOOLEAN)
    <3>1. g0.K \X BOOLEAN \subseteq (g0.K \cup g1.K) \X BOOLEAN /\ g1.K \X BOOLEAN \subseteq (g0.K \cup g1.K) \X BOOLEAN
      OBVIOUS
    <3>. QED  BY <2>1, <3>1
  <2>3. 1 \in 1 .. Len(g1.F)
    BY <1>4
  <2>. DEFINE S == (g0.K \cup g1.K) \X BOOLEAN
              s == g1.F
              t == g0.F
  <2>4. s \in Seq(S) /\ t \in Seq(S)
    BY <2>2
  <2>5. (s \o t)[1] = s[1]
    <3>1. 1 \in 1 .. Len(s)
      BY <2>3
    <3>. HIDE DEF S, s, t
    <3>. QED  BY ONLY <2>4, <3>1, Behind2
  <2>. QED  BY <2>5
<1>. HIDE DEF V, r, last
<1>12. Opened(new, b1, g)
  <2>1. g.T[1] = << b1, ~new[b1].sense >> /\ g.F[1] = << b1, new[b1].sense >>
    BY <1>3, <1>6, <1>11
  <2>. QED  BY <1>10, <2>1, OpenedSides
<1>13. ASSUME NEW lr, NEW v, NEW p, NEW d0 \in Verdict3, NEW d1 \in Verdict3,
              NEW b, Decides(blocks, lr, v, p, b, g0.K, g0.T, g0.F, "yes", d0), Opened(blocks, b, g0),
              Decides(blocks, lr, v, p, b1, g1.K, g1.T, g1.F, "yes", d1)
       PROVE  Decides(new, lr, v, p, b1, g.K, g.T, g.F, "yes", IF d0 = "yes" THEN d1 ELSE d0)
  <2>1. b = b0
    BY <1>1, <1>13, OneFirst
  <2>2. Decides(new, lr, v, p, b1, g0.K \cup g1.K, g1.T, g1.F \o g0.F, "yes", IF d0 = "yes" THEN d1 ELSE d0)
    BY <1>1, <1>2, <1>3, <1>13, <2>1, SplicedDecides DEF last
  <2>. QED  BY <2>2 DEF V
<1>14. \A lr, v, p : \A d0, d1 \in Verdict3 :
         /\ \E b : Decides(blocks, lr, v, p, b, g0.K, g0.T, g0.F, "yes", d0) /\ Opened(blocks, b, g0)
         /\ Decides(blocks, lr, v, p, b1, g1.K, g1.T, g1.F, "yes", d1)
         => Decides(new, lr, v, p, b1, g.K, g.T, g.F, "yes", IF d0 = "yes" THEN d1 ELSE d0)
  BY ONLY <1>13, SMTT(30)
<1>15. g.K = g0.K \cup g1.K /\ g.N = g0.N + g1.N
  OBVIOUS
<1>. HIDE DEF g
<1>. QED  BY ONLY <1>6, <1>9, <1>12, <1>14, <1>15 DEF Joined, new

LEMMA JoinOrOpened ==
  ASSUME NEW blocks, NEW b0, NEW g0, NEW b1, NEW g1, Apart(blocks, b0, g0, b1, g1)
  PROVE  Joined(blocks, JoinOr(blocks, b0, b1), b1, g0, g1, "no")
<1>. DEFINE new == JoinOr(blocks, b0, b1)
            V == g1.T \o g0.T
            r == Stacked(g0.K, g0.r, g0.N, g1.K, g1.r)
            g == [K |-> g0.K \cup g1.K, T |-> V, F |-> g1.F, r |-> r, N |-> g0.N + g1.N]
            last == g1.T[Len(g1.T)]
<1>1. blocks \in Seq(Block) /\ Opened(blocks, b0, g0) /\ Opened(blocks, b1, g1) /\ g0.K \cap g1.K = {}
  BY DEF Apart
<1>2. Spliced(blocks, new, Ends(g0.F), blocks[b1].head, last, b0, b1, FALSE)
  BY JoinOrShape
<1>3. /\ Sides(blocks, b0, g0.K, g0.r, g0.N, g0.F, g0.T)
      /\ Sides(blocks, b1, g1.K, g1.r, g1.N, g1.F, g1.T)
      /\ g0.T[1] = << b0, ~blocks[b0].sense >>
      /\ g1.T[1] = << b1, ~blocks[b1].sense >> /\ g1.F[1] = << b1, blocks[b1].sense >>
  BY <1>1, OpenedSides, SidesTurned
<1>4. /\ b0 \in 1 .. Len(blocks) /\ b1 \in 1 .. Len(blocks) /\ b0 # b1
      /\ Ends(g0.F) \subseteq g0.K \X BOOLEAN /\ Ends(g1.T) \subseteq g1.K \X BOOLEAN
      /\ Len(g1.T) >= 1 /\ Len(g1.T) \in Nat
      /\ b0 \in g0.K /\ b1 \in g1.K
  <2>1. b0 \in g0.K /\ b1 \in g1.K
    BY <1>1 DEF Opened
  <2>. QED  BY <2>1, ApartFacts
<1>5. last \in Ends(g1.T)
  BY <1>4 DEF Ends
<1>6. /\ new \in Seq(Block) /\ Len(new) = Len(blocks)
      /\ new[b1].means = blocks[b1].means
      /\ new[b1].sense = blocks[b1].sense /\ new[b0].sense = blocks[b0].sense
  BY <1>2, <1>4 DEF Spliced
<1>8. g0.T[1][2] = ~new[b0].sense
  BY <1>3, <1>6
<1>9. ASSUME NEW c \in 1 .. Len(blocks), c \notin g0.K \cup g1.K PROVE new[c] = blocks[c]
  <2>1. Ends(g0.F) \subseteq (g0.K \cup g1.K) \X BOOLEAN /\ last \in (g0.K \cup g1.K) \X BOOLEAN
    BY <1>4, <1>5
  <2>2. b0 \in g0.K \cup g1.K /\ b1 \in g0.K \cup g1.K
    BY <1>4
  <2>. DEFINE K == g0.K \cup g1.K
              S == Ends(g0.F)
              head1 == blocks[b1].head
              flip == FALSE
  <2>3. /\ Spliced(blocks, new, S, head1, last, b0, b1, flip)
        /\ S \subseteq K \X BOOLEAN /\ last \in K \X BOOLEAN /\ b0 \in K /\ b1 \in K
        /\ c \in 1 .. Len(blocks) /\ c \notin K
    BY <1>2, <1>9, <2>1, <2>2
  <2>. HIDE DEF new, last, K, S, head1, flip
  <2>. QED  BY ONLY <1>1, <2>3, SplicedElsewhere
<1>. HIDE DEF new
<1>10. Sides(new, b1, g0.K \cup g1.K, r, g0.N + g1.N, g1.F, V)
  BY <1>1, <1>2, <1>3, <1>8, SplicedSides
<1>11. V[1] = g1.T[1]
  <2>1. g1.T \in Seq(g1.K \X BOOLEAN) /\ g0.T \in Seq(g0.K \X BOOLEAN)
    BY <1>1 DEF Opened, LinkedList
  <2>2. g1.T \in Seq((g0.K \cup g1.K) \X BOOLEAN) /\ g0.T \in Seq((g0.K \cup g1.K) \X BOOLEAN)
    <3>1. g0.K \X BOOLEAN \subseteq (g0.K \cup g1.K) \X BOOLEAN /\ g1.K \X BOOLEAN \subseteq (g0.K \cup g1.K) \X BOOLEAN
      OBVIOUS
    <3>. QED  BY <2>1, <3>1
  <2>3. 1 \in 1 .. Len(g1.T)
    BY <1>4
  <2>. DEFINE S == (g0.K \cup g1.K) \X BOOLEAN
              s == g1.T
              t == g0.T
  <2>4. s \in Seq(S) /\ t \in Seq(S)
    BY <2>2
  <2>5. (s \o t)[1] = s[1]
    <3>1. 1 \in 1 .. Len(s)
      BY <2>3
    <3>. HIDE DEF S, s, t
    <3>. QED  BY ONLY <2>4, <3>1, Behind2
  <2>. QED  BY <2>5
<1>. HIDE DEF V, r, last
<1>12. Opened(new, b1, g)
  <2>1. g.T[1] = << b1, ~new[b1].sense >> /\ g.F[1] = << b1, new[b1].sense >>
    BY <1>3, <1>6, <1>11
  <2>. QED  BY <1>10, <2>1, OpenedSides, SidesTurned
<1>13. ASSUME NEW lr, NEW v, NEW p, NEW d0 \in Verdict3, NEW d1 \in Verdict3,
              NEW b, Decides(blocks, lr, v, p, b, g0.K, g0.T, g0.F, "yes", d0), Opened(blocks, b, g0),
              Decides(blocks, lr, v, p, b1, g1.K, g1.T, g1.F, "yes", d1)
       PROVE  Decides(new, lr, v, p, b1, g.K, g.T, g.F, "yes", IF d0 = "no" THEN d1 ELSE d0)
  <2>1. b = b0
    BY <1>1, <1>13, OneFirst
  <2>2. {"no", "yes"} = {"yes", "no"} /\ Ends(g0.T) \cap Ends(g0.F) = {} /\ Ends(g1.T) \cap Ends(g1.F) = {}
    BY <1>1 DEF Opened
  <2>3. Decides(blocks, lr, v, p, b0, g0.K, g0.F, g0.T, "no", d0)
    BY <1>13, <2>1, <2>2, DecidesTurned
  <2>4. Decides(blocks, lr, v, p, b1, g1.K, g1.F, g1.T, "no", d1)
    BY <1>13, <2>2, DecidesTurned
  <2>5. Decides(new, lr, v, p, b1, g0.K \cup g1.K, g1.F, g1.T \o g0.T, "no", IF d0 = "no" THEN d1 ELSE d0)
    BY <1>1, <1>2, <1>3, <2>3, <2>4, SplicedDecides DEF last
  <2>6. Ends(g1.F) \cap Ends(V) = {}
    BY <1>10 DEF Sides
  <2>7. (IF d0 = "no" THEN d1 ELSE d0) \in Verdict3
    OBVIOUS
  <2>8. Decides(new, lr, v, p, b1, g0.K \cup g1.K, V, g1.F, "yes", IF d0 = "no" THEN d1 ELSE d0)
    BY <2>5, <2>6, <2>7, DecidesTurned DEF V
  <2>. QED  BY <2>8
<1>14. \A lr, v, p : \A d0, d1 \in Verdict3 :
         /\ \E b : Decides(blocks, lr, v, p, b, g0.K, g0.T, g0.F, "yes", d0) /\ Opened(blocks, b, g0)
         /\ Decides(blocks, lr, v, p, b1, g1.K, g1.T, g1.F, "yes", d1)
         => Decides(new, lr, v, p, b1, g.K, g.T, g.F, "yes", IF d0 = "no" THEN d1 ELSE d0)
  BY ONLY <1>13
<1>15. g.K = g0.K \cup g1.K /\ g.N = g0.N + g1.N
  OBVIOUS
<1>. HIDE DEF g
<1>. QED  BY ONLY <1>6, <1>9, <1>12, <1>14, <1>15 DEF Joined, new

-----------------------------------------------------------------------------
(***************************************************************************)
(* What lists of statements do.                                            *)
(***************************************************************************)

(***************************************************************************)
(* What statements do.                                                     *)
(***************************************************************************)
LEMMA KeptStmts ==
  ASSUME NEW s \in Seq(Stmt)
  PROVE  Kept(s) = s /\ Len(s) \in Nat
<1>1. \A j \in 1 .. Len(s) : s[j] \in Stmt
  OBVIOUS
<1>2. \A j \in 1 .. Len(s) : ~IsNop(s[j])
  BY <1>1 DEF Stmt, IsNop
<1>. QED  BY <1>2 DEF Kept

LEMMA PerformOne ==
  ASSUME NEW m \in Machine, NEW i \in Stmt, NEW p, PacketType(p)
  PROVE  LET u == Perform(m, i, p)
         IN  /\ u \in Machine
             /\ \A k \in Slot : (i.class # "st" \/ i.k # k) => u.mem[k] = m.mem[k]
             /\ ~m.halted /\ ~Faults(m, i, MaxInsns, p.len) =>
                  /\ ~u.halted /\ u.a = NewA(m, i, p.at, p.wirelen)
                  /\ u.x = NewX(m, i, p.at, p.wirelen) /\ u.mem = NewMem(m, i)
<1>. DEFINE u == Perform(m, i, p)
<1>1. i \in InsnType /\ i.class # "stx"
  BY DEF Stmt
<1>2. p.len \in Word /\ p.wirelen \in Word /\ p.at \in Buffer(p.len) /\ p.len \in 0 .. p.len
  BY DEF PacketType, Buffer, Word
<1>3. /\ m.pc \in Nat /\ m.a \in Word /\ m.x \in Word /\ m.mem \in [Slot -> Word]
      /\ m.back \in 0 .. MaxBack /\ 0 \in Word /\ 0 \in Nat /\ 0 \in 0 .. MaxBack
  BY Sizes, BpfAssumption DEF Machine, Word
<1>4. CASE m.halted
  BY <1>4 DEF Perform
<1>5. CASE ~m.halted /\ Faults(m, i, MaxInsns, p.len)
  <2>1. u = Stop(m, 0)
    BY <1>5 DEF Perform
  <2>. HIDE DEF u
  <2>2. u \in Machine /\ u.mem = m.mem
    BY ONLY <1>3, <2>1 DEF Stop, Machine
  <2>. QED  BY <1>5, <2>2 DEF u
<1>6. CASE ~m.halted /\ ~Faults(m, i, MaxInsns, p.len)
  <2>. DEFINE a == NewA(m, i, p.at, p.wirelen)
              x == NewX(m, i, p.at, p.wirelen)
              mem == NewMem(m, i)
  <2>1. u = At(0, a, x, mem, 0)
    BY <1>6 DEF Perform
  <2>2. a \in Word /\ x \in Word /\ mem \in [Slot -> Word]
    BY <1>1, <1>2, <1>6, Effect
  <2>3. \A k \in Slot : (i.class # "st" \/ i.k # k) => mem[k] = m.mem[k]
    BY <1>1, <1>3 DEF NewMem
  <2>. HIDE DEF u, a, x, mem
  <2>4. u \in Machine /\ ~u.halted /\ u.a = a /\ u.x = x /\ u.mem = mem
    BY <1>3, <2>1, <2>2 DEF At, Machine
  <2>. QED  BY <1>6, <2>3, <2>4 DEF u, a, x, mem
<1>. QED  BY <1>4, <1>5, <1>6

LEMMA PerformNone ==
  ASSUME NEW m, NEW p
  PROVE  PerformAll(m, << >>, p) = m
<1>1. << >> \in Seq(Stmt) /\ Len(<< >>) = 0
  OBVIOUS
<1>2. Kept(<< >>) = << >>
  BY <1>1, KeptStmts
<1>3. Performed(m, << >>, p)[0] = m
  BY <1>1, PerformedUnfolds
<1>. QED  BY <1>1, <1>2, <1>3 DEF PerformAll

(* The first j statements of a list.                                       *)
LEMMA PerformSame ==
  ASSUME NEW m, NEW p, NEW s, NEW u, Len(s) \in Nat, Len(u) \in Nat,
         NEW l \in Nat, l <= Len(s), l <= Len(u), \A j \in 1 .. l : s[j] = u[j]
  PROVE  Performed(m, s, p)[l] = Performed(m, u, p)[l]
<1>. DEFINE q == Performed(m, s, p)
            r == Performed(m, u, p)
            S == {j \in Nat : j <= l => q[j] = r[j]}
<1>1. /\ q[0] = m /\ \A k \in 1 .. Len(s) : q[k] = Perform(q[k - 1], s[k], p)
      /\ r[0] = m /\ \A k \in 1 .. Len(u) : r[k] = Perform(r[k - 1], u[k], p)
  BY PerformedUnfolds
<1>. HIDE DEF q, r
<1>2. 0 \in S
  BY <1>1
<1>3. ASSUME NEW j \in Nat, j \in S PROVE j + 1 \in S
  <2>1. SUFFICES ASSUME j + 1 <= l PROVE q[j + 1] = r[j + 1]
    OBVIOUS
  <2>2. j + 1 \in 1 .. Len(s) /\ j + 1 \in 1 .. Len(u) /\ j + 1 \in 1 .. l /\ (j + 1) - 1 = j /\ j <= l
    BY <2>1
  <2>3. q[j] = r[j] /\ s[j + 1] = u[j + 1]
    BY <1>3, <2>2
  <2>. QED  BY <1>1, <2>2, <2>3
<1>. HIDE DEF S
<1>4. l \in S
  BY <1>2, <1>3, Induct
<1>. QED  BY <1>4 DEF S, q, r

LEMMA PerformLast ==
  ASSUME NEW m, NEW p, NEW s \in Seq(Stmt), NEW i \in Stmt
  PROVE  PerformAll(m, Append(s, i), p) = Perform(PerformAll(m, s, p), i, p)
<1>. DEFINE u == Append(s, i)
            l == Len(s)
<1>1. /\ u \in Seq(Stmt) /\ Len(u) = l + 1 /\ u[l + 1] = i /\ l \in Nat
      /\ \A j \in 1 .. l : s[j] = u[j]
  OBVIOUS
<1>2. Kept(s) = s /\ Kept(u) = u
  BY <1>1, KeptStmts
<1>. HIDE DEF u, l
<1>3. Performed(m, u, p)[l] = Performed(m, s, p)[l]
  BY <1>1, PerformSame DEF l
<1>4. Performed(m, u, p)[l + 1] = Perform(Performed(m, u, p)[(l + 1) - 1], u[l + 1], p)
  <2>1. Len(u) \in Nat /\ l + 1 \in 1 .. Len(u)
    BY <1>1
  <2>. QED  BY ONLY <2>1, PerformedUnfolds
<1>5. (l + 1) - 1 = l
  BY <1>1
<1>. QED  BY <1>1, <1>2, <1>3, <1>4, <1>5 DEF PerformAll, l, u

(* One list after the other.                                               *)
LEMMA PerformBoth ==
  ASSUME NEW m, NEW p, NEW s \in Seq(Stmt), NEW u \in Seq(Stmt)
  PROVE  PerformAll(m, s \o u, p) = PerformAll(PerformAll(m, s, p), u, p)
<1>. DEFINE l == Len(s)
            n == Len(u)
            w == s \o u
            t == PerformAll(m, s, p)
            q == Performed(m, w, p)
            r == Performed(t, u, p)
            S == {j \in Nat : j <= n => q[l + j] = r[j]}
<1>1. /\ w \in Seq(Stmt) /\ Len(w) = l + n /\ l \in Nat /\ n \in Nat
      /\ \A j \in 1 .. l : w[j] = s[j]
      /\ \A j \in 1 .. n : w[l + j] = u[j]
  OBVIOUS
<1>2. Kept(s) = s /\ Kept(u) = u /\ Kept(w) = w
  BY <1>1, KeptStmts
<1>. HIDE DEF w
<1>3. q[l] = t
  <2>1. Performed(m, w, p)[l] = Performed(m, s, p)[l]
    BY <1>1, PerformSame, SMTT(30)
  <2>. QED  BY <1>2, <2>1 DEF PerformAll
<1>. HIDE DEF t, l, n
<1>4. r[0] = t /\ \A k \in 1 .. n : r[k] = Perform(r[k - 1], u[k], p)
  BY <1>1, PerformedUnfolds DEF n
<1>5. \A k \in 1 .. l + n : q[k] = Perform(q[k - 1], w[k], p)
  <2>1. Len(w) \in Nat
    BY <1>1
  <2>. QED  BY <1>1, <2>1, PerformedUnfolds
<1>. HIDE DEF q, r
<1>6. 0 \in S
  BY <1>1, <1>3, <1>4
<1>7. ASSUME NEW j \in Nat, j \in S PROVE j + 1 \in S
  <2>1. SUFFICES ASSUME j + 1 <= n PROVE q[l + (j + 1)] = r[j + 1]
    OBVIOUS
  <2>2. j + 1 \in 1 .. n /\ (j + 1) - 1 = j /\ j <= n /\ l + (j + 1) \in 1 .. l + n
        /\ (l + (j + 1)) - 1 = l + j
    BY <1>1, <2>1
  <2>3. q[l + j] = r[j] /\ w[l + (j + 1)] = u[j + 1]
    BY <1>1, <1>7, <2>2
  <2>4. q[l + (j + 1)] = Perform(q[l + j], u[j + 1], p)
    BY <1>5, <2>2, <2>3
  <2>5. r[j + 1] = Perform(r[j], u[j + 1], p)
    BY <1>4, <2>2
  <2>. QED  BY <2>3, <2>4, <2>5
<1>. HIDE DEF S
<1>8. n \in S
  BY <1>1, <1>6, <1>7, Induct
<1>9. q[l + n] = r[n]
  BY <1>1, <1>8 DEF S
<1>10. PerformAll(m, w, p) = q[l + n] /\ PerformAll(t, u, p) = r[n]
  BY <1>1, <1>2 DEF PerformAll, q, r, n
<1>. QED  BY <1>9, <1>10 DEF w, t

(* Memory is changed only where a statement stores.                        *)
LEMMA Untouched ==
  ASSUME NEW m \in Machine, NEW s \in Seq(Stmt), NEW p, PacketType(p)
  PROVE  LET u == PerformAll(m, s, p)
         IN  u \in Machine /\ \A k \in Slot \ Stores(s) : u.mem[k] = m.mem[k]
<1>. DEFINE q == Performed(m, s, p)
            Good(u) == u \in Machine /\ \A k \in Slot \ Stores(s) : u.mem[k] = m.mem[k]
            S == {j \in Nat : j <= Len(s) => Good(q[j])}
<1>1. Kept(s) = s /\ Len(s) \in Nat /\ \A j \in 1 .. Len(s) : s[j] \in Stmt
  BY KeptStmts
<1>2. q[0] = m /\ \A k \in 1 .. Len(s) : q[k] = Perform(q[k - 1], s[k], p)
  BY <1>1, PerformedUnfolds
<1>. HIDE DEF q
<1>3. 0 \in S
  BY <1>2
<1>4. ASSUME NEW j \in Nat, j \in S PROVE j + 1 \in S
  <2>1. SUFFICES ASSUME j + 1 <= Len(s) PROVE Good(q[j + 1])
    OBVIOUS
  <2>2. j + 1 \in 1 .. Len(s) /\ (j + 1) - 1 = j /\ j <= Len(s)
    BY <1>1, <2>1
  <2>3. Good(q[j]) /\ q[j + 1] = Perform(q[j], s[j + 1], p) /\ s[j + 1] \in Stmt
    BY <1>1, <1>2, <1>4, <2>2
  <2>4. s[j + 1].class = "st" => s[j + 1].k \in Stores(s)
    BY <2>2 DEF Stores
  <2>5. q[j + 1] \in Machine
    BY <2>3, PerformOne
  <2>6. \A k \in Slot \ Stores(s) : q[j + 1].mem[k] = q[j].mem[k]
    BY <2>3, <2>4, PerformOne, SMTT(30)
  <2>. QED  BY <2>3, <2>5, <2>6
<1>. HIDE DEF S
<1>5. Len(s) \in S
  BY <1>1, <1>3, <1>4, Induct
<1>6. Good(q[Len(s)])
  BY <1>1, <1>5 DEF S
<1>. QED  BY <1>1, <1>6 DEF PerformAll, q

(* The machine runs, with these registers and memory.                      *)
Holding(u, a, x, mem) == u \in Machine /\ ~u.halted /\ u.a = a /\ u.x = x /\ u.mem = mem

LEMMA Small == 0 \in Byte /\ {0, 1, 2, 3} \subseteq Word /\ MemSlots \in Nat \ {0} /\ Slot \subseteq Word
<1>1. ByteBase \in Nat /\ ByteBase >= 2
  BY BpfAssumption
<1>2. ByteBase * ByteBase \in Nat /\ ByteBase * ByteBase >= 2 * ByteBase
  BY ONLY <1>1
<1>3. ByteBase * ByteBase >= 4
  BY ONLY <1>1, <1>2
<1>. DEFINE q == ByteBase * ByteBase
<1>4. W = q * ByteBase * ByteBase
  BY DEF W
<1>. HIDE DEF q
<1>5. q * ByteBase >= 4 * ByteBase /\ q * ByteBase \in Nat
  BY ONLY <1>1, <1>2, <1>3 DEF q
<1>6. q * ByteBase >= 8
  BY ONLY <1>1, <1>5
<1>7. q * ByteBase * ByteBase >= 8 * ByteBase
  BY ONLY <1>1, <1>5, <1>6
<1>8. W >= 16 /\ W \in Nat
  BY ONLY <1>1, <1>4, <1>7, Sizes
<1>9. {0, 1, 2, 3} \subseteq Word
  BY ONLY <1>8 DEF Word
<1>10. 0 \in Byte
  BY ONLY <1>1 DEF Byte
<1>11. MemSlots \in Nat \ {0} /\ MemSlots <= W
  BY BpfAssumption, ParserAssumption
<1>12. Slot \subseteq Word
  BY ONLY <1>8, <1>11 DEF Slot, Word
<1>. QED  BY <1>9, <1>10, <1>11, <1>12

(* The statements of the generator.                                        *)
LEMMA Statements1 ==
  /\ \A k \in Word : LdImm(k) \in Stmt /\ LdxMsh(k) \in Stmt
  /\ LdLen \in Stmt /\ Tax \in Stmt
  /\ \A k \in Slot : LdMem(k) \in Stmt /\ LdxMem(k) \in Stmt /\ St(k) \in Stmt
  /\ \A size \in {1, 2, 4}, k \in Word : LdAbs(size, k) \in Stmt /\ LdInd(size, k) \in Stmt
  /\ Alu("neg", "k", 0) \in Stmt
  /\ \A fn \in AluFn : Alu(fn, "x", 0) \in Stmt
  /\ \A k \in Word : Alu("and", "k", k) \in Stmt
  /\ \A k \in Word : k < WordBits => Alu("lsh", "k", k) \in Stmt
<1>. USE DEF Op, Stmt, ValidInsn, Known, UsesSlot, Divides, InsnType, OpClass, OpFn
<1>1. /\ 0 \in Byte /\ 0 \in Word /\ {1, 2, 4} \subseteq Nat /\ Slot \subseteq Word
      /\ \A k \in Slot : k < MemSlots
  BY Small DEF Slot
<1>2. \A k \in Word : LdImm(k) \in Stmt /\ LdxMsh(k) \in Stmt
  BY <1>1 DEF LdImm, LdxMsh
<1>3. LdLen \in Stmt /\ Tax \in Stmt
  BY <1>1 DEF LdLen, Tax
<1>4. \A k \in Slot : LdMem(k) \in Stmt /\ LdxMem(k) \in Stmt /\ St(k) \in Stmt
  BY <1>1 DEF LdMem, LdxMem, St
<1>5. \A size \in {1, 2, 4}, k \in Word : LdAbs(size, k) \in Stmt /\ LdInd(size, k) \in Stmt
  BY <1>1 DEF LdAbs, LdInd
<1>6. Alu("neg", "k", 0) \in Stmt
  BY <1>1 DEF Alu
<1>7. \A fn \in AluFn : Alu(fn, "x", 0) \in Stmt
  BY <1>1 DEF Alu
<1>8. \A k \in Word : Alu("and", "k", k) \in Stmt
  BY <1>1 DEF Alu, AluFn
<1>9. \A k \in Word : k < WordBits => Alu("lsh", "k", k) \in Stmt
  BY <1>1 DEF Alu, AluFn
<1>. QED  BY <1>2, <1>3, <1>4, <1>5, <1>6, <1>7, <1>8, <1>9

LEMMA DoesThis ==
  ASSUME NEW m, NEW a, NEW x, NEW mem, Holding(m, a, x, mem), NEW i \in Stmt, NEW p, PacketType(p),
         ~Faults(m, i, MaxInsns, p.len),
         NEW a2, NewA(m, i, p.at, p.wirelen) = a2, NEW x2, NewX(m, i, p.at, p.wirelen) = x2,
         NEW mem2, NewMem(m, i) = mem2
  PROVE  Holding(Perform(m, i, p), a2, x2, mem2)
  BY PerformOne DEF Holding

(* What each of them does.                                                 *)
LEMMA DoesLoad ==
  ASSUME NEW m, NEW a, NEW x, NEW mem, Holding(m, a, x, mem), NEW p, PacketType(p)
  PROVE  /\ \A k \in Word : Holding(Perform(m, LdImm(k), p), k, x, mem)
         /\ Holding(Perform(m, LdLen, p), p.wirelen, x, mem)
         /\ \A k \in Slot : Holding(Perform(m, LdMem(k), p), mem[k], x, mem)
         /\ \A k \in Slot : Holding(Perform(m, LdxMem(k), p), a, mem[k], mem)
         /\ \A k \in Slot : Holding(Perform(m, St(k), p), a, x, [mem EXCEPT ![k] = a])
         /\ Holding(Perform(m, Tax, p), a, a, mem)
         /\ Holding(Perform(m, Alu("neg", "k", 0), p), (0 - a) % W, x, mem)
         /\ Holding(Perform(m, Alu("add", "x", 0), p), (a + x) % W, x, mem)
<1>0. m.a = a /\ m.x = x /\ m.mem = mem
  BY DEF Holding
<1>1. ASSUME NEW k \in Word PROVE Holding(Perform(m, LdImm(k), p), k, x, mem)
  <2>1. LdImm(k) \in Stmt
    BY Statements1
  <2>2. ~Faults(m, LdImm(k), MaxInsns, p.len)
    BY <2>1 DEF LdImm, Op, Faults, Known, ReadsPacket, UsesSlot, Divides, Jumps
  <2>3. NewA(m, LdImm(k), p.at, p.wirelen) = k /\ NewX(m, LdImm(k), p.at, p.wirelen) = x
    BY <1>0 DEF LdImm, Op, NewA, NewX, Loaded, Computed, Operand
  <2>4. NewMem(m, LdImm(k)) = mem
    BY <1>0 DEF LdImm, Op, NewMem
  <2>. QED  BY <2>1, <2>2, <2>3, <2>4, DoesThis
<1>2. Holding(Perform(m, LdLen, p), p.wirelen, x, mem)
  <2>1. LdLen \in Stmt
    BY Statements1
  <2>2. ~Faults(m, LdLen, MaxInsns, p.len)
    BY <2>1 DEF LdLen, Op, Faults, Known, ReadsPacket, UsesSlot, Divides, Jumps
  <2>3. NewA(m, LdLen, p.at, p.wirelen) = p.wirelen /\ NewX(m, LdLen, p.at, p.wirelen) = x
    BY <1>0 DEF LdLen, Op, NewA, NewX, Loaded, Computed, Operand
  <2>4. NewMem(m, LdLen) = mem
    BY <1>0 DEF LdLen, Op, NewMem
  <2>. QED  BY <2>1, <2>2, <2>3, <2>4, DoesThis
<1>3. ASSUME NEW k \in Slot PROVE Holding(Perform(m, LdMem(k), p), mem[k], x, mem)
  <2>1. LdMem(k) \in Stmt /\ ~(k >= MemSlots)
    BY Statements1, Small DEF Slot
  <2>2. ~Faults(m, LdMem(k), MaxInsns, p.len)
    BY <2>1 DEF LdMem, Op, Faults, Known, ReadsPacket, UsesSlot, Divides, Jumps
  <2>3. NewA(m, LdMem(k), p.at, p.wirelen) = mem[k] /\ NewX(m, LdMem(k), p.at, p.wirelen) = x
    BY <1>0 DEF LdMem, Op, NewA, NewX, Loaded, Computed, Operand
  <2>4. NewMem(m, LdMem(k)) = mem
    BY <1>0 DEF LdMem, Op, NewMem
  <2>. QED  BY <2>1, <2>2, <2>3, <2>4, DoesThis
<1>4. ASSUME NEW k \in Slot PROVE Holding(Perform(m, LdxMem(k), p), a, mem[k], mem)
  <2>1. LdxMem(k) \in Stmt /\ ~(k >= MemSlots)
    BY Statements1, Small DEF Slot
  <2>2. ~Faults(m, LdxMem(k), MaxInsns, p.len)
    BY <2>1 DEF LdxMem, Op, Faults, Known, ReadsPacket, UsesSlot, Divides, Jumps
  <2>3. NewA(m, LdxMem(k), p.at, p.wirelen) = a /\ NewX(m, LdxMem(k), p.at, p.wirelen) = mem[k]
    BY <1>0 DEF LdxMem, Op, NewA, NewX, Loaded, Computed, Operand
  <2>4. NewMem(m, LdxMem(k)) = mem
    BY <1>0 DEF LdxMem, Op, NewMem
  <2>. QED  BY <2>1, <2>2, <2>3, <2>4, DoesThis
<1>5. ASSUME NEW k \in Slot PROVE Holding(Perform(m, St(k), p), a, x, [mem EXCEPT ![k] = a])
  <2>1. St(k) \in Stmt /\ ~(k >= MemSlots)
    BY Statements1, Small DEF Slot
  <2>2. ~Faults(m, St(k), MaxInsns, p.len)
    BY <2>1 DEF St, Op, Faults, Known, ReadsPacket, UsesSlot, Divides, Jumps
  <2>3. NewA(m, St(k), p.at, p.wirelen) = a /\ NewX(m, St(k), p.at, p.wirelen) = x
    BY <1>0 DEF St, Op, NewA, NewX, Loaded, Computed, Operand
  <2>4. NewMem(m, St(k)) = [mem EXCEPT ![k] = a]
    BY <1>0 DEF St, Op, NewMem
  <2>. QED  BY <2>1, <2>2, <2>3, <2>4, DoesThis
<1>6. Holding(Perform(m, Tax, p), a, a, mem)
  <2>1. Tax \in Stmt
    BY Statements1
  <2>2. ~Faults(m, Tax, MaxInsns, p.len)
    BY <2>1 DEF Tax, Op, Faults, Known, ReadsPacket, UsesSlot, Divides, Jumps
  <2>3. NewA(m, Tax, p.at, p.wirelen) = a /\ NewX(m, Tax, p.at, p.wirelen) = a
    BY <1>0 DEF Tax, Op, NewA, NewX, Loaded, Computed, Operand
  <2>4. NewMem(m, Tax) = mem
    BY <1>0 DEF Tax, Op, NewMem
  <2>. QED  BY <2>1, <2>2, <2>3, <2>4, DoesThis
<1>7. Holding(Perform(m, Alu("neg", "k", 0), p), (0 - a) % W, x, mem)
  <2>1. Alu("neg", "k", 0) \in Stmt
    BY Statements1 DEF AluFn
  <2>2. ~Faults(m, Alu("neg", "k", 0), MaxInsns, p.len)
    BY <2>1 DEF Alu, Op, Faults, Known, ReadsPacket, UsesSlot, Divides, Jumps, AluFn
  <2>3. NewA(m, Alu("neg", "k", 0), p.at, p.wirelen) = (0 - a) % W /\ NewX(m, Alu("neg", "k", 0), p.at, p.wirelen) = x
    BY <1>0 DEF Alu, Op, NewA, NewX, Loaded, Computed, Operand
  <2>4. NewMem(m, Alu("neg", "k", 0)) = mem
    BY <1>0 DEF Alu, Op, NewMem
  <2>. QED  BY <2>1, <2>2, <2>3, <2>4, DoesThis
<1>8. Holding(Perform(m, Alu("add", "x", 0), p), (a + x) % W, x, mem)
  <2>1. Alu("add", "x", 0) \in Stmt
    BY Statements1 DEF AluFn
  <2>2. ~Faults(m, Alu("add", "x", 0), MaxInsns, p.len)
    BY <2>1 DEF Alu, Op, Faults, Known, ReadsPacket, UsesSlot, Divides, Jumps, AluFn
  <2>3. NewA(m, Alu("add", "x", 0), p.at, p.wirelen) = (a + x) % W /\ NewX(m, Alu("add", "x", 0), p.at, p.wirelen) = x
    BY <1>0 DEF Alu, Op, NewA, NewX, Loaded, Computed, Operand
  <2>4. NewMem(m, Alu("add", "x", 0)) = mem
    BY <1>0 DEF Alu, Op, NewMem
  <2>. QED  BY <2>1, <2>2, <2>3, <2>4, DoesThis
<1>. QED  BY ONLY <1>1, <1>2, <1>3, <1>4, <1>5, <1>6, <1>7, <1>8

LEMMA HeaderLength ==
  ASSUME NEW b \in Byte
  PROVE  4 * (b % 16) \in Word
<1>1. ByteBase \in Nat /\ ByteBase >= 2 /\ b \in Nat /\ b <= ByteBase - 1
  BY BpfAssumption DEF Byte
<1>2. b % 16 \in 0 .. 15 /\ b % 16 <= b
  BY ONLY <1>1
<1>. DEFINE q == ByteBase * ByteBase * ByteBase
<1>3. q \in Nat /\ q >= 4
  <2>1. ByteBase * ByteBase \in Nat /\ ByteBase * ByteBase >= 2 * ByteBase
    BY ONLY <1>1
  <2>2. ByteBase * ByteBase >= 4
    BY ONLY <1>1, <2>1
  <2>. DEFINE r == ByteBase * ByteBase
  <2>. HIDE DEF r
  <2>3. r * ByteBase >= r * 1 /\ r * ByteBase \in Nat
    BY ONLY <1>1, <2>1 DEF r
  <2>4. r * ByteBase >= 4
    BY ONLY <2>1, <2>2, <2>3 DEF r
  <2>. QED  BY ONLY <2>3, <2>4 DEF r
<1>4. W = q * ByteBase
  BY DEF W
<1>. HIDE DEF q
<1>5. q * ByteBase >= 4 * ByteBase
  BY ONLY <1>1, <1>3
<1>6. 4 * (b % 16) < W /\ W \in Nat /\ 4 * (b % 16) \in Nat
  BY ONLY <1>1, <1>2, <1>4, <1>5, Sizes
<1>. QED  BY ONLY <1>6 DEF Word

LEMMA DoesAbs ==
  ASSUME NEW m, NEW a, NEW x, NEW mem, Holding(m, a, x, mem), NEW p, PacketType(p),
         NEW size \in {1, 2, 4}, NEW k \in Word, k + size <= p.len
  PROVE  Holding(Perform(m, LdAbs(size, k), p), Fetch(p.at, k, size), x, mem)
<1>0. m.a = a /\ m.x = x /\ m.mem = mem
  BY DEF Holding
<1>1. LdAbs(size, k) \in Stmt
  BY Statements1
<1>2. k \in Nat /\ size \in Nat /\ p.len \in Nat
  BY Sizes DEF PacketType, Word
<1>3. AbsInside(k, size, p.len)
  BY ONLY <1>2, k + size <= p.len DEF AbsInside
<1>4. ~Faults(m, LdAbs(size, k), MaxInsns, p.len)
  BY <1>3 DEF LdAbs, Op, Faults, Known, ReadsPacket, UsesSlot, Divides, Jumps, Inside, Width
<1>5. /\ NewA(m, LdAbs(size, k), p.at, p.wirelen) = Fetch(p.at, k, size)
      /\ NewX(m, LdAbs(size, k), p.at, p.wirelen) = x
  BY <1>0 DEF LdAbs, Op, NewA, NewX, Loaded, Offset
<1>6. NewMem(m, LdAbs(size, k)) = mem
  BY <1>0 DEF LdAbs, Op, NewMem
<1>. QED  BY <1>1, <1>4, <1>5, <1>6, DoesThis

LEMMA DoesInd ==
  ASSUME NEW m, NEW a, NEW x, NEW mem, Holding(m, a, x, mem), NEW p, PacketType(p),
         NEW size \in {1, 2, 4}, NEW k \in Word, k + x + size <= p.len
  PROVE  Holding(Perform(m, LdInd(size, k), p), Fetch(p.at, k + x, size), x, mem)
<1>0. m.a = a /\ m.x = x /\ m.mem = mem /\ x \in Word
  BY DEF Holding, Machine
<1>1. LdInd(size, k) \in Stmt
  BY Statements1
<1>2. k \in Nat /\ x \in Nat /\ size \in Nat /\ size >= 1 /\ p.len \in Nat /\ W \in Nat \ {0} /\ p.len < W
  BY <1>0, Sizes DEF PacketType, Word
<1>3. IndInside(x, k, size, p.len)
  BY ONLY <1>2, k + x + size <= p.len DEF IndInside
<1>4. (k + x) % W = k + x
  <2>1. k + x \in 0 .. W - 1
    BY ONLY <1>2, k + x + size <= p.len
  <2>. QED  BY ONLY <1>2, <2>1, NoWrap
<1>5. ~Faults(m, LdInd(size, k), MaxInsns, p.len)
  BY <1>0, <1>3 DEF LdInd, Op, Faults, Known, ReadsPacket, UsesSlot, Divides, Jumps, Inside
<1>6. /\ NewA(m, LdInd(size, k), p.at, p.wirelen) = Fetch(p.at, k + x, size)
      /\ NewX(m, LdInd(size, k), p.at, p.wirelen) = x
  BY <1>0, <1>4 DEF LdInd, Op, NewA, NewX, Loaded, Offset
<1>7. NewMem(m, LdInd(size, k)) = mem
  BY <1>0 DEF LdInd, Op, NewMem
<1>. QED  BY <1>1, <1>5, <1>6, <1>7, DoesThis

LEMMA DoesMsh ==
  ASSUME NEW m, NEW a, NEW x, NEW mem, Holding(m, a, x, mem), NEW p, PacketType(p),
         NEW k \in Word, k < p.len
  PROVE  Holding(Perform(m, LdxMsh(k), p), a, 4 * (p.at[k] % 16), mem)
<1>0. m.a = a /\ m.x = x /\ m.mem = mem
  BY DEF Holding
<1>1. LdxMsh(k) \in Stmt
  BY Statements1
<1>2. k \in Nat /\ p.len \in Nat
  BY Sizes DEF PacketType, Word
<1>3. AbsInside(k, 1, p.len)
  BY ONLY <1>2, k < p.len DEF AbsInside
<1>4. ~Faults(m, LdxMsh(k), MaxInsns, p.len)
  BY <1>3 DEF LdxMsh, Op, Faults, Known, ReadsPacket, UsesSlot, Divides, Jumps, Inside, Width
<1>5. (4 * (p.at[k] % 16)) % W = 4 * (p.at[k] % 16)
  <2>1. p.at[k] \in Byte
    BY <1>2 DEF PacketType
  <2>2. 4 * (p.at[k] % 16) \in Word
    BY <2>1, HeaderLength
  <2>. QED  BY ONLY <2>2, Sizes, NoWrap DEF Word
<1>6. /\ NewX(m, LdxMsh(k), p.at, p.wirelen) = 4 * (p.at[k] % 16)
      /\ NewA(m, LdxMsh(k), p.at, p.wirelen) = a
  <2>. DEFINE v == p.at[k] % 16
  <2>. HIDE DEF v
  <2>. QED  BY <1>0, <1>5 DEF LdxMsh, Op, NewA, NewX, Loaded, v
<1>7. NewMem(m, LdxMsh(k)) = mem
  BY <1>0 DEF LdxMsh, Op, NewMem
<1>. QED  BY <1>1, <1>4, <1>6, <1>7, DoesThis

LEMMA DoesAlu ==
  ASSUME NEW m, NEW a, NEW x, NEW mem, Holding(m, a, x, mem), NEW p, PacketType(p)
  PROVE  /\ \A fn \in AluFn : (fn \in {"div", "mod"} => x # 0) =>
              Holding(Perform(m, Alu(fn, "x", 0), p), Computed(fn, a, x), x, mem)
         /\ \A k \in Word : Holding(Perform(m, Alu("and", "k", k), p), BitAnd(a, k), x, mem)
         /\ \A k \in Word : k < WordBits =>
              Holding(Perform(m, Alu("lsh", "k", k), p), Shl(a, k), x, mem)
<1>0. m.a = a /\ m.x = x /\ m.mem = mem
  BY DEF Holding
<1>1. ASSUME NEW fn \in AluFn, fn \in {"div", "mod"} => x # 0
      PROVE  Holding(Perform(m, Alu(fn, "x", 0), p), Computed(fn, a, x), x, mem)
  <2>1. Alu(fn, "x", 0) \in Stmt
    BY Statements1
  <2>2. ~Faults(m, Alu(fn, "x", 0), MaxInsns, p.len)
    BY <1>0, <1>1 DEF Alu, Op, Faults, Known, ReadsPacket, UsesSlot, Divides, Jumps, Operand
  <2>3. /\ NewA(m, Alu(fn, "x", 0), p.at, p.wirelen) = Computed(fn, a, x)
        /\ NewX(m, Alu(fn, "x", 0), p.at, p.wirelen) = x
    BY <1>0 DEF Alu, Op, NewA, NewX, Operand
  <2>4. NewMem(m, Alu(fn, "x", 0)) = mem
    BY <1>0 DEF Alu, Op, NewMem
  <2>. QED  BY <2>1, <2>2, <2>3, <2>4, DoesThis
<1>2. ASSUME NEW k \in Word
      PROVE  Holding(Perform(m, Alu("and", "k", k), p), BitAnd(a, k), x, mem)
  <2>1. Alu("and", "k", k) \in Stmt
    BY Statements1
  <2>2. ~Faults(m, Alu("and", "k", k), MaxInsns, p.len)
    BY DEF Alu, Op, Faults, Known, ReadsPacket, UsesSlot, Divides, Jumps, AluFn
  <2>3. /\ NewA(m, Alu("and", "k", k), p.at, p.wirelen) = BitAnd(a, k)
        /\ NewX(m, Alu("and", "k", k), p.at, p.wirelen) = x
    BY <1>0 DEF Alu, Op, NewA, NewX, Operand, Computed
  <2>4. NewMem(m, Alu("and", "k", k)) = mem
    BY <1>0 DEF Alu, Op, NewMem
  <2>. QED  BY <2>1, <2>2, <2>3, <2>4, DoesThis
<1>3. ASSUME NEW k \in Word, k < WordBits
      PROVE  Holding(Perform(m, Alu("lsh", "k", k), p), Shl(a, k), x, mem)
  <2>1. Alu("lsh", "k", k) \in Stmt
    BY <1>3, Statements1
  <2>2. ~Faults(m, Alu("lsh", "k", k), MaxInsns, p.len)
    BY DEF Alu, Op, Faults, Known, ReadsPacket, UsesSlot, Divides, Jumps, AluFn
  <2>3. ~(k >= WordBits)
    BY <1>3, Sizes, BpfAssumption DEF Word
  <2>4. /\ NewA(m, Alu("lsh", "k", k), p.at, p.wirelen) = Shl(a, k)
        /\ NewX(m, Alu("lsh", "k", k), p.at, p.wirelen) = x
    BY <1>0, <2>3 DEF Alu, Op, NewA, NewX, Operand, Computed, Shifted
  <2>5. NewMem(m, Alu("lsh", "k", k)) = mem
    BY <1>0 DEF Alu, Op, NewMem
  <2>. QED  BY <2>1, <2>2, <2>4, <2>5, DoesThis
<1>. QED  BY ONLY <1>1, <1>2, <1>3

(* Where the statements of a list store.                                   *)
LEMMA StoresJoin ==
  ASSUME NEW s \in Seq(Stmt), NEW u \in Seq(Stmt)
  PROVE  s \o u \in Seq(Stmt) /\ Stores(s \o u) = Stores(s) \cup Stores(u)
<1>. DEFINE w == s \o u
            l == Len(s)
            n == Len(u)
<1>1. /\ w \in Seq(Stmt) /\ Len(w) = l + n /\ l \in Nat /\ n \in Nat
      /\ \A j \in 1 .. l : w[j] = s[j]
      /\ \A j \in 1 .. n : w[l + j] = u[j]
  OBVIOUS
<1>. HIDE DEF w, l, n
<1>2. ASSUME NEW k, k \in Stores(w) PROVE k \in Stores(s) \cup Stores(u)
  <2>1. PICK j \in 1 .. Len(w) : w[j].class = "st" /\ k = w[j].k
    BY <1>2 DEF Stores
  <2>2. CASE j <= l
    <3>1. j \in 1 .. l /\ w[j] = s[j]
      BY <1>1, <2>1, <2>2
    <3>. QED  BY <2>1, <3>1 DEF Stores, l
  <2>3. CASE ~(j <= l)
    <3>1. j - l \in 1 .. n /\ l + (j - l) = j
      BY <1>1, <2>1, <2>3
    <3>2. w[j] = u[j - l]
      BY <1>1, <3>1
    <3>. QED  BY <2>1, <3>1, <3>2 DEF Stores, n
  <2>. QED  BY <2>2, <2>3
<1>3. ASSUME NEW k, k \in Stores(s) PROVE k \in Stores(w)
  <2>1. PICK j \in 1 .. l : s[j].class = "st" /\ k = s[j].k
    BY <1>3 DEF Stores, l
  <2>2. j \in 1 .. Len(w) /\ w[j] = s[j]
    BY <1>1, <2>1
  <2>. QED  BY <2>1, <2>2 DEF Stores
<1>4. ASSUME NEW k, k \in Stores(u) PROVE k \in Stores(w)
  <2>1. PICK j \in 1 .. n : u[j].class = "st" /\ k = u[j].k
    BY <1>4 DEF Stores, n
  <2>2. l + j \in 1 .. Len(w) /\ w[l + j] = u[j]
    BY <1>1, <2>1
  <2>. QED  BY <2>1, <2>2 DEF Stores
<1>5. Stores(w) = Stores(s) \cup Stores(u)
  BY <1>2, <1>3, <1>4
<1>. QED  BY <1>1, <1>5 DEF w

StoresOf(i) == IF i.class = "st" THEN {i.k} ELSE {}

LEMMA StoresNone == Stores(<< >>) = {} /\ << >> \in Seq(Stmt)
<1>1. Len(<< >>) = 0 /\ << >> \in Seq(Stmt)
  OBVIOUS
<1>. QED  BY <1>1 DEF Stores

LEMMA StoresLast ==
  ASSUME NEW s \in Seq(Stmt), NEW i \in Stmt
  PROVE  Append(s, i) \in Seq(Stmt) /\ Stores(Append(s, i)) = Stores(s) \cup StoresOf(i)
<1>. DEFINE w == Append(s, i)
            l == Len(s)
<1>1. /\ w \in Seq(Stmt) /\ Len(w) = l + 1 /\ l \in Nat /\ w[l + 1] = i
      /\ \A j \in 1 .. l : w[j] = s[j]
  OBVIOUS
<1>. HIDE DEF w, l
<1>2. ASSUME NEW k, k \in Stores(w) PROVE k \in Stores(s) \cup StoresOf(i)
  <2>1. PICK j \in 1 .. Len(w) : w[j].class = "st" /\ k = w[j].k
    BY <1>2 DEF Stores
  <2>2. CASE j \in 1 .. l
    BY <1>1, <2>1, <2>2 DEF Stores, l
  <2>3. CASE j = l + 1
    BY <1>1, <2>1, <2>3 DEF StoresOf
  <2>. QED  BY <1>1, <2>1, <2>2, <2>3
<1>3. ASSUME NEW k, k \in Stores(s) PROVE k \in Stores(w)
  <2>1. PICK j \in 1 .. l : s[j].class = "st" /\ k = s[j].k
    BY <1>3 DEF Stores, l
  <2>2. j \in 1 .. Len(w) /\ w[j] = s[j]
    BY <1>1, <2>1
  <2>. QED  BY <2>1, <2>2 DEF Stores
<1>4. ASSUME NEW k, k \in StoresOf(i) PROVE k \in Stores(w)
  <2>1. l + 1 \in 1 .. Len(w)
    BY <1>1
  <2>. QED  BY <1>1, <1>4, <2>1 DEF Stores, StoresOf
<1>5. Stores(w) = Stores(s) \cup StoresOf(i)
  BY <1>2, <1>3, <1>4
<1>. QED  BY <1>1, <1>5 DEF w

LEMMA StoresOfAll ==
  /\ \A k : StoresOf(LdImm(k)) = {} /\ StoresOf(LdxMsh(k)) = {} /\ StoresOf(LdMem(k)) = {}
            /\ StoresOf(LdxMem(k)) = {} /\ StoresOf(St(k)) = {k}
  /\ StoresOf(LdLen) = {} /\ StoresOf(Tax) = {}
  /\ \A size, k : StoresOf(LdAbs(size, k)) = {} /\ StoresOf(LdInd(size, k)) = {}
  /\ \A fn, src, k : StoresOf(Alu(fn, src, k)) = {}
  BY DEF StoresOf, LdImm, LdxMsh, LdMem, LdxMem, St, LdLen, Tax, LdAbs, LdInd, Alu, Op

LEMMA ReadyHolds ==
  ASSUME NEW m, NEW lr, NEW v, Ready(m, lr, v)
  PROVE  Holding(m, m.a, m.x, m.mem) /\ m \in Machine /\ ~m.halted /\ m.mem \in [Slot -> Word]
         /\ m.a \in Word /\ m.x \in Word
  BY DEF Ready, Holding, Machine

(* The machine is as ready behind statements that leave the register.      *)
LEMMA ReadyAfter ==
  ASSUME NEW m, NEW lr \in Slot \cup {NoReg}, NEW v, Ready(m, lr, v), NEW p, PacketType(p),
         NEW s \in Seq(Stmt), lr \notin Stores(s), ~PerformAll(m, s, p).halted
  PROVE  Ready(PerformAll(m, s, p), lr, v)
<1>. DEFINE u == PerformAll(m, s, p)
<1>1. u \in Machine /\ \A k \in Slot \ Stores(s) : u.mem[k] = m.mem[k]
  BY Untouched DEF Ready
<1>2. lr # NoReg => u.mem[lr] = m.mem[lr]
  BY <1>1
<1>. QED  BY <1>1, <1>2 DEF Ready

-----------------------------------------------------------------------------
(***************************************************************************)
(* The blocks that can be reached, drawn as a flow graph (number_blks_r).  *)
(***************************************************************************)

LEMMA TailOf ==
  ASSUME NEW S, NEW s \in Seq(S), s # << >>
  PROVE  /\ Len(s) \in Nat \ {0} /\ Head(s) = s[1] /\ Tail(s) \in Seq(S) /\ Len(Tail(s)) = Len(s) - 1
         /\ \A j \in 1 .. Len(Tail(s)) : Tail(s)[j] = s[j + 1]
  OBVIOUS

(* A set of blocks that no exit leaves.                                    *)
ClosedUnder(blocks, K) ==
  /\ K \subseteq 1 .. Len(blocks)
  /\ \A c \in K : blocks[c].jt \in K \cup {Nil} /\ blocks[c].jf \in K \cup {Nil}

Searched(blocks, K, root, w) ==
  /\ w.seen \in Seq(K) /\ w.todo \in Seq(K \cup {Nil})
  /\ \A i, j \in 1 .. Len(w.seen) : w.seen[i] = w.seen[j] => i = j
  /\ \A c \in Ends(w.seen) : {blocks[c].jt, blocks[c].jf} \subseteq Ends(w.seen) \cup Ends(w.todo) \cup {Nil}
  /\ IF w.seen = << >> THEN w.todo = << root >> ELSE w.seen[1] = root

Steps(w, k) == w.todo = << >> \/ Len(w.todo) = 1 + 2 * Len(w.seen) - k

LEMMA EndsTail ==
  ASSUME NEW S, NEW s \in Seq(S), s # << >>
  PROVE  Ends(s) = {Head(s)} \cup Ends(Tail(s)) /\ Head(s) \in S
<1>1. /\ Len(s) \in Nat \ {0} /\ Head(s) = s[1] /\ Len(Tail(s)) = Len(s) - 1
      /\ \A j \in 1 .. Len(Tail(s)) : Tail(s)[j] = s[j + 1]
  BY TailOf
<1>2. \A x : x \in Ends(s) => x \in {Head(s)} \cup Ends(Tail(s))
  <2>1. ASSUME NEW i \in 1 .. Len(s), i # 1
        PROVE  s[i] \in Ends(Tail(s))
    <3>1. i - 1 \in 1 .. Len(Tail(s)) /\ (i - 1) + 1 = i
      BY <1>1, <2>1
    <3>2. Tail(s)[i - 1] = s[i]
      BY <1>1, <3>1
    <3>. QED  BY <3>1, <3>2 DEF Ends
  <2>. QED  BY <1>1, <2>1 DEF Ends
<1>3. \A x : x \in {Head(s)} \cup Ends(Tail(s)) => x \in Ends(s)
  <2>1. ASSUME NEW i \in 1 .. Len(Tail(s))
        PROVE  Tail(s)[i] \in Ends(s)
    <3>1. i + 1 \in 1 .. Len(s)
      BY <1>1
    <3>. QED  BY <1>1, <3>1 DEF Ends
  <2>2. Head(s) \in Ends(s)
    BY <1>1 DEF Ends
  <2>. QED  BY <2>1, <2>2 DEF Ends
<1>4. Head(s) \in S
  BY <1>1
<1>. QED  BY ONLY <1>2, <1>3, <1>4

LEMMA Two ==
  ASSUME NEW S, NEW x \in S, NEW y \in S
  PROVE  << x, y >> \in Seq(S) /\ Len(<< x, y >>) = 2 /\ Ends(<< x, y >>) = {x, y}
<1>1. << x, y >> \in Seq(S) /\ Len(<< x, y >>) = 2 /\ << x, y >>[1] = x /\ << x, y >>[2] = y
  OBVIOUS
<1>2. 1 .. 2 = {1, 2}
  OBVIOUS
<1>3. Ends(<< x, y >>) = {x, y}
  BY ONLY <1>1, <1>2 DEF Ends
<1>. QED  BY ONLY <1>1, <1>3

LEMMA AppendEnds ==
  ASSUME NEW S, NEW s \in Seq(S), NEW x \in S
  PROVE  /\ Append(s, x) \in Seq(S) /\ Len(Append(s, x)) = Len(s) + 1
         /\ \A i \in 1 .. Len(s) : Append(s, x)[i] = s[i]
         /\ Append(s, x)[Len(s) + 1] = x
         /\ Ends(Append(s, x)) = Ends(s) \cup {x} /\ Append(s, x) # << >>
<1>1. /\ Append(s, x) \in Seq(S) /\ Len(Append(s, x)) = Len(s) + 1
      /\ \A i \in 1 .. Len(s) : Append(s, x)[i] = s[i]
      /\ Append(s, x)[Len(s) + 1] = x /\ Len(s) \in Nat
  OBVIOUS
<1>2. \A i : i \in 1 .. Len(s) + 1 <=> i \in 1 .. Len(s) \/ i = Len(s) + 1
  BY <1>1
<1>. DEFINE t == Append(s, x)
            n == Len(s)
<1>3. Len(t) = n + 1 /\ (\A i \in 1 .. n : t[i] = s[i]) /\ t[n + 1] = x /\ n \in Nat
  BY <1>1
<1>4. \A i : i \in 1 .. n + 1 <=> i \in 1 .. n \/ i = n + 1
  BY <1>2
<1>. HIDE DEF t, n
<1>5. Ends(t) = {t[i] : i \in 1 .. n + 1} /\ Ends(s) = {s[i] : i \in 1 .. n}
  BY ONLY <1>3 DEF Ends, n
<1>6. \A z : z \in Ends(t) <=> z \in Ends(s) \cup {x}
  <2>1. \A z : z \in Ends(t) => z \in Ends(s) \cup {x}
    BY ONLY <1>3, <1>4, <1>5
  <2>2. \A z : z \in Ends(s) \cup {x} => z \in Ends(t)
    BY ONLY <1>3, <1>4, <1>5
  <2>. QED  BY ONLY <2>1, <2>2
<1>7. Ends(t) = Ends(s) \cup {x}
  BY ONLY <1>6
<1>8. t # << >>
  BY <1>3
<1>. QED  BY <1>1, <1>7, <1>8 DEF t, n

LEMMA VisitStep ==
  ASSUME NEW blocks \in Seq(Block), NEW K, ClosedUnder(blocks, K), NEW root \in K,
         NEW w, Searched(blocks, K, root, w), NEW k \in Nat, Steps(w, k)
  PROVE  Searched(blocks, K, root, Visit(blocks, w)) /\ Steps(Visit(blocks, w), k + 1)
<1>. DEFINE b == Head(w.todo)
            v == Visit(blocks, w)
            t == Tail(w.todo)
<1>1. /\ w.seen \in Seq(K) /\ w.todo \in Seq(K \cup {Nil}) /\ Len(w.seen) \in Nat /\ Len(w.todo) \in Nat
      /\ \A i, j \in 1 .. Len(w.seen) : w.seen[i] = w.seen[j] => i = j
      /\ \A c \in Ends(w.seen) : {blocks[c].jt, blocks[c].jf} \subseteq Ends(w.seen) \cup Ends(w.todo) \cup {Nil}
      /\ IF w.seen = << >> THEN w.todo = << root >> ELSE w.seen[1] = root
  BY EndsIn DEF Searched
<1>2. CASE w.todo = << >>
  <2>1. v = w
    BY <1>2 DEF Visit
  <2>. HIDE DEF v
  <2>. QED  BY <1>2, <2>1 DEF Steps, v
<1>3. CASE w.todo # << >> /\ (b = Nil \/ Contains(w.seen, b))
  <2>1. v = [w EXCEPT !.todo = t]
    BY <1>3 DEF Visit
  <2>2. v.seen = w.seen /\ v.todo = t
    <3>. HIDE DEF v, t
    <3>1. w.todo # << >>
      BY <1>3
    <3>. QED  BY <1>1, <2>1 DEF Searched
  <2>3. /\ t \in Seq(K \cup {Nil}) /\ Len(t) = Len(w.todo) - 1 /\ Len(w.todo) # 0
    BY <1>1, <1>3, TailOf
  <2>4. Ends(w.todo) = {b} \cup Ends(t)
    BY <1>1, <1>3, EndsTail
  <2>5. b = Nil \/ b \in Ends(w.seen)
    BY <1>3 DEF Contains, Ends
  <2>6. w.seen # << >>
    <3>1. ASSUME w.seen = << >>
          PROVE  FALSE
      <4>1. b = root /\ Len(w.seen) = 0
        BY <1>1, <3>1
      <4>2. root # Nil
        BY DEF ClosedUnder, Nil
      <4>3. ~Contains(w.seen, b)
        BY <4>1 DEF Contains
      <4>. QED  BY <1>3, <4>1, <4>2, <4>3
    <3>. QED  BY <3>1
  <2>. HIDE DEF v, t, b
  <2>7. Searched(blocks, K, root, v)
    BY ONLY <1>1, <2>2, <2>3, <2>4, <2>5, <2>6 DEF Searched
  <2>8. Steps(v, k + 1)
    <3>1. Len(w.todo) = 1 + 2 * Len(w.seen) - k
      BY <1>3 DEF Steps
    <3>2. Len(t) = 1 + 2 * Len(w.seen) - (k + 1)
      BY ONLY <1>1, <2>3, <3>1, k \in Nat
    <3>. QED  BY ONLY <2>2, <3>2 DEF Steps
  <2>. QED  BY <2>7, <2>8 DEF v
<1>4. CASE w.todo # << >> /\ b # Nil /\ ~Contains(w.seen, b)
  <2>. DEFINE x == blocks[b].jt
              y == blocks[b].jf
              s == Append(w.seen, b)
              u == << x, y >> \o t
  <2>1. v.seen = s /\ v.todo = u
    BY <1>4 DEF Visit
  <2>2. /\ t \in Seq(K \cup {Nil}) /\ Len(t) = Len(w.todo) - 1 /\ Len(w.todo) # 0
    BY <1>1, <1>4, TailOf
  <2>3. Ends(w.todo) = {b} \cup Ends(t) /\ b \in K \cup {Nil}
    BY <1>1, <1>4, EndsTail
  <2>4. b \in K /\ b \notin Ends(w.seen)
    BY <1>4, <2>3 DEF Contains, Ends
  <2>5. x \in K \cup {Nil} /\ y \in K \cup {Nil}
    BY <2>4 DEF ClosedUnder
  <2>. HIDE DEF v, t, b, x, y
  <2>6. /\ u \in Seq(K \cup {Nil}) /\ Len(u) = 2 + Len(t) /\ Ends(u) = {x, y} \cup Ends(t)
    <3>. DEFINE q == << x, y >>
    <3>1. q \in Seq(K \cup {Nil}) /\ Len(q) = 2 /\ Ends(q) = {x, y}
      BY <2>5, Two, ZenonT(30)
    <3>. HIDE DEF q
    <3>2. q \o t \in Seq(K \cup {Nil}) /\ Len(q \o t) = Len(q) + Len(t) /\ Ends(q \o t) = Ends(q) \cup Ends(t)
      <4>. DEFINE A == K \cup {Nil}
      <4>1. t \in Seq(A) /\ q \in Seq(A)
        BY <2>2, <3>1
      <4>. HIDE DEF A
      <4>2. q \o t \in Seq(A) /\ Len(q \o t) = Len(q) + Len(t) /\ Ends(q \o t) = Ends(q) \cup Ends(t)
        BY ONLY <4>1, Behind2
      <4>. QED  BY <4>2 DEF A
    <3>3. u = q \o t
      BY DEF q
    <3>. HIDE DEF u
    <3>. QED  BY ONLY <3>1, <3>2, <3>3
  <2>7. /\ s \in Seq(K) /\ Len(s) = Len(w.seen) + 1 /\ Ends(s) = Ends(w.seen) \cup {b} /\ s # << >>
        /\ \A i \in 1 .. Len(w.seen) : s[i] = w.seen[i]
        /\ s[Len(w.seen) + 1] = b
    BY <1>1, <2>4, AppendEnds
  <2>. HIDE DEF s, u
  <2>8. \A i, j \in 1 .. Len(s) : s[i] = s[j] => i = j
    <3>1. \A i \in 1 .. Len(w.seen) : w.seen[i] # b
      BY <2>4 DEF Ends
    <3>2. \A i \in 1 .. Len(s) : i \in 1 .. Len(w.seen) \/ i = Len(w.seen) + 1
      BY <1>1, <2>7
    <3>. QED  BY ONLY <1>1, <2>7, <3>1, <3>2
  <2>9. \A c \in Ends(s) : {blocks[c].jt, blocks[c].jf} \subseteq Ends(s) \cup Ends(u) \cup {Nil}
    <3>1. ASSUME NEW c \in Ends(w.seen)
          PROVE  {blocks[c].jt, blocks[c].jf} \subseteq Ends(s) \cup Ends(u) \cup {Nil}
      BY ONLY <1>1, <2>3, <2>6, <2>7, <3>1
    <3>2. {blocks[b].jt, blocks[b].jf} \subseteq Ends(s) \cup Ends(u) \cup {Nil}
      BY ONLY <2>6 DEF x, y
    <3>. QED  BY ONLY <2>7, <3>1, <3>2
  <2>10. s[1] = root
    <3>1. CASE w.seen = << >>
      <4>1. b = root /\ Len(w.seen) = 0
        BY <1>1, <3>1 DEF b
      <4>. QED  BY ONLY <2>7, <4>1
    <3>2. CASE w.seen # << >>
      <4>1. w.seen[1] = root /\ 1 \in 1 .. Len(w.seen)
        BY <1>1, <3>2
      <4>. QED  BY ONLY <2>7, <4>1
    <3>. QED  BY <3>1, <3>2
  <2>11. Searched(blocks, K, root, v)
    BY ONLY <2>1, <2>6, <2>7, <2>8, <2>9, <2>10 DEF Searched
  <2>12. Steps(v, k + 1)
    <3>1. Len(w.todo) = 1 + 2 * Len(w.seen) - k
      BY <1>4 DEF Steps
    <3>2. Len(u) = 1 + 2 * Len(s) - (k + 1)
      BY ONLY <1>1, <2>2, <2>6, <2>7, <3>1, k \in Nat
    <3>. QED  BY ONLY <2>1, <3>2 DEF Steps
  <2>. QED  BY <2>11, <2>12 DEF v
<1>. QED  BY <1>2, <1>3, <1>4

(* No more blocks are met than there are.                                  *)
LEMMA Distinct ==
  ASSUME NEW L \in Nat, NEW K, K \subseteq 1 .. L, NEW s \in Seq(K),
         \A i, j \in 1 .. Len(s) : s[i] = s[j] => i = j
  PROVE  Len(s) <= L
<1>. DEFINE l == Len(s)
            D == 1 .. l
            R == 1 .. L
            f == [i \in D |-> s[i]]
<1>1. l \in Nat /\ \A i \in D : s[i] \in R
  <2>1. l \in Nat /\ \A i \in D : s[i] \in K
    OBVIOUS
  <2>. QED  BY ONLY K \subseteq 1 .. L, <2>1
<1>2. IsFiniteSet(R) /\ Cardinality(R) = L
  <2>1. 1 \in Int /\ L \in Int /\ (IF 1 > L THEN 0 ELSE L - 1 + 1) = L
    OBVIOUS
  <2>. QED  BY ONLY <2>1, FS_Interval
<1>3. Cardinality(D) = l
  <2>1. 1 \in Int /\ l \in Int /\ (IF 1 > l THEN 0 ELSE l - 1 + 1) = l
    BY <1>1
  <2>. HIDE DEF l
  <2>. QED  BY ONLY <2>1, FS_Interval
<1>4. \A i, j \in D : s[i] = s[j] => i = j
  OBVIOUS
<1>. HIDE DEF D, R
<1>5. f \in Injection(D, R)
  BY ONLY <1>1, <1>4 DEF Injection, IsInjective
<1>. HIDE DEF f
<1>6. Cardinality(D) <= Cardinality(R)
  BY ONLY <1>2, <1>5, FS_Injection
<1>. QED  BY ONLY <1>2, <1>3, <1>6

(* What number_blks_r numbers.                                             *)
Numbering(blocks, K, root, ids) ==
  /\ ids \in Seq(K) /\ Len(ids) \in Nat \ {0} /\ ids[1] = root
  /\ \A i, j \in 1 .. Len(ids) : ids[i] = ids[j] => i = j
  /\ \A c \in Ends(ids) : {blocks[c].jt, blocks[c].jf} \subseteq Ends(ids) \cup {Nil}

LEMMA ReachRight ==
  ASSUME NEW blocks \in Seq(Block), NEW K, ClosedUnder(blocks, K), NEW root \in K
  PROVE  Numbering(blocks, K, root, Reach(blocks, root))
<1>. DEFINE L == Len(blocks)
            N == 2 * L + 1
            r == Visiting(blocks, root)
            Good(k) == k <= N => Searched(blocks, K, root, r[k]) /\ Steps(r[k], k)
            S == {k \in Nat : Good(k)}
<1>1. L \in Nat /\ N \in Nat /\ K \subseteq 1 .. L
  BY DEF ClosedUnder
<1>2. r[0] = [seen |-> << >>, todo |-> << root >>] /\ \A k \in 1 .. N : r[k] = Visit(blocks, r[k - 1])
  <2>. HIDE DEF r
  <2>. QED  BY <1>1, VisitingUnfolds DEF r
<1>. HIDE DEF r, N
<1>3. Good(0)
  <2>1. << root >> \in Seq(K \cup {Nil}) /\ Len(<< root >>) = 1 /\ << >> \in Seq(K) /\ Len(<< >>) = 0
    OBVIOUS
  <2>2. Ends(<< >>) = {}
    BY DEF Ends
  <2>3. r[0].seen = << >> /\ r[0].todo = << root >>
    BY <1>2
  <2>4. Searched(blocks, K, root, r[0])
    BY ONLY <2>1, <2>2, <2>3 DEF Searched
  <2>5. Steps(r[0], 0)
    BY ONLY <2>1, <2>3 DEF Steps
  <2>. QED  BY <2>4, <2>5
<1>4. ASSUME NEW k \in Nat, Good(k)
      PROVE  Good(k + 1)
  <2>. SUFFICES ASSUME k + 1 <= N
               PROVE  Searched(blocks, K, root, r[k + 1]) /\ Steps(r[k + 1], k + 1)
    OBVIOUS
  <2>1. k <= N /\ k + 1 \in 1 .. N /\ (k + 1) - 1 = k
    BY <1>1
  <2>2. Searched(blocks, K, root, r[k]) /\ Steps(r[k], k)
    BY <1>4, <2>1
  <2>3. r[k + 1] = Visit(blocks, r[k])
    BY <1>2, <2>1
  <2>4. Searched(blocks, K, root, Visit(blocks, r[k])) /\ Steps(Visit(blocks, r[k]), k + 1)
    BY <2>2, VisitStep
  <2>. QED  BY ONLY <2>3, <2>4
<1>. HIDE DEF Good
<1>5. 0 \in S /\ \A k \in Nat : k \in S => k + 1 \in S
  BY <1>3, <1>4
<1>. HIDE DEF S
<1>6. N \in S
  <2>1. Nat \subseteq S
    BY ONLY <1>5, Induct
  <2>. QED  BY <1>1, <2>1
<1>. DEFINE w == r[N]
<1>7. Searched(blocks, K, root, w) /\ Steps(w, N)
  BY <1>1, <1>6 DEF S, Good
<1>8. Reach(blocks, root) = w.seen
  BY DEF Reach, r, N
<1>. HIDE DEF w, L
<1>9. /\ w.seen \in Seq(K) /\ w.todo \in Seq(K \cup {Nil}) /\ Len(w.seen) \in Nat /\ Len(w.todo) \in Nat
      /\ \A i, j \in 1 .. Len(w.seen) : w.seen[i] = w.seen[j] => i = j
      /\ \A c \in Ends(w.seen) : {blocks[c].jt, blocks[c].jf} \subseteq Ends(w.seen) \cup Ends(w.todo) \cup {Nil}
      /\ IF w.seen = << >> THEN w.todo = << root >> ELSE w.seen[1] = root
  BY <1>7, EndsIn DEF Searched
<1>10. w.todo = << >>
  <2>1. Len(w.seen) <= L
    BY ONLY <1>1, <1>9, Distinct
  <2>2. Len(w.todo) = 1 + 2 * Len(w.seen) - N => Len(w.todo) = 0
    <3>. DEFINE x == Len(w.seen)
                y == Len(w.todo)
    <3>1. x \in Nat /\ y \in Nat /\ x <= L /\ L \in Nat /\ N = 2 * L + 1
      BY <1>1, <1>9, <2>1 DEF N
    <3>. HIDE DEF x, y
    <3>2. y = 1 + 2 * x - N => y = 0
      BY ONLY <3>1
    <3>. QED  BY <3>2 DEF x, y
  <2>3. \A s \in Seq(K \cup {Nil}) : Len(s) = 0 => s = << >>
    OBVIOUS
  <2>. QED  BY <1>7, <1>9, <2>2, <2>3 DEF Steps
<1>11. w.seen # << >>
  <2>1. << root >> # << >>
    OBVIOUS
  <2>. QED  BY <1>9, <1>10, <2>1
<1>12. Len(w.seen) \in Nat \ {0} /\ w.seen[1] = root
  BY <1>9, <1>11
<1>13. Ends(w.todo) = {}
  BY <1>10 DEF Ends
<1>14. \A c \in Ends(w.seen) : {blocks[c].jt, blocks[c].jf} \subseteq Ends(w.seen) \cup {Nil}
  BY ONLY <1>9, <1>13
<1>15. Numbering(blocks, K, root, w.seen)
  BY ONLY <1>9, <1>12, <1>14 DEF Numbering
<1>. QED  BY <1>8, <1>15

(* The number of a block.                                                  *)
NumberOf(ids, c) == IF c = Nil THEN None ELSE CHOOSE i \in 0 .. Len(ids) - 1 : ids[i + 1] = c

LEMMA NumberOfRight ==
  ASSUME NEW S, NEW ids \in Seq(S), \A i, j \in 1 .. Len(ids) : ids[i] = ids[j] => i = j, NEW c \in Ends(ids), c # Nil
  PROVE  /\ NumberOf(ids, c) \in 0 .. Len(ids) - 1 /\ ids[NumberOf(ids, c) + 1] = c
         /\ \A b \in 0 .. Len(ids) - 1 : ids[b + 1] = c => NumberOf(ids, c) = b
<1>. DEFINE n == Len(ids)
            z == CHOOSE i \in 0 .. n - 1 : ids[i + 1] = c
<1>1. n \in Nat
  OBVIOUS
<1>2. \E i \in 0 .. n - 1 : ids[i + 1] = c
  <2>1. PICK i \in 1 .. n : ids[i] = c
    BY DEF Ends
  <2>2. i - 1 \in 0 .. n - 1 /\ (i - 1) + 1 = i
    BY <1>1, <2>1
  <2>. QED  BY <2>1, <2>2
<1>3. z \in 0 .. n - 1 /\ ids[z + 1] = c
  BY <1>2
<1>4. NumberOf(ids, c) = z
  BY DEF NumberOf
<1>. HIDE DEF z
<1>5. ASSUME NEW b \in 0 .. n - 1, ids[b + 1] = c
      PROVE  z = b
  <2>1. b + 1 \in 1 .. n /\ z + 1 \in 1 .. n
    BY <1>1, <1>3
  <2>2. b + 1 = z + 1
    BY <1>3, <1>5, <2>1
  <2>. QED  BY <1>1, <1>3, <2>2
<1>. QED  BY <1>3, <1>4, <1>5

(* A graph whose blocks are those of ids.                                  *)
Drawn(blocks, ids, g) ==
  /\ g.n = Len(ids) /\ g.n \in Nat \ {0} /\ g.root = 0
  /\ g.succ \in [Edges(g) -> Blocks(g) \cup {None}]
  /\ \A b \in Blocks(g) :
       /\ g.stmts[b] = blocks[ids[b + 1]].stmts /\ g.br[b] = blocks[ids[b + 1]].br
       /\ JT(g, b) = NumberOf(ids, blocks[ids[b + 1]].jt)
       /\ JF(g, b) = NumberOf(ids, blocks[ids[b + 1]].jf)

LEMMA NumberOfTyped ==
  ASSUME NEW S, NEW ids \in Seq(S), \A i, j \in 1 .. Len(ids) : ids[i] = ids[j] => i = j, NEW c \in Ends(ids) \cup {Nil}
  PROVE  NumberOf(ids, c) \in (0 .. Len(ids) - 1) \cup {None}
<1>1. CASE c = Nil
  BY <1>1 DEF NumberOf
<1>2. CASE c # Nil
  BY <1>2, NumberOfRight
<1>. QED  BY <1>1, <1>2

LEMMA FlowShape ==
  ASSUME NEW blocks \in Seq(Block), NEW K, NEW root, Numbering(blocks, K, root, Reach(blocks, root))
  PROVE  Drawn(blocks, Reach(blocks, root), FlowGraph(blocks, root))
<1>. DEFINE ids == Reach(blocks, root)
            g == FlowGraph(blocks, root)
            n == Len(ids)
            F(e) == NumberOf(ids, IF e < n THEN blocks[ids[e + 1]].jt ELSE blocks[ids[e - n + 1]].jf)
<1>1. /\ ids \in Seq(K) /\ n \in Nat \ {0}
      /\ \A i, j \in 1 .. n : ids[i] = ids[j] => i = j
      /\ \A c \in Ends(ids) : {blocks[c].jt, blocks[c].jf} \subseteq Ends(ids) \cup {Nil}
  BY DEF Numbering
<1>2. g = [n |-> n, root |-> 0,
           stmts |-> [b \in 0 .. n - 1 |-> blocks[ids[b + 1]].stmts],
           br |-> [b \in 0 .. n - 1 |-> blocks[ids[b + 1]].br],
           succ |-> [e \in 0 .. 2 * n - 1 |-> F(e)]]
  BY DEF FlowGraph, NumberOf
<1>. HIDE DEF ids, g, n
<1>3. \A e \in 0 .. 2 * n - 1 : F(e) \in (0 .. n - 1) \cup {None}
  <2>. TAKE e \in 0 .. 2 * n - 1
  <2>. DEFINE c == IF e < n THEN ids[e + 1] ELSE ids[e - n + 1]
              t == IF e < n THEN blocks[ids[e + 1]].jt ELSE blocks[ids[e - n + 1]].jf
  <2>1. e < n => e + 1 \in 1 .. n
    BY <1>1
  <2>2. ~(e < n) => e - n + 1 \in 1 .. n
    BY <1>1
  <2>3. \A i \in 1 .. n : ids[i] \in Ends(ids)
    BY DEF Ends, n
  <2>4. t \in Ends(ids) \cup {Nil}
    BY <1>1, <2>1, <2>2, <2>3
  <2>. HIDE DEF t
  <2>5. NumberOf(ids, t) \in (0 .. n - 1) \cup {None}
    BY <1>1, <2>4, NumberOfTyped DEF n
  <2>. QED  BY <2>5 DEF t
<1>4. g.n = n /\ g.root = 0 /\ g.succ = [e \in 0 .. 2 * n - 1 |-> F(e)]
      /\ g.stmts = [b \in 0 .. n - 1 |-> blocks[ids[b + 1]].stmts]
      /\ g.br = [b \in 0 .. n - 1 |-> blocks[ids[b + 1]].br]
  <2>. HIDE DEF F
  <2>. QED  BY ONLY <1>2
<1>5. g.succ \in [Edges(g) -> Blocks(g) \cup {None}]
  <2>. HIDE DEF F
  <2>. QED  BY ONLY <1>3, <1>4 DEF Edges, Blocks
<1>6. ASSUME NEW b \in Blocks(g)
      PROVE  /\ g.stmts[b] = blocks[ids[b + 1]].stmts /\ g.br[b] = blocks[ids[b + 1]].br
             /\ JT(g, b) = NumberOf(ids, blocks[ids[b + 1]].jt)
             /\ JF(g, b) = NumberOf(ids, blocks[ids[b + 1]].jf)
  <2>1. b \in 0 .. n - 1
    BY <1>4 DEF Blocks
  <2>2. b \in 0 .. 2 * n - 1 /\ b + n \in 0 .. 2 * n - 1 /\ b < n /\ ~(b + n < n) /\ (b + n) - n + 1 = b + 1
    BY ONLY <1>1, <2>1
  <2>3. F(b) = NumberOf(ids, blocks[ids[b + 1]].jt) /\ F(b + n) = NumberOf(ids, blocks[ids[b + 1]].jf)
    BY ONLY <2>2
  <2>4. g.succ[b] = F(b) /\ g.succ[b + n] = F(b + n)
    <3>. HIDE DEF F
    <3>. QED  BY ONLY <1>4, <2>2
  <2>5. g.stmts[b] = blocks[ids[b + 1]].stmts /\ g.br[b] = blocks[ids[b + 1]].br
    BY ONLY <1>4, <2>1
  <2>. HIDE DEF F
  <2>. QED  BY ONLY <1>4, <2>3, <2>4, <2>5 DEF JT, JF
<1>. QED  BY <1>1, <1>4, <1>5, <1>6 DEF Drawn, ids, g, n

(* A graph whose blocks have ranks that grow along every edge.             *)
Ranked(g, r, N) ==
  /\ g.n \in Nat \ {0} /\ g.root \in Blocks(g)
  /\ g.succ \in [Edges(g) -> Blocks(g) \cup {None}]
  /\ N \in Nat /\ r \in [Blocks(g) -> 0 .. N]
  /\ \A b \in Blocks(g) :
       \/ JT(g, b) = None /\ JF(g, b) = None
       \/ /\ JT(g, b) \in Blocks(g) /\ JF(g, b) \in Blocks(g)
          /\ r[JT(g, b)] > r[b] /\ r[JF(g, b)] > r[b]

(* Of the blocks that are not in S, the highest leads into S.              *)
LEMMA OneMore ==
  ASSUME NEW g, NEW r, NEW N, Ranked(g, r, N), NEW S, S \subseteq Blocks(g), S # Blocks(g)
  PROVE  \E b \in Blocks(g) \ S : b \in Before(g, S)
<1>. DEFINE T == {N - r[b] : b \in Blocks(g) \ S}
<1>1. N \in Nat /\ r \in [Blocks(g) -> 0 .. N]
  BY DEF Ranked
<1>2. T \in SUBSET Nat /\ T # {}
  BY <1>1
<1>3. PICK x \in T : \A y \in T : x <= y
  <2>. HIDE DEF T
  <2>. QED  BY <1>2, LeastNat
<1>4. PICK b \in Blocks(g) \ S : x = N - r[b]
  BY <1>3
<1>5. \A c \in Blocks(g) \ S : r[c] <= r[b]
  <2>. TAKE c \in Blocks(g) \ S
  <2>1. N - r[c] \in T
    OBVIOUS
  <2>2. x <= N - r[c]
    <3>. HIDE DEF T
    <3>. QED  BY <1>3, <2>1
  <2>. QED  BY <1>1, <1>4, <2>2
<1>. HIDE DEF T
<1>6. \A c \in Successors(g, b) : c \in Blocks(g) /\ r[c] > r[b]
  <2>1. None \notin Blocks(g)
    BY DEF Ranked, Blocks, None
  <2>. QED  BY <1>4, <2>1 DEF Ranked, Successors
<1>7. Successors(g, b) \subseteq S
  <2>. SUFFICES ASSUME NEW c \in Successors(g, b), c \notin S
                PROVE  FALSE
    OBVIOUS
  <2>1. c \in Blocks(g) \ S /\ r[c] > r[b] /\ r[c] <= r[b]
    BY <1>5, <1>6
  <2>2. r[c] \in Int /\ r[b] \in Int
    BY <1>1, <1>4, <2>1
  <2>. QED  BY ONLY <2>1, <2>2
<1>. QED  BY <1>4, <1>7 DEF Before

LEMMA BlocksCounted ==
  ASSUME NEW n \in Nat
  PROVE  /\ IsFiniteSet(0 .. n - 1) /\ Cardinality(0 .. n - 1) = n
         /\ \A S : S \subseteq 0 .. n - 1 =>
              /\ IsFiniteSet(S) /\ Cardinality(S) \in Nat /\ Cardinality(S) <= n
              /\ \A U : U \subseteq S => Cardinality(U) <= Cardinality(S)
              /\ \A b : b \notin S => Cardinality(S \cup {b}) = Cardinality(S) + 1
<1>1. IsFiniteSet(0 .. n - 1) /\ Cardinality(0 .. n - 1) = n
  BY FS_Interval
<1>2. \A S : S \subseteq 0 .. n - 1 => IsFiniteSet(S) /\ Cardinality(S) \in Nat /\ Cardinality(S) <= n
  BY <1>1, FS_Subset, FS_CardinalityType, ZenonT(30)
<1>3. ASSUME NEW S, S \subseteq 0 .. n - 1
      PROVE  /\ \A U : U \subseteq S => Cardinality(U) <= Cardinality(S)
             /\ \A b : b \notin S => Cardinality(S \cup {b}) = Cardinality(S) + 1
  BY <1>2, <1>3, FS_Subset, FS_AddElement
<1>. QED  BY <1>1, <1>2, <1>3

(* So each time another block is known to end its paths.                   *)
LEMMA RankedEnds ==
  ASSUME NEW g, NEW r, NEW N, Ranked(g, r, N)
  PROVE  g.root \in Within(g)[g.n]
<1>. DEFINE n == g.n
            w == Within(g)
            All == 0 .. n - 1
            Good(k) == w[k] = All \/ Cardinality(w[k]) >= k + 1
            P == {k \in Nat : k <= n => w[k] \subseteq All /\ (k >= 1 => w[k - 1] \subseteq w[k]) /\ Good(k)}
<1>1. n \in Nat /\ n \in Nat \ {0} /\ Blocks(g) = All /\ g.root \in All
  BY DEF Ranked, Blocks
<1>2. w[0] = Before(g, {}) /\ \A k \in 1 .. n : w[k] = Before(g, w[k - 1])
  BY <1>1, WithinUnfolds
<1>3. \A S : Before(g, S) \subseteq All
  BY <1>1 DEF Before
<1>4. \A S, U : S \subseteq U => Before(g, S) \subseteq Before(g, U)
  BY DEF Before
<1>5. \A S : S \subseteq All /\ S # All => \E b \in All \ S : b \in Before(g, S)
  BY <1>1, OneMore
<1>6. Before(g, All) = All
  <2>1. None \notin Blocks(g) /\ \A b \in Blocks(g) : Successors(g, b) \subseteq Blocks(g)
    BY DEF Ranked, Blocks, None, Successors
  <2>. QED  BY <1>1, <2>1 DEF Before
<1>7. /\ Cardinality(All) = n
      /\ \A S : S \subseteq All =>
           /\ Cardinality(S) \in Nat /\ Cardinality(S) <= n
           /\ \A U : U \subseteq S => Cardinality(U) <= Cardinality(S)
           /\ \A b : b \notin S => Cardinality(S \cup {b}) = Cardinality(S) + 1
  BY <1>1, BlocksCounted
<1>8. 0 \in P
  <2>1. {} \subseteq All /\ {} # All
    BY <1>1
  <2>2. PICK b \in All : b \in w[0]
    BY <1>2, <1>5, <2>1
  <2>3. {} \cup {b} \subseteq w[0] /\ w[0] \subseteq All /\ Cardinality({}) \in Nat
    BY <1>2, <1>3, <1>7, <2>1, <2>2
  <2>4. Cardinality({} \cup {b}) <= Cardinality(w[0])
    BY <1>7, <2>3
  <2>5. Cardinality({} \cup {b}) = Cardinality({}) + 1
    BY <1>7, <2>1
  <2>6. Cardinality(w[0]) >= 1
    BY <1>7, <2>3, <2>4, <2>5
  <2>. QED  BY <2>3, <2>6
<1>9. ASSUME NEW k \in Nat, k \in P
      PROVE  k + 1 \in P
  <2>. SUFFICES ASSUME k + 1 <= n
                PROVE  w[k + 1] \subseteq All /\ w[k] \subseteq w[k + 1] /\ Good(k + 1)
    BY <1>1
  <2>1. k \in 0 .. n /\ k + 1 \in 1 .. n /\ k <= n
    BY <1>1
  <2>2. w[k] \subseteq All /\ Good(k) /\ (k >= 1 => w[k - 1] \subseteq w[k])
    BY <1>9, <2>1
  <2>3. w[k + 1] = Before(g, w[k])
    BY <1>2, <2>1
  <2>4. w[k] \subseteq w[k + 1]
    <3>1. CASE k = 0
      BY <3>1, <1>2, <1>4, <2>3
    <3>2. CASE k >= 1
      <4>1. k \in 1 .. n
        BY <3>2, <2>1
      <4>2. w[k] = Before(g, w[k - 1])
        BY <1>2, <4>1
      <4>. QED  BY <3>2, <4>2, <1>4, <2>2, <2>3
    <3>. QED  BY <3>1, <3>2
  <2>5. CASE w[k] = All
    BY <2>5, <1>6, <2>3, <2>4
  <2>6. CASE w[k] # All
    <3>1. PICK b \in All \ w[k] : b \in w[k + 1]
      BY <2>6, <1>5, <2>2, <2>3
    <3>2. w[k] \cup {b} \subseteq w[k + 1] /\ w[k + 1] \subseteq All
      BY <3>1, <2>3, <2>4, <1>3
    <3>3. Cardinality(w[k] \cup {b}) = Cardinality(w[k]) + 1
      BY <1>7, <2>2, <3>1
    <3>4. Cardinality(w[k] \cup {b}) <= Cardinality(w[k + 1])
      BY <1>7, <3>2
    <3>5. Cardinality(w[k]) >= k + 1 /\ Cardinality(w[k]) \in Nat /\ Cardinality(w[k + 1]) \in Nat
      BY <2>2, <2>6, <1>7, <3>2
    <3>6. Cardinality(w[k + 1]) >= (k + 1) + 1
      BY ONLY k \in Nat, <3>3, <3>4, <3>5
    <3>. QED  BY <2>4, <3>2, <3>6
  <2>. QED  BY <2>5, <2>6
<1>10. n \in P
  <2>. HIDE DEF P
  <2>. QED  BY <1>1, <1>8, <1>9, Induct
<1>11. w[n] \subseteq All /\ (w[n] = All \/ Cardinality(w[n]) >= n + 1)
  BY <1>1, <1>10
<1>12. Cardinality(w[n]) \in Nat /\ Cardinality(w[n]) <= n
  BY <1>7, <1>11
<1>13. w[n] = All
  BY ONLY <1>1, <1>11, <1>12
<1>. QED  BY <1>1, <1>13

(* The exits are all closed, and the paths along them end in "ret" blocks. *)
EndBlock(blk) ==
  /\ blk.jt = Nil /\ blk.jf = Nil
  /\ blk.br \in InsnType /\ Known(blk.br) /\ blk.br.class = "ret" /\ blk.br.src = "k"
TestBlock1(blocks, K, r, c) ==
  /\ blocks[c].br \in Test1
  /\ {blocks[c].jt, blocks[c].jf} \subseteq K
  /\ r[blocks[c].jt] > r[c] /\ r[blocks[c].jf] > r[c]
Finished(blocks, K, r, N) ==
  /\ ClosedUnder(blocks, K) /\ N \in Nat /\ r \in [K -> 0 .. N]
  /\ \A c \in K : /\ blocks[c].stmts \in Seq(Stmt)
                  /\ EndBlock(blocks[c]) \/ TestBlock1(blocks, K, r, c)

(* Block b of the graph is block ids[b + 1] of the generator.              *)
EdgesOf(blocks, K, ids, g, b) ==
  LET c == ids[b + 1]
  IN  /\ c \in K
      /\ blocks[c].jt = Nil => JT(g, b) = None
      /\ blocks[c].jf = Nil => JF(g, b) = None
      /\ blocks[c].jt # Nil => JT(g, b) \in Blocks(g) /\ ids[JT(g, b) + 1] = blocks[c].jt
      /\ blocks[c].jf # Nil => JF(g, b) \in Blocks(g) /\ ids[JF(g, b) + 1] = blocks[c].jf

LEMMA DrawnEdges ==
  ASSUME NEW blocks, NEW K, NEW root, NEW ids, Numbering(blocks, K, root, ids), NEW g, Drawn(blocks, ids, g),
         NEW b \in Blocks(g)
  PROVE  EdgesOf(blocks, K, ids, g, b)
<1>. DEFINE n == Len(ids)
            c == ids[b + 1]
<1>1. /\ ids \in Seq(K) /\ n \in Nat \ {0} /\ g.n = n
      /\ \A i, j \in 1 .. n : ids[i] = ids[j] => i = j
      /\ \A x \in Ends(ids) : {blocks[x].jt, blocks[x].jf} \subseteq Ends(ids) \cup {Nil}
      /\ JT(g, b) = NumberOf(ids, blocks[c].jt) /\ JF(g, b) = NumberOf(ids, blocks[c].jf)
  BY DEF Numbering, Drawn
<1>2. b + 1 \in 1 .. n /\ Blocks(g) = 0 .. n - 1
  BY <1>1 DEF Blocks
<1>3. c \in K /\ c \in Ends(ids)
  BY <1>1, <1>2 DEF Ends
<1>4. NumberOf(ids, Nil) = None
  BY DEF NumberOf
<1>5. ASSUME NEW x \in Ends(ids) \cup {Nil}, x # Nil
      PROVE  NumberOf(ids, x) \in 0 .. n - 1 /\ ids[NumberOf(ids, x) + 1] = x
  <2>1. x \in Ends(ids)
    BY <1>5
  <2>. QED  BY <1>1, <1>5, <2>1, NumberOfRight
<1>6. blocks[c].jt \in Ends(ids) \cup {Nil} /\ blocks[c].jf \in Ends(ids) \cup {Nil}
  BY <1>1, <1>3
<1>. HIDE DEF n
<1>. QED  BY <1>1, <1>2, <1>3, <1>4, <1>5, <1>6 DEF EdgesOf

LEMMA KnownBranch ==
  ASSUME NEW i \in Test1
  PROVE  i \in InsnType /\ Known(i) /\ i.class = "jmp" /\ i.fn \in CondFn
BY DEF Test1, ValidInsn

LEMMA StmtsAreSound ==
  ASSUME NEW s \in Seq(Stmt)
  PROVE  /\ Kept(s) \in Seq(InsnType)
         /\ \A j \in 1 .. Len(Kept(s)) : Kept(s)[j].class \notin {"jmp", "ret"}
<1>1. Kept(s) = s
  BY KeptStmts
<1>2. Stmt \subseteq InsnType
  BY DEF Stmt
<1>3. s \in Seq(InsnType)
  BY <1>2
<1>4. \A j \in 1 .. Len(s) : s[j] \in Stmt
  OBVIOUS
<1>5. \A i \in Stmt : i.class \notin {"jmp", "ret"}
  BY DEF Stmt
<1>. QED  BY ONLY <1>1, <1>3, <1>4, <1>5

LEMMA GraphIsSound ==
  ASSUME NEW blocks \in Seq(Block), NEW K, NEW r, NEW N, Finished(blocks, K, r, N),
         NEW root, NEW ids, Numbering(blocks, K, root, ids), NEW g, Drawn(blocks, ids, g)
  PROVE  Sound(g) /\ \E r2, N2 : Ranked(g, r2, N2)
<1>. DEFINE r2 == [b \in Blocks(g) |-> r[ids[b + 1]]]
<1>1. g.n \in Nat \ {0} /\ g.root = 0 /\ g.succ \in [Edges(g) -> Blocks(g) \cup {None}]
      /\ \A b \in Blocks(g) : g.stmts[b] = blocks[ids[b + 1]].stmts /\ g.br[b] = blocks[ids[b + 1]].br
  BY DEF Drawn
<1>2. g.root \in Blocks(g) /\ None \notin Blocks(g) /\ Nil \notin K
  <2>1. Nil \notin 1 .. Len(blocks)
    BY DEF Nil
  <2>2. K \subseteq 1 .. Len(blocks)
    BY DEF Finished, ClosedUnder
  <2>3. g.n \in Nat \ {0} /\ g.root = 0
    BY <1>1
  <2>4. g.root \in Blocks(g) /\ None \notin Blocks(g)
    BY ONLY <2>3 DEF Blocks, None
  <2>. QED  BY ONLY <2>1, <2>2, <2>4
<1>3. N \in Nat /\ r \in [K -> 0 .. N]
      /\ \A c \in K : blocks[c].stmts \in Seq(Stmt) /\ (EndBlock(blocks[c]) \/ TestBlock1(blocks, K, r, c))
  BY DEF Finished
<1>4. \A b \in Blocks(g) : EdgesOf(blocks, K, ids, g, b)
  BY DrawnEdges
<1>5. ASSUME NEW b \in Blocks(g)
      PROVE  /\ r2[b] \in 0 .. N
             /\ \/ JT(g, b) = None /\ JF(g, b) = None /\ EndBlock(blocks[ids[b + 1]])
                \/ /\ JT(g, b) \in Blocks(g) /\ JF(g, b) \in Blocks(g)
                   /\ r2[JT(g, b)] > r2[b] /\ r2[JF(g, b)] > r2[b] /\ blocks[ids[b + 1]].br \in Test1
  <2>. DEFINE c == ids[b + 1]
  <2>1. /\ c \in K
        /\ blocks[c].jt = Nil => JT(g, b) = None
        /\ blocks[c].jf = Nil => JF(g, b) = None
        /\ blocks[c].jt # Nil => JT(g, b) \in Blocks(g) /\ ids[JT(g, b) + 1] = blocks[c].jt
        /\ blocks[c].jf # Nil => JF(g, b) \in Blocks(g) /\ ids[JF(g, b) + 1] = blocks[c].jf
    BY <1>4 DEF EdgesOf
  <2>2. r2[b] = r[c] /\ r[c] \in 0 .. N
    BY <1>3, <2>1
  <2>3. CASE EndBlock(blocks[c])
    BY <2>1, <2>2, <2>3 DEF EndBlock
  <2>4. CASE TestBlock1(blocks, K, r, c)
    <3>1. /\ blocks[c].br \in Test1 /\ blocks[c].jt \in K /\ blocks[c].jf \in K
          /\ r[blocks[c].jt] > r[c] /\ r[blocks[c].jf] > r[c]
      BY <2>4 DEF TestBlock1
    <3>2. /\ JT(g, b) \in Blocks(g) /\ ids[JT(g, b) + 1] = blocks[c].jt
          /\ JF(g, b) \in Blocks(g) /\ ids[JF(g, b) + 1] = blocks[c].jf
      BY <1>2, <2>1, <3>1
    <3>. QED  BY <2>2, <3>1, <3>2
  <2>. QED  BY <1>3, <2>1, <2>3, <2>4
<1>6. r2 \in [Blocks(g) -> 0 .. N]
  BY <1>5
<1>7. Ranked(g, r2, N)
  <2>. HIDE DEF r2
  <2>. QED  BY <1>1, <1>2, <1>3, <1>5, <1>6 DEF Ranked
<1>8. g.root \in Within(g)[g.n]
  <2>. HIDE DEF r2
  <2>. QED  BY <1>7, RankedEnds
<1>9. ASSUME NEW b \in Blocks(g)
      PROVE  SoundBlock(g, b)
  <2>. DEFINE c == ids[b + 1]
  <2>1. c \in K /\ g.stmts[b] = blocks[c].stmts /\ g.br[b] = blocks[c].br /\ blocks[c].stmts \in Seq(Stmt)
    BY <1>1, <1>3, <1>4 DEF EdgesOf
  <2>2. /\ Kept(g.stmts[b]) \in Seq(InsnType)
        /\ \A j \in 1 .. Len(Kept(g.stmts[b])) : Kept(g.stmts[b])[j].class \notin {"jmp", "ret"}
    BY <2>1, StmtsAreSound
  <2>3. CASE JT(g, b) = None /\ JF(g, b) = None /\ EndBlock(blocks[c])
    BY <2>1, <2>2, <2>3 DEF EndBlock, SoundBlock, EndsRun
  <2>4. CASE JT(g, b) \in Blocks(g) /\ JF(g, b) \in Blocks(g) /\ blocks[c].br \in Test1
    <3>1. g.br[b] \in InsnType /\ Known(g.br[b]) /\ g.br[b].class = "jmp" /\ g.br[b].fn \in CondFn
      BY <2>1, <2>4, KnownBranch
    <3>2. JT(g, b) # None /\ JF(g, b) # None
      BY <1>2, <2>4
    <3>. QED  BY <2>2, <3>1, <3>2 DEF SoundBlock, EndsRun
  <2>. QED  BY <1>5, <2>3, <2>4
<1>. QED  BY <1>1, <1>2, <1>7, <1>8, <1>9 DEF Sound

(* The statements of the blocks do not matter to where their exits lead.   *)
LEMMA OpenedAlike ==
  ASSUME NEW old, NEW new, NEW b, NEW g, Opened(old, b, g),
         Len(old) \in Nat, Len(new) \in Nat, Len(new) >= Len(old),
         \A c \in g.K : /\ new[c].jt = old[c].jt /\ new[c].jf = old[c].jf
                        /\ new[c].sense = old[c].sense /\ new[c].head = old[c].head
                        /\ new[c].stmts \in Seq(Stmt) /\ new[c].br = old[c].br
  PROVE  Opened(new, b, g)
<1>1. g.K \subseteq 1 .. Len(old) /\ b \in g.K /\ \A c \in g.K : old[c].br \in Test1
  BY DEF Opened
<1>2. g.K \subseteq 1 .. Len(new)
  BY <1>1
<1>3. \A x \in g.K \X BOOLEAN : Exit(new, x) = Exit(old, x) /\ new[x[1]].sense = old[x[1]].sense
  BY DEF Exit
<1>4. ASSUME NEW T, LinkedList(old, g.K, T) PROVE LinkedList(new, g.K, T)
  <2>1. \A i \in 1 .. Len(T) : T[i] \in g.K \X BOOLEAN
    BY <1>4 DEF LinkedList
  <2>2. Len(T) \in Nat
    BY <1>4 DEF LinkedList
  <2>3. \A i \in 2 .. Len(T) : i \in 1 .. Len(T)
    BY <2>2
  <2>. QED  BY <1>3, <1>4, <2>1, <2>3, LinkedKept
<1>5. LinkedList(new, g.K, g.T) /\ LinkedList(new, g.K, g.F)
  BY <1>4 DEF Opened
<1>6. \A e \in (g.K \X BOOLEAN) \ (Ends(g.T) \cup Ends(g.F)) :
        Exit(new, e) \in g.K /\ g.r[Exit(new, e)] > g.r[e[1]]
  BY <1>3 DEF Opened
<1>. QED  BY <1>1, <1>2, <1>5, <1>6 DEF Opened

LEMMA ListAppended ==
  ASSUME NEW blocks \in Seq(Block), NEW T, ExitList(blocks, T), NEW x \in Block
  PROVE  ExitList(Append(blocks, x), T)
<1>. DEFINE new == Append(blocks, x)
            n == Len(blocks)
<1>1. n \in Nat /\ Len(new) = n + 1 /\ \A c \in 1 .. n : new[c] = blocks[c]
  OBVIOUS
<1>. HIDE DEF new
<1>2. T \in Seq(Exits(blocks)) /\ Exits(blocks) \subseteq Exits(new)
  BY <1>1 DEF ExitList, Exits
<1>3. T \in Seq(Exits(new))
  BY <1>2
<1>4. \A i \in 1 .. Len(T) : T[i] \in Exits(blocks)
  BY <1>2
<1>5. \A i \in 1 .. Len(T) : T[i][1] \in 1 .. n
  BY <1>4 DEF Exits
<1>6. \A i \in 1 .. Len(T) : new[T[i][1]] = blocks[T[i][1]] /\ Exit(new, T[i]) = Exit(blocks, T[i])
  BY <1>1, <1>5 DEF Exit
<1>. QED  BY <1>3, <1>6 DEF ExitList, new

(* The two "ret" blocks, and the exits that lead to them.                  *)
RetAt(k, id) == [stmts |-> << >>, br |-> Ret(k), jt |-> Nil, jf |-> Nil, sense |-> FALSE,
                 head |-> id, means |-> Uncertain]
WithYes(blocks, b) ==
  LET id == Len(blocks) + 1
  IN  Flip(Backpatch(Append(blocks, RetAt(Snaplen, id)), b, id), b)
WithNo(blocks, b) ==
  LET id == Len(blocks) + 1
  IN  Backpatch(Append(blocks, RetAt(0, id)), b, id)

LEMMA RetBlocks ==
  ASSUME NEW id \in Nat
  PROVE  /\ RetAt(Snaplen, id) \in Block /\ RetAt(0, id) \in Block
         /\ EndBlock(RetAt(Snaplen, id)) /\ EndBlock(RetAt(0, id))
         /\ RetAt(Snaplen, id).stmts \in Seq(Stmt) /\ RetAt(0, id).stmts \in Seq(Stmt)
         /\ RetAt(Snaplen, id).br.k = Snaplen /\ RetAt(0, id).br.k = 0
<1>1. Snaplen \in Word /\ 0 \in Word
  BY ParserAssumption, Small
<1>2. ASSUME NEW k \in Word
      PROVE  Ret(k) \in InsnType /\ Known(Ret(k)) /\ Ret(k).class = "ret" /\ Ret(k).src = "k" /\ Ret(k).k = k
  <2>1. 0 \in Byte
    BY Small
  <2>. QED  BY <1>2, <2>1 DEF Ret, Op, InsnType, OpClass, OpFn, Known
<1>3. << >> \in Seq(Stmt) /\ << >> \in Seq(InsnType)
  OBVIOUS
<1>4. ASSUME NEW k \in Word
      PROVE  /\ RetAt(k, id) \in Block /\ EndBlock(RetAt(k, id)) /\ RetAt(k, id).stmts \in Seq(Stmt)
             /\ RetAt(k, id).br.k = k
  <2>1. RetAt(k, id) \in Block
    BY <1>2, <1>3, <1>4 DEF RetAt, Block, Nil, Uncertain
  <2>2. /\ RetAt(k, id).br = Ret(k) /\ RetAt(k, id).jt = Nil /\ RetAt(k, id).jf = Nil
        /\ RetAt(k, id).stmts = << >>
    BY DEF RetAt
  <2>. QED  BY <1>2, <1>3, <1>4, <2>1, <2>2 DEF EndBlock
<1>. QED  BY <1>1, <1>4

(* One more block, a "ret", and the exits S lead to it.                    *)
Patched(old, new, S, k) ==
  LET id == Len(old) + 1
  IN  /\ new \in Seq(Block) /\ Len(new) = id
      /\ \A c \in 1 .. Len(old) : Alike(new[c], old[c])
      /\ new[id].stmts = << >> /\ new[id].br = Ret(k) /\ new[id].jt = Nil /\ new[id].jf = Nil
      /\ \A e \in Exits(old) : Exit(new, e) = IF e \in S THEN id ELSE Exit(old, e)

LEMMA PatchedWith ==
  ASSUME NEW blocks \in Seq(Block), NEW T, ExitList(blocks, T), Len(T) <= Len(blocks),
         NEW k, NEW id, id = Len(blocks) + 1, RetAt(k, id) \in Block
  PROVE  LET new == Backpatch(Append(blocks, RetAt(k, id)), T[1][1], id)
         IN  /\ Patched(blocks, new, Ends(T), k)
             /\ \A c \in 1 .. Len(blocks) : new[c].sense = blocks[c].sense
<1>. DEFINE n == Len(blocks)
            x == RetAt(k, id)
            A == Append(blocks, x)
            new == Backpatch(A, T[1][1], id)
<1>1. n \in Nat /\ id \in Nat /\ id = n + 1 /\ x \in Block
  OBVIOUS
<1>2. x.stmts = << >> /\ x.br = Ret(k) /\ x.jt = Nil /\ x.jf = Nil
  BY DEF RetAt
<1>. HIDE DEF x
<1>3. A \in Seq(Block) /\ Len(A) = id /\ A[id] = x /\ \A c \in 1 .. n : A[c] = blocks[c]
  BY <1>1
<1>4. ExitList(A, T)
  BY <1>1, ListAppended
<1>. HIDE DEF A
<1>5. Len(T) <= Len(A) /\ Len(T) \in Nat
  <2>1. Len(T) \in Nat
    BY DEF ExitList
  <2>. QED  BY <2>1, <1>1, <1>3
<1>6. Rewired(A, new, {T[i] : i \in 1 .. Len(T)}, id)
  BY <1>1, <1>3, <1>4, <1>5, BackpatchExits
<1>7. Rewired(A, new, Ends(T), id)
  BY <1>6 DEF Ends
<1>. HIDE DEF new
<1>8. /\ new \in Seq(Block) /\ Len(new) = id
      /\ \A c \in 1 .. id : Alike(new[c], A[c]) /\ new[c].sense = A[c].sense
      /\ \A e \in Exits(A) : Exit(new, e) = IF e \in Ends(T) THEN id ELSE Exit(A, e)
  BY <1>3, <1>7 DEF Rewired
<1>9. Ends(T) \subseteq Exits(blocks)
  <2>1. T \in Seq(Exits(blocks))
    BY DEF ExitList
  <2>. QED  BY <2>1, EndsIn
<1>10. \A e \in Exits(blocks) : e \in Exits(A) /\ Exit(A, e) = Exit(blocks, e)
  BY <1>1, <1>3 DEF Exits, Exit
<1>11. ASSUME NEW s \in BOOLEAN
       PROVE  Exit(new, << id, s >>) = Nil
  <2>1. << id, s >> \in Exits(A)
    BY <1>1, <1>3 DEF Exits
  <2>2. << id, s >> \notin Ends(T)
    <3>1. << id, s >> \notin Exits(blocks)
      BY <1>1 DEF Exits
    <3>. QED  BY <3>1, <1>9
  <2>3. Exit(A, << id, s >>) = Nil
    BY <1>2, <1>3 DEF Exit
  <2>. QED  BY <1>8, <2>1, <2>2, <2>3
<1>12. new[id].jt = Nil /\ new[id].jf = Nil
  BY <1>11 DEF Exit
<1>13. id \in 1 .. id /\ \A c \in 1 .. n : c \in 1 .. id
  BY <1>1
<1>14. new[id].stmts = << >> /\ new[id].br = Ret(k)
  BY <1>2, <1>3, <1>8, <1>13 DEF Alike
<1>15. \A c \in 1 .. n : Alike(new[c], blocks[c]) /\ new[c].sense = blocks[c].sense
  BY <1>3, <1>8, <1>13
<1>16. \A e \in Exits(blocks) : Exit(new, e) = IF e \in Ends(T) THEN id ELSE Exit(blocks, e)
  BY <1>8, <1>10
<1>17. Patched(blocks, new, Ends(T), k)
  <2>1. id = Len(blocks) + 1
    OBVIOUS
  <2>. QED  BY ONLY <2>1, <1>8, <1>12, <1>14, <1>15, <1>16 DEF Patched, n
<1>. QED  BY <1>15, <1>17 DEF new, A, x

LEMMA YesPatched ==
  ASSUME NEW blocks \in Seq(Block), NEW b, NEW g, Opened(blocks, b, g), g.N <= Len(blocks)
  PROVE  LET new == WithYes(blocks, b)
         IN  Patched(blocks, new, Ends(g.T), Snaplen) /\ ExitList(new, g.F)
<1>. DEFINE n == Len(blocks)
            id == n + 1
            B == Backpatch(Append(blocks, RetAt(Snaplen, id)), b, id)
            new == Flip(B, b)
<1>1. n \in Nat /\ id \in Nat
  OBVIOUS
<1>2. ExitList(blocks, g.T) /\ g.T[1][1] = b
  BY TrueList
<1>3. ExitList(Flip(blocks, b), g.F) /\ g.F[1][1] = b
  BY FalseList
<1>4. /\ b \in 1 .. n /\ Len(g.T) <= n /\ Ends(g.T) \cap Ends(g.F) = {} /\ g.K \subseteq 1 .. n
      /\ Ends(g.F) \subseteq g.K \X BOOLEAN
  <2>1. g.F \in Seq(g.K \X BOOLEAN)
    BY DEF Opened, LinkedList
  <2>2. Ends(g.F) \subseteq g.K \X BOOLEAN
    BY <2>1, EndsIn
  <2>3. Len(g.T) \in Nat /\ g.N \in Nat /\ Len(g.T) <= g.N
    BY DEF Opened, LinkedList
  <2>4. Len(g.T) <= n
    BY <1>1, <2>3
  <2>. QED  BY <2>2, <2>4 DEF Opened
<1>5. RetAt(Snaplen, id) \in Block
  BY <1>1, RetBlocks
<1>6. Patched(blocks, B, Ends(g.T), Snaplen) /\ \A c \in 1 .. n : B[c].sense = blocks[c].sense
  <2>. DEFINE i2 == id
  <2>1. i2 = Len(blocks) + 1 /\ RetAt(Snaplen, i2) \in Block /\ Len(g.T) <= Len(blocks)
    BY <1>4, <1>5
  <2>. HIDE DEF i2
  <2>2. LET z == Backpatch(Append(blocks, RetAt(Snaplen, i2)), g.T[1][1], i2)
        IN  /\ Patched(blocks, z, Ends(g.T), Snaplen)
            /\ \A c \in 1 .. Len(blocks) : z[c].sense = blocks[c].sense
    BY <1>2, <2>1, PatchedWith
  <2>. QED  BY <1>2, <2>2 DEF i2
<1>7. new = WithYes(blocks, b)
  BY DEF WithYes
<1>. HIDE DEF B
<1>8. /\ B \in Seq(Block) /\ Len(B) = id /\ \A c \in 1 .. n : Alike(B[c], blocks[c])
      /\ B[id].stmts = << >> /\ B[id].br = Ret(Snaplen) /\ B[id].jt = Nil /\ B[id].jf = Nil
      /\ \A e \in Exits(blocks) : Exit(B, e) = IF e \in Ends(g.T) THEN id ELSE Exit(blocks, e)
  BY <1>6 DEF Patched
<1>9. /\ new \in Seq(Block) /\ Len(new) = id
      /\ \A c \in 1 .. id : /\ Alike(new[c], B[c])
                            /\ new[c].sense = IF c = b THEN ~B[c].sense ELSE B[c].sense
      /\ \A e \in Exits(B) : Exit(new, e) = Exit(B, e)
  <2>1. b \in 1 .. Len(B)
    BY <1>1, <1>4, <1>8
  <2>. QED  BY <1>8, <2>1, FlipShape
<1>. HIDE DEF new
<1>10. \A e \in Exits(blocks) : e \in Exits(B)
  BY <1>1, <1>8 DEF Exits
<1>11. /\ << id, TRUE >> \in Exits(B) /\ << id, FALSE >> \in Exits(B)
       /\ id \in 1 .. id /\ \A c \in 1 .. n : c \in 1 .. id
  <2>1. Len(B) = id
    BY <1>8
  <2>2. id \in 1 .. id /\ \A c \in 1 .. n : c \in 1 .. id
    BY ONLY <1>1
  <2>. QED  BY ONLY <2>1, <2>2 DEF Exits
<1>12. new[id].jt = Nil /\ new[id].jf = Nil
  <2>1. Exit(new, << id, TRUE >>) = Exit(B, << id, TRUE >>) /\ Exit(new, << id, FALSE >>) = Exit(B, << id, FALSE >>)
    BY <1>9, <1>11
  <2>. QED  BY <1>8, <2>1 DEF Exit
<1>13. new[id].stmts = << >> /\ new[id].br = Ret(Snaplen)
  BY <1>8, <1>9, <1>11 DEF Alike
<1>14. \A c \in 1 .. n : Alike(new[c], blocks[c])
  BY <1>8, <1>9, <1>11 DEF Alike
<1>15. \A e \in Exits(blocks) : Exit(new, e) = IF e \in Ends(g.T) THEN id ELSE Exit(blocks, e)
  BY <1>8, <1>9, <1>10
<1>16. Patched(blocks, new, Ends(g.T), Snaplen)
  BY ONLY <1>9, <1>12, <1>13, <1>14, <1>15 DEF Patched, id, n
<1>17. ExitList(new, g.F)
  <2>. DEFINE C == Flip(blocks, b)
  <2>1. /\ C \in Seq(Block) /\ Len(C) = n
        /\ \A c \in 1 .. n : C[c].sense = IF c = b THEN ~blocks[c].sense ELSE blocks[c].sense
        /\ \A e \in Exits(blocks) : Exit(C, e) = Exit(blocks, e)
    BY <1>4, FlipShape
  <2>. HIDE DEF C
  <2>2. ExitList(C, g.F)
    BY <1>3 DEF C
  <2>3. \A e \in Ends(g.F) : e \in Exits(blocks) /\ e[1] \in 1 .. n /\ e \notin Ends(g.T)
    BY <1>4 DEF Exits
  <2>4. \A e \in Ends(g.F) : new[e[1]].sense = C[e[1]].sense /\ Exit(new, e) = Exit(C, e)
    BY <1>6, <1>9, <1>11, <1>15, <2>1, <2>3
  <2>5. g.F \in Seq(Exits(new))
    <3>1. g.F \in Seq(Exits(C)) /\ Exits(C) \subseteq Exits(new)
      BY <1>1, <1>9, <2>1, <2>2 DEF ExitList, Exits
    <3>. QED  BY <3>1
  <2>6. \A i \in 1 .. Len(g.F) : g.F[i] \in Ends(g.F)
    BY DEF Ends
  <2>. QED  BY <2>2, <2>4, <2>5, <2>6 DEF ExitList
<1>. QED  BY <1>7, <1>16, <1>17

ClosedBlocks(blocks, b) == WithNo(WithYes(blocks, b), b)

(* Every exit of the expression's block leads to one of the "ret" blocks.  *)
ExitsClosed(old, new, g) ==
  LET n == Len(old)
  IN  /\ new \in Seq(Block) /\ Len(new) = n + 2
      /\ \A c \in 1 .. n : Alike(new[c], old[c])
      /\ EndBlock(new[n + 1]) /\ new[n + 1].stmts = << >> /\ new[n + 1].br.k = Snaplen
      /\ EndBlock(new[n + 2]) /\ new[n + 2].stmts = << >> /\ new[n + 2].br.k = 0
      /\ \A e \in Exits(old) : Exit(new, e) = IF e \in Ends(g.T) THEN n + 1
                                             ELSE IF e \in Ends(g.F) THEN n + 2 ELSE Exit(old, e)

LEMMA ClosingRight ==
  ASSUME NEW blocks \in Seq(Block), NEW b, NEW g, Opened(blocks, b, g), g.N <= Len(blocks)
  PROVE  ExitsClosed(blocks, ClosedBlocks(blocks, b), g)
<1>. DEFINE n == Len(blocks)
            one == n + 1
            two == n + 2
            C == WithYes(blocks, b)
            E == WithNo(C, b)
<1>1. n \in Nat /\ one \in Nat /\ two \in Nat /\ two = one + 1
  OBVIOUS
<1>2. Patched(blocks, C, Ends(g.T), Snaplen) /\ ExitList(C, g.F)
  BY YesPatched
<1>. HIDE DEF C
<1>3. /\ C \in Seq(Block) /\ Len(C) = one
      /\ \A c \in 1 .. n : Alike(C[c], blocks[c])
      /\ C[one].stmts = << >> /\ C[one].br = Ret(Snaplen) /\ C[one].jt = Nil /\ C[one].jf = Nil
      /\ \A e \in Exits(blocks) : Exit(C, e) = IF e \in Ends(g.T) THEN one ELSE Exit(blocks, e)
  BY <1>2 DEF Patched
<1>4. g.F[1][1] = b /\ Len(g.F) <= Len(C) /\ Ends(g.F) \subseteq g.K \X BOOLEAN /\ g.K \subseteq 1 .. n
      /\ Ends(g.T) \cap Ends(g.F) = {}
  <2>1. g.F \in Seq(g.K \X BOOLEAN) /\ Len(g.F) <= g.N /\ g.N \in Nat /\ g.F[1] = << b, blocks[b].sense >>
    BY DEF Opened, LinkedList
  <2>2. Ends(g.F) \subseteq g.K \X BOOLEAN /\ Len(g.F) \in Nat
    BY <2>1, EndsIn
  <2>3. Len(g.F) <= Len(C)
    BY <1>1, <1>3, <2>1, <2>2
  <2>. QED  BY <2>1, <2>2, <2>3 DEF Opened
<1>5. RetAt(0, two) \in Block
  BY <1>1, RetBlocks
<1>6. Patched(C, E, Ends(g.F), 0)
  <2>. DEFINE i2 == two
  <2>1. i2 = Len(C) + 1 /\ RetAt(0, i2) \in Block /\ Len(C) + 1 = two
    BY <1>1, <1>3, <1>5
  <2>. HIDE DEF i2
  <2>2. LET z == Backpatch(Append(C, RetAt(0, i2)), g.F[1][1], i2)
        IN  /\ Patched(C, z, Ends(g.F), 0)
            /\ \A c \in 1 .. Len(C) : z[c].sense = C[c].sense
    BY <1>2, <1>3, <1>4, <2>1, PatchedWith
  <2>3. E = Backpatch(Append(C, RetAt(0, i2)), g.F[1][1], i2)
    BY <1>4, <2>1 DEF WithNo
  <2>. QED  BY <2>2, <2>3
<1>. HIDE DEF E
<1>7. /\ E \in Seq(Block) /\ Len(E) = Len(C) + 1
      /\ \A c \in 1 .. Len(C) : Alike(E[c], C[c])
      /\ E[Len(C) + 1].stmts = << >> /\ E[Len(C) + 1].br = Ret(0)
      /\ E[Len(C) + 1].jt = Nil /\ E[Len(C) + 1].jf = Nil
      /\ \A e \in Exits(C) : Exit(E, e) = IF e \in Ends(g.F) THEN Len(C) + 1 ELSE Exit(C, e)
  BY <1>6 DEF Patched
<1>8. Len(C) + 1 = two /\ Len(C) = one
  BY <1>1, <1>3
<1>9. /\ \A c \in 1 .. n : c \in 1 .. one
      /\ one \in 1 .. one
      /\ \A e \in Exits(blocks) : e \in Exits(C)
      /\ << one, TRUE >> \in Exits(C) /\ << one, FALSE >> \in Exits(C)
      /\ << one, TRUE >> \notin Exits(blocks) /\ << one, FALSE >> \notin Exits(blocks)
      /\ Ends(g.F) \subseteq Exits(blocks)
  <2>1. \A c \in 1 .. n : c \in 1 .. one
    BY ONLY <1>1
  <2>2. one \in 1 .. one /\ one \notin 1 .. n
    BY ONLY <1>1
  <2>3. Exits(C) = (1 .. one) \X BOOLEAN /\ Exits(blocks) = (1 .. n) \X BOOLEAN
    BY <1>8 DEF Exits
  <2>. HIDE DEF one, n
  <2>. QED  BY ONLY <2>1, <2>2, <2>3, <1>4
<1>10. \A c \in 1 .. n : Alike(E[c], blocks[c])
  BY ONLY <1>3, <1>7, <1>8, <1>9 DEF Alike
<1>11. E[one].stmts = << >> /\ E[one].br = Ret(Snaplen)
  BY ONLY <1>3, <1>7, <1>8, <1>9 DEF Alike
<1>12. E[one].jt = Nil /\ E[one].jf = Nil
  <2>1. Exit(E, << one, TRUE >>) = Exit(C, << one, TRUE >>) /\ Exit(E, << one, FALSE >>) = Exit(C, << one, FALSE >>)
    BY ONLY <1>7, <1>9
  <2>. QED  BY ONLY <1>3, <2>1 DEF Exit
<1>13. \A e \in Exits(blocks) : Exit(E, e) = IF e \in Ends(g.T) THEN one
                                            ELSE IF e \in Ends(g.F) THEN two ELSE Exit(blocks, e)
  BY ONLY <1>3, <1>4, <1>7, <1>8, <1>9
<1>14. E[two].stmts = << >> /\ E[two].br = Ret(0) /\ E[two].jt = Nil /\ E[two].jf = Nil
  BY ONLY <1>7, <1>8
<1>15. ASSUME NEW k \in Nat, NEW y, y = Snaplen \/ y = 0, NEW x, x.br = Ret(y), x.jt = Nil, x.jf = Nil
       PROVE  EndBlock(x) /\ x.br.k = y
  <2>1. /\ EndBlock(RetAt(Snaplen, 0)) /\ RetAt(Snaplen, 0).br.k = Snaplen
        /\ EndBlock(RetAt(0, 0)) /\ RetAt(0, 0).br.k = 0
    BY RetBlocks
  <2>2. RetAt(y, 0).br = Ret(y) /\ RetAt(y, 0).jt = Nil /\ RetAt(y, 0).jf = Nil
    BY DEF RetAt
  <2>. QED  BY <1>15, <2>1, <2>2 DEF EndBlock
<1>16. EndBlock(E[one]) /\ E[one].br.k = Snaplen /\ EndBlock(E[two]) /\ E[two].br.k = 0
  BY <1>1, <1>11, <1>12, <1>14, <1>15
<1>17. E \in Seq(Block) /\ Len(E) = two
  BY ONLY <1>7, <1>8
<1>. QED  BY <1>10, <1>11, <1>13, <1>14, <1>16, <1>17 DEF ExitsClosed, ClosedBlocks, C, E

-----------------------------------------------------------------------------
(***************************************************************************)
(* The end of the parse: the prefix's length and the "ret" blocks          *)
(* (finish_parse).                                                         *)
(***************************************************************************)

(* The code generator's state.                                             *)
CsType == [blocks : Seq(Block), used : SUBSET Slot, cur : Slot, failed : BOOLEAN,
           prefixed : BOOLEAN, linkreg : Slot \cup {NoReg}]

LEMMA AllOnesWord == AllOnes \in Word
<1>1. W \in Nat \ {0}
  BY Sizes
<1>. QED  BY ONLY <1>1 DEF AllOnes, Word

LEMMA SevenStmts ==
  ASSUME NEW s \in Seq(Stmt), Len(s) = 7, NEW x, NEW p
  PROVE  PerformAll(x, s, p) =
           Perform(Perform(Perform(Perform(Perform(Perform(Perform(x, s[1], p), s[2], p), s[3], p), s[4], p),
                                           s[5], p), s[6], p), s[7], p)
<1>. DEFINE r == Performed(x, s, p)
<1>1. PerformAll(x, s, p) = r[7]
  BY KeptStmts DEF PerformAll
<1>2. r[0] = x /\ \A k \in 1 .. Len(s) : r[k] = Perform(r[k - 1], s[k], p)
  <2>1. Len(s) \in Nat
    OBVIOUS
  <2>. HIDE DEF r
  <2>2. LET z == Performed(x, s, p)
        IN  z[0] = x /\ \A k \in 1 .. Len(s) : z[k] = Perform(z[k - 1], s[k], p)
    BY ONLY <2>1, PerformedUnfolds
  <2>. QED  BY <2>2 DEF r
<1>. HIDE DEF r
<1>3. r[1] = Perform(r[0], s[1], p) /\ r[2] = Perform(r[1], s[2], p) /\ r[3] = Perform(r[2], s[3], p)
      /\ r[4] = Perform(r[3], s[4], p) /\ r[5] = Perform(r[4], s[5], p) /\ r[6] = Perform(r[5], s[6], p)
      /\ r[7] = Perform(r[6], s[7], p)
  BY <1>2
<1>. QED  BY ONLY <1>1, <1>2, <1>3

LEMMA PrefixStmts ==
  ASSUME NEW reg \in Slot
  PROVE  /\ {LdAbs(1, 3), Alu("lsh", "k", WordBits \div 4), Tax, LdAbs(1, 2), Alu("or", "x", 0),
             St(reg)} \subseteq Stmt
         /\ WordBits \div 4 \in Word /\ WordBits \div 4 < WordBits
<1>1. WordBits \in Nat \ {0} /\ WordBits \in Word
  BY BpfAssumption, ParserAssumption
<1>2. WordBits \div 4 \in Nat /\ WordBits \div 4 < WordBits
  BY <1>1
<1>3. WordBits \div 4 \in Word
  BY <1>1, <1>2, AllOnesWord DEF Word, AllOnes
<1>4. 3 \in Word /\ 2 \in Word
  BY Small
<1>. QED  BY <1>2, <1>3, <1>4, Statements1 DEF AluFn

(* The length of the prefix is in its register when the code is run.       *)
LEMMA PrefixDoes ==
  ASSUME NEW reg \in Slot, NEW q, PacketType(q), HasPrefix(q), NEW m, Ready(m, NoReg, 0)
  PROVE  /\ PrefixLength(reg) \in Seq(Stmt)
         /\ Ready(PerformAll(m, PrefixLength(reg), q), reg, q.at[2] + ByteBase * q.at[3])
<1>. DEFINE i1 == LdAbs(1, 3)
            i2 == Alu("lsh", "k", WordBits \div 4)
            i3 == Tax
            i4 == LdAbs(1, 2)
            i5 == Alu("or", "x", 0)
            i6 == St(reg)
            u1 == Perform(m, i1, q)
            u2 == Perform(u1, i2, q)
            u3 == Perform(u2, i3, q)
            u4 == Perform(u3, i4, q)
            u5 == Perform(u4, i5, q)
            u6 == Perform(u5, i6, q)
            u7 == Perform(u6, i3, q)
            v == q.at[2] + ByteBase * q.at[3]
<1>1. WordBits \div 4 \in Word /\ WordBits \div 4 < WordBits
  BY PrefixStmts
<1>2. PrefixLength(reg) \in Seq(Stmt) /\ PerformAll(m, PrefixLength(reg), q) = u7
  <2>1. PrefixLength(reg) = << i1, i2, i3, i4, i5, i6, i3 >>
    BY DEF PrefixLength
  <2>2. i1 \in Stmt /\ i2 \in Stmt /\ i3 \in Stmt /\ i4 \in Stmt /\ i5 \in Stmt /\ i6 \in Stmt
    BY PrefixStmts
  <2>. HIDE DEF i1, i2, i3, i4, i5, i6
  <2>. DEFINE s == << i1, i2, i3, i4, i5, i6, i3 >>
  <2>3. /\ s \in Seq(Stmt) /\ Len(s) = 7
        /\ s[1] = i1 /\ s[2] = i2 /\ s[3] = i3 /\ s[4] = i4 /\ s[5] = i5 /\ s[6] = i6 /\ s[7] = i3
    BY ONLY <2>2
  <2>. HIDE DEF s
  <2>4. PerformAll(m, s, q) = u7
    BY ONLY <2>3, SevenStmts DEF u1, u2, u3, u4, u5, u6, u7
  <2>. QED  BY ONLY <2>1, <2>3, <2>4 DEF s
<1>3. Holding(m, m.a, m.x, m.mem) /\ m.mem \in [Slot -> Word]
  BY ReadyHolds
<1>4. q.len \in Nat /\ q.len >= 4 /\ q.at[2] \in Byte /\ q.at[3] \in Byte
  <2>1. q.len \in Nat /\ q.len >= 4 /\ q.at \in [0 .. q.len - 1 -> Byte]
    BY AllOnesWord DEF PacketType, HasPrefix, Word
  <2>2. 2 \in 0 .. q.len - 1 /\ 3 \in 0 .. q.len - 1
    BY <2>1
  <2>. QED  BY <2>1, <2>2
<1>5. 2 \in Word /\ 3 \in Word /\ 1 \in {1, 2, 4} /\ 2 + 1 <= q.len /\ 3 + 1 <= q.len
  BY <1>4, Small
<1>6. /\ Shl(q.at[3], WordBits \div 4) = ByteBase * q.at[3]
      /\ BitOr(q.at[2], ByteBase * q.at[3]) = v
  BY <1>4, ParserAssumption
<1>7. Fetch(q.at, 2, 1) = q.at[2] /\ Fetch(q.at, 3, 1) = q.at[3]
  BY DEF Fetch
<1>. DEFINE x1 == m.x
            m1 == m.mem
            a2 == ByteBase * q.at[3]
<1>8. Holding(u1, q.at[3], x1, m1)
  BY <1>3, <1>5, <1>7, DoesAbs
<1>. HIDE DEF u1
<1>9. Holding(u2, a2, x1, m1)
  BY <1>1, <1>6, <1>8, DoesAlu
<1>. HIDE DEF u2, a2
<1>10. Holding(u3, a2, a2, m1)
  BY <1>9, DoesLoad
<1>. HIDE DEF u3
<1>11. Holding(u4, q.at[2], a2, m1)
  BY <1>5, <1>7, <1>10, DoesAbs
<1>. HIDE DEF u4
<1>12. Holding(u5, v, a2, m1)
  <2>1. Computed("or", q.at[2], a2) = v
    BY <1>6 DEF Computed, a2
  <2>2. "or" \in AluFn /\ "or" \notin {"div", "mod"}
    BY DEF AluFn
  <2>3. Holding(Perform(u4, Alu("or", "x", 0), q), Computed("or", q.at[2], a2), a2, m1)
    BY <1>11, <2>2, DoesAlu
  <2>. QED  BY <2>1, <2>3
<1>. HIDE DEF u5, v
<1>13. Holding(u6, v, a2, [m1 EXCEPT ![reg] = v])
  BY <1>12, DoesLoad
<1>. HIDE DEF u6
<1>14. Holding(u7, v, v, [m1 EXCEPT ![reg] = v])
  BY <1>13, DoesLoad
<1>. HIDE DEF u7
<1>15. [m1 EXCEPT ![reg] = v][reg] = v
  BY <1>3
<1>16. Ready(u7, reg, v)
  BY <1>14, <1>15 DEF Holding, Ready
<1>. QED  BY <1>2, <1>16 DEF v

LEMMA PrefixTyped ==
  ASSUME NEW reg \in Slot
  PROVE  PrefixLength(reg) \in Seq(Stmt)
BY PrefixStmts DEF PrefixLength

WithPrefix(gs, h) ==
  IF gs.linkreg = NoReg THEN gs.blocks
  ELSE [gs.blocks EXCEPT ![h].stmts = PrefixLength(gs.linkreg) \o @, ![h].means = Uncertain]

(* Only the statements of the first block are others.                      *)
BehindLength(gs, h, new) ==
  /\ new \in Seq(Block) /\ Len(new) = Len(gs.blocks)
  /\ \A c \in 1 .. Len(new) :
       /\ new[c].jt = gs.blocks[c].jt /\ new[c].jf = gs.blocks[c].jf /\ new[c].sense = gs.blocks[c].sense
       /\ new[c].head = gs.blocks[c].head /\ new[c].br = gs.blocks[c].br
       /\ new[c].stmts = IF c = h /\ gs.linkreg # NoReg
                         THEN PrefixLength(gs.linkreg) \o gs.blocks[c].stmts ELSE gs.blocks[c].stmts

LEMMA BehindLengthRight ==
  ASSUME NEW gs \in CsType, NEW h \in 1 .. Len(gs.blocks)
  PROVE  BehindLength(gs, h, WithPrefix(gs, h))
<1>. DEFINE blocks == gs.blocks
            s == PrefixLength(gs.linkreg) \o blocks[h].stmts
            x == [blocks[h] EXCEPT !.stmts = s, !.means = Uncertain]
            new == [blocks EXCEPT ![h] = x]
<1>1. blocks \in Seq(Block) /\ blocks[h] \in Block
  BY DEF CsType
<1>2. CASE gs.linkreg = NoReg
  BY <1>1, <1>2 DEF BehindLength, WithPrefix
<1>3. CASE gs.linkreg # NoReg
  <2>1. gs.linkreg \in Slot
    BY <1>3 DEF CsType
  <2>2. PrefixLength(gs.linkreg) \in Seq(InsnType) /\ blocks[h].stmts \in Seq(InsnType)
    <3>1. PrefixLength(gs.linkreg) \in Seq(Stmt) /\ Stmt \subseteq InsnType
      BY <2>1, PrefixTyped DEF Stmt
    <3>. QED  BY <1>1, <3>1, SMTT(30) DEF Block
  <2>3. s \in Seq(InsnType)
    BY <2>2
  <2>4. WithPrefix(gs, h) = new
    BY <1>1, <1>3 DEF WithPrefix
  <2>. HIDE DEF s
  <2>5. x \in Block /\ x.jt = blocks[h].jt /\ x.jf = blocks[h].jf /\ x.sense = blocks[h].sense
        /\ x.head = blocks[h].head /\ x.br = blocks[h].br /\ x.stmts = s
    BY <1>1, <2>3 DEF Block, Uncertain
  <2>. HIDE DEF x, blocks
  <2>6. new \in Seq(Block) /\ Len(new) = Len(blocks) /\ new[h] = x
        /\ \A c \in 1 .. Len(blocks) : c # h => new[c] = blocks[c]
    BY <1>1, <2>5 DEF blocks
  <2>. HIDE DEF new
  <2>7. \A c \in 1 .. Len(new) :
          /\ new[c].jt = blocks[c].jt /\ new[c].jf = blocks[c].jf /\ new[c].sense = blocks[c].sense
          /\ new[c].head = blocks[c].head /\ new[c].br = blocks[c].br
          /\ new[c].stmts = IF c = h /\ gs.linkreg # NoReg
                            THEN PrefixLength(gs.linkreg) \o blocks[c].stmts ELSE blocks[c].stmts
    BY <1>3, <2>5, <2>6 DEF s
  <2>. QED  BY <2>4, <2>6, <2>7 DEF BehindLength, blocks
<1>. QED  BY <1>2, <1>3

LEMMA FinishShape ==
  ASSUME NEW gs \in CsType, NEW b
  PROVE  /\ FinishParse(gs, b).blocks = ClosedBlocks(WithPrefix(gs, gs.blocks[b].head), b)
         /\ FinishParse(gs, b).linkreg = gs.linkreg
<1>. DEFINE P == WithPrefix(gs, gs.blocks[b].head)
            c1 == [gs EXCEPT !.blocks = P]
            A == Append(P, RetAt(Snaplen, Len(P) + 1))
            c2 == [c1 EXCEPT !.blocks = A]
            C == WithYes(P, b)
            c3 == [c2 EXCEPT !.blocks = C]
            D == Append(C, RetAt(0, Len(C) + 1))
            c4 == [c3 EXCEPT !.blocks = D]
            E == WithNo(C, b)
            c5 == [c4 EXCEPT !.blocks = E]
            yes == NewBlock(c1, << >>, Ret(Snaplen))
            no == NewBlock(c3, << >>, Ret(0))
<1>1. c1.blocks = P /\ c1.linkreg = gs.linkreg
      /\ DOMAIN c1 = {"blocks", "used", "cur", "failed", "prefixed", "linkreg"}
  BY DEF CsType
<1>2. yes.cs = c2 /\ yes.blk = Len(P) + 1
  <2>. HIDE DEF c1, P
  <2>. QED  BY <1>1 DEF NewBlock, RetAt, c1
<1>. HIDE DEF c1
<1>3. c2.blocks = A /\ c2.linkreg = gs.linkreg
      /\ DOMAIN c2 = {"blocks", "used", "cur", "failed", "prefixed", "linkreg"}
  BY <1>1
<1>. HIDE DEF c2
<1>4. Flip(Backpatch(c2.blocks, b, yes.blk), b) = C
  <2>. HIDE DEF P, yes
  <2>. QED  BY <1>2, <1>3 DEF WithYes
<1>. HIDE DEF C
<1>5. c3.blocks = C /\ c3.linkreg = gs.linkreg
      /\ DOMAIN c3 = {"blocks", "used", "cur", "failed", "prefixed", "linkreg"}
  BY <1>3
<1>6. no.cs = c4 /\ no.blk = Len(C) + 1
  <2>. HIDE DEF c3
  <2>. QED  BY <1>5 DEF NewBlock, RetAt
<1>7. no = NewBlock([yes.cs EXCEPT !.blocks = Flip(Backpatch(@, b, yes.blk), b)], << >>, Ret(0))
  <2>1. [yes.cs EXCEPT !.blocks = Flip(Backpatch(@, b, yes.blk), b)] = c3
    <3>. HIDE DEF yes, P, A
    <3>. QED  BY <1>2, <1>4
  <2>. QED  BY <2>1
<1>. HIDE DEF c3
<1>8. c4.blocks = D /\ c4.linkreg = gs.linkreg
      /\ DOMAIN c4 = {"blocks", "used", "cur", "failed", "prefixed", "linkreg"}
  BY <1>5
<1>. HIDE DEF c4
<1>9. Backpatch(c4.blocks, b, no.blk) = E
  <2>. HIDE DEF no
  <2>. QED  BY <1>6, <1>8 DEF WithNo
<1>. HIDE DEF E, D
<1>10. c5.blocks = E /\ c5.linkreg = gs.linkreg
  BY <1>8
<1>11. FinishParse(gs, b) = [no.cs EXCEPT !.blocks = Backpatch(@, b, no.blk)]
  <2>1. FinishParse(gs, b) =
          [NewBlock([yes.cs EXCEPT !.blocks = Flip(Backpatch(@, b, yes.blk), b)], << >>, Ret(0)).cs
             EXCEPT !.blocks = Backpatch(@, b, NewBlock([yes.cs EXCEPT !.blocks = Flip(Backpatch(@, b, yes.blk), b)],
                                                        << >>, Ret(0)).blk)]
    BY DEF FinishParse, WithPrefix, c1
  <2>. QED  BY <1>7, <2>1
<1>12. FinishParse(gs, b) = c5
  <2>. HIDE DEF no
  <2>. QED  BY <1>6, <1>9, <1>11
<1>. QED  BY <1>10, <1>12 DEF E, C, ClosedBlocks

RankedTo(K, r, N, n) == [c \in K \cup {n + 1, n + 2} |-> IF c \in K THEN r[c] ELSE N]

(* Between the generator's blocks and those that are finished.             *)
ClosedFrom(gs, b, g, new) ==
  LET n == Len(gs.blocks)
      h == gs.blocks[b].head
  IN  /\ new \in Seq(Block) /\ Len(new) = n + 2
      /\ \A c \in 1 .. n :
           /\ new[c].head = gs.blocks[c].head /\ new[c].br = gs.blocks[c].br
           /\ new[c].stmts = IF c = h /\ gs.linkreg # NoReg
                             THEN PrefixLength(gs.linkreg) \o gs.blocks[c].stmts ELSE gs.blocks[c].stmts
      /\ EndBlock(new[n + 1]) /\ new[n + 1].stmts = << >> /\ new[n + 1].br.k = Snaplen
      /\ EndBlock(new[n + 2]) /\ new[n + 2].stmts = << >> /\ new[n + 2].br.k = 0
      /\ \A e \in Exits(gs.blocks) :
           Exit(new, e) = IF e \in Ends(g.T) THEN n + 1
                          ELSE IF e \in Ends(g.F) THEN n + 2 ELSE Exit(gs.blocks, e)

LEMMA ClosedFromParts ==
  ASSUME NEW gs \in CsType, NEW b, NEW g, Opened(gs.blocks, b, g), g.N <= Len(gs.blocks)
  PROVE  ClosedFrom(gs, b, g, FinishParse(gs, b).blocks)
<1>. DEFINE old == gs.blocks
            h == old[b].head
            P == WithPrefix(gs, h)
            new == FinishParse(gs, b).blocks
            n == Len(old)
<1>1. old \in Seq(Block) /\ n \in Nat
  BY DEF CsType
<1>2. g.K \subseteq 1 .. n /\ b \in g.K /\ h \in g.K /\ \A c \in g.K : old[c].stmts \in Seq(Stmt)
  BY DEF Opened
<1>3. BehindLength(gs, h, P)
  BY <1>2, BehindLengthRight
<1>4. new = ClosedBlocks(P, b)
  BY FinishShape
<1>. HIDE DEF P
<1>5. /\ P \in Seq(Block) /\ Len(P) = n
      /\ \A c \in 1 .. n :
           /\ P[c].jt = old[c].jt /\ P[c].jf = old[c].jf /\ P[c].sense = old[c].sense
           /\ P[c].head = old[c].head /\ P[c].br = old[c].br
           /\ P[c].stmts = IF c = h /\ gs.linkreg # NoReg
                           THEN PrefixLength(gs.linkreg) \o old[c].stmts ELSE old[c].stmts
  BY <1>3 DEF BehindLength
<1>6. \A c \in g.K : P[c].stmts \in Seq(Stmt)
  <2>. TAKE c \in g.K
  <2>1. CASE gs.linkreg = NoReg
    BY <1>2, <1>5, <2>1
  <2>2. CASE gs.linkreg # NoReg
    <3>1. gs.linkreg \in Slot
      BY <2>2 DEF CsType
    <3>2. PrefixLength(gs.linkreg) \in Seq(Stmt) /\ old[c].stmts \in Seq(Stmt)
      BY <1>2, <3>1, PrefixTyped
    <3>3. PrefixLength(gs.linkreg) \o old[c].stmts \in Seq(Stmt)
      BY <3>2
    <3>. QED  BY <1>2, <1>5, <3>2, <3>3
  <2>. QED  BY <2>1, <2>2
<1>7. Opened(P, b, g)
  <2>1. \A c \in g.K : /\ P[c].jt = old[c].jt /\ P[c].jf = old[c].jf
                       /\ P[c].sense = old[c].sense /\ P[c].head = old[c].head
                       /\ P[c].stmts \in Seq(Stmt) /\ P[c].br = old[c].br
    BY <1>2, <1>5, <1>6
  <2>2. Len(old) \in Nat /\ Len(P) \in Nat /\ Len(P) >= Len(old)
    BY <1>1, <1>5
  <2>. QED  BY <2>1, <2>2, OpenedAlike
<1>8. ExitsClosed(P, new, g)
  BY <1>4, <1>5, <1>7, ClosingRight
<1>. HIDE DEF new
<1>9. /\ new \in Seq(Block) /\ Len(new) = n + 2
      /\ \A c \in 1 .. n : Alike(new[c], P[c])
      /\ EndBlock(new[n + 1]) /\ new[n + 1].stmts = << >> /\ new[n + 1].br.k = Snaplen
      /\ EndBlock(new[n + 2]) /\ new[n + 2].stmts = << >> /\ new[n + 2].br.k = 0
      /\ \A e \in Exits(P) : Exit(new, e) = IF e \in Ends(g.T) THEN n + 1
                                            ELSE IF e \in Ends(g.F) THEN n + 2 ELSE Exit(P, e)
  BY <1>5, <1>8 DEF ExitsClosed
<1>10. Exits(P) = Exits(old) /\ \A e \in Exits(old) : Exit(P, e) = Exit(old, e)
  BY <1>5 DEF Exits, Exit
<1>11. \A c \in 1 .. n :
         /\ new[c].head = old[c].head /\ new[c].br = old[c].br
         /\ new[c].stmts = IF c = h /\ gs.linkreg # NoReg
                           THEN PrefixLength(gs.linkreg) \o old[c].stmts ELSE old[c].stmts
  BY ONLY <1>5, <1>9 DEF Alike
<1>. QED  BY ONLY <1>9, <1>10, <1>11 DEF ClosedFrom, new, n, h, old

LEMMA FinishedRight ==
  ASSUME NEW gs \in CsType, NEW b, NEW g, Opened(gs.blocks, b, g), NEW new, ClosedFrom(gs, b, g, new)
  PROVE  LET n == Len(gs.blocks)
         IN  Finished(new, g.K \cup {n + 1, n + 2}, RankedTo(g.K, g.r, g.N, n), g.N)
<1>. DEFINE old == gs.blocks
            n == Len(old)
            h == old[b].head
            K == g.K
            K2 == K \cup {n + 1, n + 2}
            r == g.r
            N == g.N
            r2 == RankedTo(K, r, N, n)
<1>1. old \in Seq(Block) /\ n \in Nat
  BY DEF CsType
<1>2. K \subseteq 1 .. n /\ b \in K /\ h \in K
      /\ \A c \in K : old[c].stmts \in Seq(Stmt) /\ old[c].br \in Test1
  BY DEF Opened
<1>3. N \in Nat /\ r \in [K -> 0 .. N - 1]
      /\ \A e \in (K \X BOOLEAN) \ (Ends(g.T) \cup Ends(g.F)) : Exit(old, e) \in K /\ r[Exit(old, e)] > r[e[1]]
  BY DEF Opened
<1>4. /\ new \in Seq(Block) /\ Len(new) = n + 2
      /\ \A c \in 1 .. n :
           /\ new[c].br = old[c].br
           /\ new[c].stmts = IF c = h /\ gs.linkreg # NoReg
                             THEN PrefixLength(gs.linkreg) \o old[c].stmts ELSE old[c].stmts
      /\ EndBlock(new[n + 1]) /\ new[n + 1].stmts = << >>
      /\ EndBlock(new[n + 2]) /\ new[n + 2].stmts = << >>
      /\ \A e \in Exits(old) : Exit(new, e) = IF e \in Ends(g.T) THEN n + 1
                                              ELSE IF e \in Ends(g.F) THEN n + 2 ELSE Exit(old, e)
  BY DEF ClosedFrom
<1>5. r2 \in [K2 -> 0 .. N] /\ r2[n + 1] = N /\ r2[n + 2] = N /\ \A c \in K : r2[c] = r[c] /\ r[c] \in 0 .. N - 1
  <2>1. n + 1 \notin K /\ n + 2 \notin K
    BY <1>1, <1>2
  <2>2. r2 = [c \in K2 |-> IF c \in K THEN r[c] ELSE N]
    BY DEF RankedTo
  <2>. HIDE DEF r2, K, r, N, n
  <2>3. \A c \in K : r[c] \in 0 .. N - 1 /\ r[c] \in 0 .. N
    BY ONLY <1>3
  <2>4. N \in 0 .. N
    BY ONLY <1>3
  <2>. QED  BY ONLY <2>1, <2>2, <2>3, <2>4
<1>. HIDE DEF r2
<1>6. ASSUME NEW c \in K, NEW s \in BOOLEAN
      PROVE  Exit(new, << c, s >>) \in K2 /\ r2[Exit(new, << c, s >>)] > r2[c]
  <2>. DEFINE e == << c, s >>
  <2>1. e \in K \X BOOLEAN /\ e \in Exits(old) /\ e[1] = c
    BY <1>2 DEF Exits
  <2>. HIDE DEF e
  <2>2. r2[c] = r[c] /\ r[c] \in 0 .. N - 1
    BY <1>5
  <2>3. N > r2[c]
    BY ONLY <1>3, <2>2
  <2>4. CASE e \in Ends(g.T)
    <3>1. Exit(new, e) = n + 1
      BY <1>4, <2>1, <2>4
    <3>. QED  BY <1>5, <2>3, <3>1 DEF e
  <2>5. CASE e \notin Ends(g.T) /\ e \in Ends(g.F)
    <3>1. Exit(new, e) = n + 2
      BY <1>4, <2>1, <2>5
    <3>. QED  BY <1>5, <2>3, <3>1 DEF e
  <2>6. CASE e \notin Ends(g.T) /\ e \notin Ends(g.F)
    <3>1. Exit(new, e) = Exit(old, e)
      BY <1>4, <2>1, <2>6
    <3>2. Exit(old, e) \in K /\ r[Exit(old, e)] > r[c]
      BY <1>3, <2>1, <2>6
    <3>3. r2[Exit(old, e)] = r[Exit(old, e)]
      BY <1>5, <3>2
    <3>. QED  BY <2>2, <3>1, <3>2, <3>3 DEF e
  <2>. QED  BY <2>4, <2>5, <2>6
<1>7. ASSUME NEW c \in K
      PROVE  new[c].stmts \in Seq(Stmt) /\ TestBlock1(new, K2, r2, c)
  <2>1. c \in 1 .. n
    BY <1>2
  <2>2. new[c].br \in Test1
    BY <1>2, <1>4, <2>1
  <2>3. new[c].stmts \in Seq(Stmt)
    <3>1. CASE gs.linkreg = NoReg
      BY <1>2, <1>4, <2>1, <3>1
    <3>2. CASE gs.linkreg # NoReg
      <4>1. gs.linkreg \in Slot
        BY <3>2 DEF CsType
      <4>2. PrefixLength(gs.linkreg) \in Seq(Stmt) /\ old[c].stmts \in Seq(Stmt)
        BY <1>2, <4>1, PrefixTyped
      <4>3. PrefixLength(gs.linkreg) \o old[c].stmts \in Seq(Stmt)
        BY <4>2
      <4>. QED  BY <1>4, <2>1, <4>2, <4>3
    <3>. QED  BY <3>1, <3>2
  <2>4. /\ new[c].jt \in K2 /\ r2[new[c].jt] > r2[c]
        /\ new[c].jf \in K2 /\ r2[new[c].jf] > r2[c]
    <3>1. Exit(new, << c, TRUE >>) \in K2 /\ r2[Exit(new, << c, TRUE >>)] > r2[c]
          /\ Exit(new, << c, FALSE >>) \in K2 /\ r2[Exit(new, << c, FALSE >>)] > r2[c]
      BY <1>6
    <3>. QED  BY <3>1 DEF Exit
  <2>. QED  BY <2>2, <2>3, <2>4 DEF TestBlock1
<1>8. ASSUME NEW c \in K2
      PROVE  /\ new[c].stmts \in Seq(Stmt) /\ (EndBlock(new[c]) \/ TestBlock1(new, K2, r2, c))
             /\ new[c].jt \in K2 \cup {Nil} /\ new[c].jf \in K2 \cup {Nil}
  <2>1. CASE c \in K
    BY <1>7, <2>1 DEF TestBlock1
  <2>2. CASE c \notin K
    <3>1. EndBlock(new[c]) /\ new[c].stmts = << >>
      BY <1>4, <2>2
    <3>. QED  BY <3>1 DEF EndBlock
  <2>. QED  BY <2>1, <2>2
<1>9. K2 \subseteq 1 .. Len(new)
  BY <1>1, <1>2, <1>4
<1>. HIDE DEF K2
<1>10. ClosedUnder(new, K2)
  BY <1>8, <1>9 DEF ClosedUnder
<1>11. Finished(new, K2, r2, N)
  BY <1>3, <1>5, <1>8, <1>10 DEF Finished
<1>. QED  BY <1>11 DEF K2, r2

(* A finished graph of blocks is drawn as one that is sound.               *)
LEMMA GraphDrawn ==
  ASSUME NEW blocks \in Seq(Block), NEW K, NEW r, NEW N, Finished(blocks, K, r, N), NEW root \in K
  PROVE  /\ Numbering(blocks, K, root, Reach(blocks, root))
         /\ Drawn(blocks, Reach(blocks, root), FlowGraph(blocks, root))
         /\ Sound(FlowGraph(blocks, root))
<1>1. ClosedUnder(blocks, K)
  BY DEF Finished
<1>2. Numbering(blocks, K, root, Reach(blocks, root))
  BY <1>1, ReachRight
<1>3. Drawn(blocks, Reach(blocks, root), FlowGraph(blocks, root))
  BY <1>2, FlowShape
<1>4. Sound(FlowGraph(blocks, root))
  BY <1>2, <1>3, GraphIsSound
<1>. QED  BY <1>2, <1>3, <1>4

(* An expression that is empty is one "ret".                               *)
LEMMA EmptyShape ==
  ASSUME NEW gs \in CsType
  PROVE  LET all == NewBlock(gs, << >>, Ret(Snaplen))
         IN  /\ all.cs.blocks \in Seq(Block) /\ all.cs.linkreg = gs.linkreg
             /\ all.cs.blocks[all.blk].stmts = << >> /\ all.cs.blocks[all.blk].br.k = Snaplen
             /\ EndBlock(all.cs.blocks[all.blk])
             /\ Finished(all.cs.blocks, {all.blk}, [c \in {all.blk} |-> 0], 0)
<1>. DEFINE all == NewBlock(gs, << >>, Ret(Snaplen))
            id == Len(gs.blocks) + 1
            new == Append(gs.blocks, RetAt(Snaplen, id))
            r == [c \in {id} |-> 0]
<1>1. gs.blocks \in Seq(Block) /\ Len(gs.blocks) \in Nat /\ id \in Nat
      /\ DOMAIN gs = {"blocks", "used", "cur", "failed", "prefixed", "linkreg"}
  BY DEF CsType
<1>2. all.cs.blocks = new /\ all.blk = id /\ all.cs.linkreg = gs.linkreg
  BY <1>1 DEF NewBlock, RetAt
<1>3. RetAt(Snaplen, id) \in Block /\ EndBlock(RetAt(Snaplen, id)) /\ RetAt(Snaplen, id).stmts \in Seq(Stmt)
      /\ RetAt(Snaplen, id).stmts = << >> /\ RetAt(Snaplen, id).br.k = Snaplen
  <2>1. RetAt(Snaplen, id).stmts = << >>
    BY DEF RetAt
  <2>. HIDE DEF id
  <2>. QED  BY <1>1, <2>1, RetBlocks
<1>4. new \in Seq(Block) /\ Len(new) = id /\ new[id] = RetAt(Snaplen, id)
  <2>. DEFINE x == RetAt(Snaplen, id)
  <2>1. x \in Block
    BY <1>3
  <2>. HIDE DEF x
  <2>2. Append(gs.blocks, x) \in Seq(Block) /\ Len(Append(gs.blocks, x)) = id /\ Append(gs.blocks, x)[id] = x
    BY <1>1, <2>1
  <2>. QED  BY <2>2 DEF x
<1>. HIDE DEF all
<1>5. Finished(new, {id}, r, 0)
  <2>1. new[id].stmts \in Seq(Stmt) /\ EndBlock(new[id])
    BY <1>3, <1>4
  <2>2. id \in 1 .. Len(new)
    BY <1>1, <1>4
  <2>3. new[id].jt = Nil /\ new[id].jf = Nil
    BY <2>1 DEF EndBlock
  <2>4. r \in [{id} -> 0 .. 0]
    OBVIOUS
  <2>. HIDE DEF new, id, r
  <2>. QED  BY <2>1, <2>2, <2>3, <2>4 DEF Finished, ClosedUnder
<1>6. /\ new[id].stmts = << >> /\ new[id].br.k = Snaplen /\ EndBlock(new[id])
  BY <1>3, <1>4
<1>. HIDE DEF new
<1>. QED  BY <1>2, <1>4, <1>5, <1>6 DEF all

-----------------------------------------------------------------------------
(***************************************************************************)
(* What the graph that is drawn means.                                     *)
(***************************************************************************)

(* The machine is at a block: the prefix's length is stored in the first.  *)
Prepared(g, b, m, lr, v) == IF b = g.root THEN Ready(m, NoReg, 0) ELSE Ready(m, lr, v)

(* A run that is in the blocks B stays there, till it is at one that       *)
(* returns k.                                                              *)
Onwards(g, b, m, p, B, lr, v) ==
  LET t == PerformAll(m, g.stmts[b], p)
  IN  ~t.halted /\ Next1(g, b, t) \in B /\ Ready(t, lr, v)
Guides(g, p, B, lr, v, k) ==
  /\ B \subseteq Blocks(g) /\ g.root \in B
  /\ \A b \in B : IF EndsRun(g, b) THEN g.stmts[b] = << >> /\ g.br[b].k = k
                  ELSE \A m : Prepared(g, b, m, lr, v) => Onwards(g, b, m, p, B, lr, v)

LEMMA ReadyAnyway ==
  ASSUME NEW m, NEW lr, NEW v, Ready(m, lr, v)
  PROVE  Ready(m, NoReg, 0)
  BY DEF Ready

LEMMA ReadyStart == Ready(Start, NoReg, 0)
  BY StartTyped DEF Ready, Start, At

LEMMA GuidedStep ==
  ASSUME NEW g, Sound(g), NEW p, NEW B, NEW lr, NEW v, NEW k, Guides(g, p, B, lr, v, k),
         NEW w, w.at \in B, Prepared(g, w.at, w.vm, lr, v)
  PROVE  LET x == Follow(g, w, p)
         IN  /\ x.at \in B /\ Prepared(g, x.at, x.vm, lr, v)
             /\ EndsRun(g, w.at) => x = w
             /\ ~EndsRun(g, w.at) => x.at \in Successors(g, w.at)
<1>. DEFINE b == w.at
            m == w.vm
            t == PerformAll(m, g.stmts[b], p)
            x == Follow(g, w, p)
<1>1. ~m.halted
  BY DEF Prepared, Ready
<1>2. CASE EndsRun(g, b)
  BY <1>1, <1>2 DEF Follow
<1>3. CASE ~EndsRun(g, b)
  <2>1. x = Leave(g, b, t)
    BY <1>1, <1>3 DEF Follow
  <2>2. Onwards(g, b, m, p, B, lr, v)
    <3>. HIDE DEF m
    <3>. QED  BY <1>3 DEF Guides, m
  <2>3. ~t.halted /\ Next1(g, b, t) \in B /\ Ready(t, lr, v)
    <3>. HIDE DEF m, b
    <3>. QED  BY <2>2 DEF Onwards
  <2>4. x.at = Next1(g, b, t) /\ x.vm = t
    BY <2>1, <2>3 DEF Leave
  <2>5. Ready(t, NoReg, 0)
    <3>. HIDE DEF t
    <3>. QED  BY <2>3, ReadyAnyway
  <2>6. Next1(g, b, t) \in Successors(g, b)
    <3>1. Next1(g, b, t) \in {JT(g, b), JF(g, b)}
      BY DEF Next1
    <3>2. b \in Blocks(g)
      BY DEF Guides
    <3>3. Successors(g, b) = {JT(g, b), JF(g, b)}
      BY <1>3, <3>2, Edged
    <3>. QED  BY ONLY <3>1, <3>3
  <2>. HIDE DEF t, b, m, x
  <2>. QED  BY <1>3, <2>3, <2>4, <2>5, <2>6 DEF Prepared, b, x
<1>. QED  BY <1>2, <1>3 DEF b

LEMMA GuidedMeans ==
  ASSUME NEW g, Sound(g), NEW p, NEW B, NEW lr, NEW v, NEW k, Guides(g, p, B, lr, v, k)
  PROVE  Meaning(g, p) = Verdict(k)
<1>. DEFINE w == Walk(g, p)
            ends == Within(g)
            Ok(i) == /\ w[i].at \in B /\ Prepared(g, w[i].at, w[i].vm, lr, v)
                     /\ EndsRun(g, w[i].at) \/ w[i].at \in ends[g.n - i]
            S == {i \in Nat : i <= g.n => Ok(i)}
<1>1. g.n \in Nat
  BY DEF Sound
<1>2. w[0] = [at |-> g.root, vm |-> Start] /\ \A i \in 1 .. g.n : w[i] = Follow(g, w[i - 1], p)
  BY <1>1, WalkUnfolds
<1>3. /\ \A b \in ends[0] : Successors(g, b) = {}
      /\ \A i \in 1 .. g.n : \A b \in ends[i] : Successors(g, b) \subseteq ends[i - 1]
  BY Ending
<1>4. g.root \in ends[g.n] /\ g.root \in B /\ B \subseteq Blocks(g)
  BY DEF Sound, Guides
<1>. HIDE DEF w, ends
<1>5. Ok(0)
  <2>1. w[0].at = g.root /\ w[0].vm = Start /\ g.n - 0 = g.n
    BY <1>1, <1>2
  <2>. QED  BY <1>4, <2>1, ReadyStart DEF Prepared
<1>6. \A i \in Nat : i \in S => i + 1 \in S
  <2>. SUFFICES ASSUME NEW i \in Nat, i \in S, i + 1 <= g.n PROVE Ok(i + 1)
    OBVIOUS
  <2>1. Ok(i) /\ i + 1 \in 1 .. g.n /\ (i + 1) - 1 = i /\ g.n - i \in 1 .. g.n
        /\ (g.n - i) - 1 = g.n - (i + 1)
    BY <1>1
  <2>. DEFINE y == w[i]
  <2>2. w[i + 1] = Follow(g, y, p)
    BY <1>2, <2>1
  <2>3. y.at \in B /\ Prepared(g, y.at, y.vm, lr, v) /\ (EndsRun(g, y.at) \/ y.at \in ends[g.n - i])
    BY <2>1
  <2>. HIDE DEF y
  <2>4. LET x == Follow(g, y, p)
        IN  /\ x.at \in B /\ Prepared(g, x.at, x.vm, lr, v)
            /\ EndsRun(g, y.at) => x = y
            /\ ~EndsRun(g, y.at) => x.at \in Successors(g, y.at)
    BY <2>3, GuidedStep
  <2>. DEFINE x == Follow(g, y, p)
  <2>5. /\ x.at \in B /\ Prepared(g, x.at, x.vm, lr, v)
        /\ EndsRun(g, y.at) => x = y
        /\ ~EndsRun(g, y.at) => x.at \in Successors(g, y.at)
    BY <2>4
  <2>6. y.at \in ends[g.n - i] => Successors(g, y.at) \subseteq ends[g.n - (i + 1)]
    BY <1>3, <2>1
  <2>. HIDE DEF x
  <2>7. EndsRun(g, x.at) \/ x.at \in ends[g.n - (i + 1)]
    BY <2>3, <2>5, <2>6
  <2>. QED  BY <2>2, <2>5, <2>7 DEF x
<1>7. g.n \in S
  <2>1. 0 \in S
    BY <1>5
  <2>. HIDE DEF S
  <2>2. Nat \subseteq S
    BY <1>6, <2>1, Induct
  <2>. QED  BY <1>1, <2>2
<1>8. Ok(g.n) /\ g.n - g.n = 0
  BY <1>1, <1>7
<1>. DEFINE z == w[g.n]
            b == z.at
<1>9. b \in B /\ Prepared(g, b, z.vm, lr, v) /\ (EndsRun(g, b) \/ b \in ends[0])
  BY <1>8
<1>10. Meaning(g, p) = Return(g, z, p)
  BY DEF Meaning, w
<1>. HIDE DEF Ok, S, z
<1>11. EndsRun(g, b)
  BY <1>3, <1>4, <1>9, Edged
<1>12. g.stmts[b] = << >> /\ g.br[b].k = k
  BY <1>9, <1>11 DEF Guides
<1>13. ~z.vm.halted
  BY <1>9 DEF Prepared, Ready
<1>14. PerformAll(z.vm, g.stmts[b], p) = z.vm
  <2>. DEFINE m == z.vm
  <2>. HIDE DEF m
  <2>. QED  BY <1>12, PerformNone
<1>. QED  BY <1>10, <1>12, <1>13, <1>14 DEF Return

Does(m, s, br, p, out, lr, v) ==
  LET t == PerformAll(m, s, p)
  IN  ~t.halted /\ Ready(t, lr, v) /\ (Holds(br.fn, t.a, Operand(t, br)) <=> out)

(* What a block says it does also behind the prefix's length.              *)
LEMMA BlockDoes ==
  ASSUME NEW x, x.stmts \in Seq(Stmt), NEW lr \in Slot \cup {NoReg}, NEW p, PacketType(p),
         lr \notin Stores(x.stmts), NEW v, NEW out, Says(x, lr, v, p, out), NEW m
  PROVE  /\ Ready(m, lr, v) => Does(m, x.stmts, x.br, p, out, lr, v)
         /\ lr # NoReg /\ HasPrefix(p) /\ v = p.at[2] + ByteBase * p.at[3] /\ Ready(m, NoReg, 0)
              => Does(m, PrefixLength(lr) \o x.stmts, x.br, p, out, lr, v)
<1>. DEFINE s == x.stmts
            br == x.br
<1>1. ASSUME NEW y, Ready(y, lr, v)
      PROVE  Does(y, s, br, p, out, lr, v)
  <2>. DEFINE t == PerformAll(y, s, p)
  <2>1. ~t.halted /\ (Holds(br.fn, t.a, Operand(t, br)) <=> out)
    BY <1>1 DEF Says
  <2>2. Ready(t, lr, v)
    <3>. HIDE DEF s
    <3>1. s \in Seq(Stmt) /\ lr \notin Stores(s) /\ ~PerformAll(y, s, p).halted
      BY <2>1 DEF s
    <3>. QED  BY ONLY <1>1, <3>1, lr \in Slot \cup {NoReg}, PacketType(p), ReadyAfter
  <2>. QED  BY <2>1, <2>2 DEF Does
<1>2. ASSUME lr # NoReg, HasPrefix(p), v = p.at[2] + ByteBase * p.at[3], Ready(m, NoReg, 0)
      PROVE  Does(m, PrefixLength(lr) \o s, br, p, out, lr, v)
  <2>. DEFINE u == PrefixLength(lr)
              y == PerformAll(m, u, p)
  <2>1. lr \in Slot
    BY <1>2
  <2>2. u \in Seq(Stmt) /\ Ready(y, lr, v)
    BY <1>2, <2>1, PrefixDoes
  <2>. HIDE DEF u
  <2>3. PerformAll(m, u \o s, p) = PerformAll(y, s, p)
    BY <2>2, PerformBoth
  <2>. HIDE DEF s, y, br
  <2>4. Does(y, s, br, p, out, lr, v)
    BY <1>1, <2>2
  <2>5. Does(m, u \o s, br, p, out, lr, v)
    BY ONLY <2>3, <2>4 DEF Does
  <2>. QED  BY <2>5 DEF u
<1>. QED  BY <1>1, <1>2

(* The graph that is drawn of the finished blocks.                         *)
DrawnFrom(gs, b, g, new, ids, f) ==
  LET n == Len(gs.blocks)
  IN  /\ Opened(gs.blocks, b, g) /\ ClosedFrom(gs, b, g, new)
      /\ Finished(new, g.K \cup {n + 1, n + 2}, RankedTo(g.K, g.r, g.N, n), g.N)
      /\ Numbering(new, g.K \cup {n + 1, n + 2}, gs.blocks[b].head, ids)
      /\ Drawn(new, ids, f) /\ Sound(f)

(* For packet p the blocks of L come to the verdict d.                     *)
Path(gs, b, g, v, p, d, L) ==
  /\ d \in {"yes", "no"} /\ L \subseteq g.K /\ gs.blocks[b].head \in L
  /\ \A c \in L : \E out \in BOOLEAN :
       /\ Says(gs.blocks[c], gs.linkreg, v, p, out)
       /\ LeadsOn(gs.blocks, << c, out >>, L, g.T, g.F, "yes", d)
  /\ PacketType(p)
  /\ \A c \in L : gs.linkreg \notin Stores(gs.blocks[c].stmts)
  /\ gs.linkreg # NoReg => HasPrefix(p) /\ v = p.at[2] + ByteBase * p.at[3]
EndOf1(gs, d) == Len(gs.blocks) + (IF d = "yes" THEN 1 ELSE 2)

(* Whether the test of c holds or not, the exit leads along the path.      *)
LEMMA PathExit ==
  ASSUME NEW gs \in CsType, NEW b, NEW g, NEW new, Opened(gs.blocks, b, g), ClosedFrom(gs, b, g, new),
         NEW v, NEW p, NEW d, NEW L, Path(gs, b, g, v, p, d, L), NEW c \in L
  PROVE  \E out \in BOOLEAN : /\ Says(gs.blocks[c], gs.linkreg, v, p, out)
                              /\ Exit(new, << c, out >>) \in L \cup {EndOf1(gs, d)}
<1>1. PICK out \in BOOLEAN :
        /\ Says(gs.blocks[c], gs.linkreg, v, p, out)
        /\ LeadsOn(gs.blocks, << c, out >>, L, g.T, g.F, "yes", d)
  BY DEF Path
<1>. DEFINE e == << c, out >>
            n == Len(gs.blocks)
<1>2. e \in Exits(gs.blocks)
  <2>1. c \in 1 .. Len(gs.blocks)
    BY DEF Path, Opened
  <2>. QED  BY <1>1, <2>1 DEF Exits
<1>3. Exit(new, e) = IF e \in Ends(g.T) THEN n + 1
                     ELSE IF e \in Ends(g.F) THEN n + 2 ELSE Exit(gs.blocks, e)
  <2>. HIDE DEF e
  <2>. QED  BY <1>2 DEF ClosedFrom
<1>4. /\ e \in Ends(g.T) => d = "yes"
      /\ e \notin Ends(g.T) /\ e \in Ends(g.F) => d # "yes"
      /\ e \notin Ends(g.T) /\ e \notin Ends(g.F) => Exit(gs.blocks, e) \in L
  <2>. HIDE DEF e
  <2>. QED  BY <1>1 DEF LeadsOn, e
<1>5. EndOf1(gs, d) = IF d = "yes" THEN n + 1 ELSE n + 2
  BY DEF EndOf1
<1>6. Exit(new, e) \in L \cup {EndOf1(gs, d)}
  BY ONLY <1>3, <1>4, <1>5
<1>. QED  BY <1>1, <1>6

OfPath(gs, ids, f, d, L) == {i \in Blocks(f) : ids[i + 1] \in L \cup {EndOf1(gs, d)}}

TestAt(gs, new, ids, f, i) ==
  LET c == ids[i + 1]
  IN  /\ c \in 1 .. Len(gs.blocks) /\ ~EndsRun(f, i)
      /\ f.stmts[i] = new[c].stmts /\ f.br[i] = gs.blocks[c].br /\ gs.blocks[c].stmts \in Seq(Stmt)
      /\ JT(f, i) \in Blocks(f) /\ ids[JT(f, i) + 1] = Exit(new, << c, TRUE >>)
      /\ JF(f, i) \in Blocks(f) /\ ids[JF(f, i) + 1] = Exit(new, << c, FALSE >>)

(* A block that is no "ret" has both its edges.                            *)
LEMMA TestEdges ==
  ASSUME NEW gs \in CsType, NEW b, NEW g, NEW new, NEW ids, NEW f, DrawnFrom(gs, b, g, new, ids, f),
         NEW i \in Blocks(f), ids[i + 1] \in g.K
  PROVE  TestAt(gs, new, ids, f, i)
<1>. DEFINE c == ids[i + 1]
            n == Len(gs.blocks)
            K == g.K \cup {n + 1, n + 2}
<1>1. /\ Opened(gs.blocks, b, g) /\ ClosedFrom(gs, b, g, new)
      /\ Finished(new, K, RankedTo(g.K, g.r, g.N, n), g.N)
      /\ Numbering(new, K, gs.blocks[b].head, ids) /\ Drawn(new, ids, f) /\ Sound(f)
  BY DEF DrawnFrom
<1>2. c \in K /\ c \in 1 .. n /\ n \in Nat
  BY <1>1 DEF Opened, CsType
<1>3. new[c].br = gs.blocks[c].br /\ gs.blocks[c].br \in Test1 /\ gs.blocks[c].stmts \in Seq(Stmt)
  BY <1>1, <1>2 DEF ClosedFrom, Opened
<1>. HIDE DEF K
<1>4. EdgesOf(new, K, ids, f, i)
  BY <1>1, DrawnEdges
<1>5. f.stmts[i] = new[c].stmts /\ f.br[i] = new[c].br
  BY <1>1 DEF Drawn
<1>. HIDE DEF c
<1>6. new[c].jt \in K /\ new[c].jf \in K
  <2>1. ~EndBlock(new[c])
    BY <1>3 DEF EndBlock, Test1
  <2>2. TestBlock1(new, K, RankedTo(g.K, g.r, g.N, n), c)
    BY <1>1, <1>2, <2>1 DEF Finished
  <2>. QED  BY <2>2 DEF TestBlock1
<1>7. Nil \notin K /\ None \notin Blocks(f)
  <2>1. K \subseteq 1 .. n + 2
    <3>1. g.K \subseteq 1 .. n
      BY <1>1 DEF Opened
    <3>. QED  BY ONLY <1>2, <3>1 DEF K
  <2>2. f.n \in Nat
    BY <1>1 DEF Sound
  <2>. QED  BY ONLY <2>1, <2>2 DEF Nil, None, Blocks
<1>8. /\ JT(f, i) \in Blocks(f) /\ ids[JT(f, i) + 1] = new[c].jt
      /\ JF(f, i) \in Blocks(f) /\ ids[JF(f, i) + 1] = new[c].jf
  BY <1>4, <1>6, <1>7 DEF EdgesOf, c
<1>9. Exit(new, << c, TRUE >>) = new[c].jt /\ Exit(new, << c, FALSE >>) = new[c].jf
  BY DEF Exit
<1>10. ~EndsRun(f, i)
  BY <1>7, <1>8 DEF EndsRun
<1>. QED  BY <1>2, <1>3, <1>5, <1>8, <1>9, <1>10 DEF c, TestAt

(* The first block is the graph's root, and no other.                      *)
LEMMA RootIsHead ==
  ASSUME NEW gs \in CsType, NEW b, NEW g, NEW new, NEW ids, NEW f, DrawnFrom(gs, b, g, new, ids, f),
         NEW i \in Blocks(f)
  PROVE  i = f.root <=> ids[i + 1] = gs.blocks[b].head
<1>. DEFINE h == gs.blocks[b].head
            n == Len(gs.blocks)
            K == g.K \cup {n + 1, n + 2}
<1>1. Numbering(new, K, h, ids) /\ Drawn(new, ids, f)
  BY DEF DrawnFrom
<1>2. /\ Len(ids) \in Nat \ {0} /\ ids[1] = h /\ f.n = Len(ids) /\ f.root = 0
      /\ \A j, k \in 1 .. Len(ids) : ids[j] = ids[k] => j = k
  BY <1>1 DEF Numbering, Drawn
<1>3. i \in Nat /\ i + 1 \in 1 .. Len(ids) /\ 1 \in 1 .. Len(ids)
  BY <1>2 DEF Blocks
<1>. HIDE DEF h
<1>. QED  BY <1>2, <1>3 DEF h

LEMMA PathBlock ==
  ASSUME NEW gs \in CsType, NEW b, NEW g, NEW new, NEW ids, NEW f, DrawnFrom(gs, b, g, new, ids, f),
         NEW v, NEW p, NEW d, NEW L, Path(gs, b, g, v, p, d, L),
         NEW i \in Blocks(f), ids[i + 1] \in L, NEW m, Prepared(f, i, m, gs.linkreg, v)
  PROVE  Onwards(f, i, m, p, OfPath(gs, ids, f, d, L), gs.linkreg, v)
<1>. DEFINE c == ids[i + 1]
            lr == gs.linkreg
            x == gs.blocks[c]
            s == f.stmts[i]
            h == gs.blocks[b].head
            B == OfPath(gs, ids, f, d, L)
<1>1. Opened(gs.blocks, b, g) /\ ClosedFrom(gs, b, g, new)
  BY DEF DrawnFrom
<1>2. c \in g.K /\ PacketType(p) /\ lr \notin Stores(x.stmts)
      /\ (lr # NoReg => HasPrefix(p) /\ v = p.at[2] + ByteBase * p.at[3]) /\ lr \in Slot \cup {NoReg}
  BY DEF Path, CsType
<1>3. /\ c \in 1 .. Len(gs.blocks)
      /\ s = new[c].stmts /\ f.br[i] = x.br /\ x.stmts \in Seq(Stmt)
      /\ JT(f, i) \in Blocks(f) /\ ids[JT(f, i) + 1] = Exit(new, << c, TRUE >>)
      /\ JF(f, i) \in Blocks(f) /\ ids[JF(f, i) + 1] = Exit(new, << c, FALSE >>)
  <2>1. ids[i + 1] \in g.K
    BY <1>2
  <2>2. TestAt(gs, new, ids, f, i)
    BY <2>1, TestEdges
  <2>. QED  BY ONLY <2>2 DEF TestAt
<1>4. PICK out \in BOOLEAN : Says(x, lr, v, p, out) /\ Exit(new, << c, out >>) \in L \cup {EndOf1(gs, d)}
  BY <1>1, PathExit
<1>5. s = IF c = h /\ lr # NoReg THEN PrefixLength(lr) \o x.stmts ELSE x.stmts
  BY <1>1, <1>3 DEF ClosedFrom
<1>6. i = f.root <=> c = h
  BY RootIsHead
<1>. HIDE DEF x, h, B
<1>7. Does(m, s, x.br, p, out, lr, v)
  <2>. HIDE DEF c, s, lr
  <2>1. /\ Ready(m, lr, v) => Does(m, x.stmts, x.br, p, out, lr, v)
        /\ lr # NoReg /\ HasPrefix(p) /\ v = p.at[2] + ByteBase * p.at[3] /\ Ready(m, NoReg, 0)
              => Does(m, PrefixLength(lr) \o x.stmts, x.br, p, out, lr, v)
    BY <1>2, <1>3, <1>4, BlockDoes
  <2>2. CASE c = h /\ lr # NoReg
    <3>1. s = PrefixLength(lr) \o x.stmts
      BY ONLY <1>5, <2>2
    <3>2. Ready(m, NoReg, 0)
      BY <1>6, <2>2 DEF Prepared
    <3>. QED  BY ONLY <1>2, <2>1, <2>2, <3>1, <3>2
  <2>3. CASE ~(c = h /\ lr # NoReg)
    <3>1. s = x.stmts
      BY ONLY <1>5, <2>3
    <3>2. Ready(m, lr, v)
      BY <1>6, <2>3 DEF Prepared, Ready, lr
    <3>. QED  BY ONLY <2>1, <3>1, <3>2
  <2>. QED  BY <2>2, <2>3
<1>. DEFINE t == PerformAll(m, s, p)
<1>8. ~t.halted /\ Ready(t, lr, v) /\ (Holds(x.br.fn, t.a, Operand(t, x.br)) <=> out)
  BY <1>7 DEF Does
<1>9. Next1(f, i, t) \in B
  <2>1. Next1(f, i, t) = IF out THEN JT(f, i) ELSE JF(f, i)
    <3>. HIDE DEF t
    <3>. QED  BY <1>3, <1>8 DEF Next1
  <2>. HIDE DEF t
  <2>2. Next1(f, i, t) \in Blocks(f) /\ ids[Next1(f, i, t) + 1] = Exit(new, << c, out >>)
    BY <1>3, <2>1
  <2>. HIDE DEF c
  <2>. QED  BY <1>4, <2>2 DEF OfPath, B
<1>. HIDE DEF t
<1>. QED  BY <1>8, <1>9 DEF Onwards, t, B

(* The graph that is drawn comes to the verdict that the path leads to.    *)
LEMMA PathGuides ==
  ASSUME NEW gs \in CsType, NEW b, NEW g, NEW new, NEW ids, NEW f, DrawnFrom(gs, b, g, new, ids, f),
         NEW v, NEW p, NEW d, NEW L, Path(gs, b, g, v, p, d, L)
  PROVE  Meaning(f, p) = Verdict(IF d = "yes" THEN Snaplen ELSE 0)
<1>. DEFINE B == OfPath(gs, ids, f, d, L)
            n == Len(gs.blocks)
            K == g.K \cup {n + 1, n + 2}
            k == IF d = "yes" THEN Snaplen ELSE 0
            z == EndOf1(gs, d)
            lr == gs.linkreg
<1>1. /\ Opened(gs.blocks, b, g) /\ ClosedFrom(gs, b, g, new)
      /\ Numbering(new, K, gs.blocks[b].head, ids) /\ Drawn(new, ids, f) /\ Sound(f)
  BY DEF DrawnFrom
<1>2. L \subseteq g.K /\ gs.blocks[b].head \in L
  BY DEF Path
<1>3. EndBlock(new[z]) /\ new[z].stmts = << >> /\ new[z].br.k = k
  BY <1>1 DEF ClosedFrom, EndOf1
<1>4. f.root \in B
  <2>1. f.root \in Blocks(f)
    BY <1>1 DEF Sound
  <2>2. ids[f.root + 1] = gs.blocks[b].head
    BY <2>1, RootIsHead
  <2>. QED  BY <1>2, <2>1, <2>2 DEF OfPath
<1>5. B \subseteq Blocks(f)
  BY DEF OfPath
<1>. HIDE DEF K, k, lr
<1>6. ASSUME NEW i \in B
      PROVE  IF EndsRun(f, i) THEN f.stmts[i] = << >> /\ f.br[i].k = k
             ELSE \A m : Prepared(f, i, m, lr, v) => Onwards(f, i, m, p, B, lr, v)
  <2>. DEFINE c == ids[i + 1]
  <2>1. i \in Blocks(f) /\ (c \in L \/ c = z)
    BY DEF OfPath
  <2>2. f.stmts[i] = new[c].stmts /\ f.br[i] = new[c].br
    BY <1>1, <2>1 DEF Drawn
  <2>3. CASE c = z
    <3>1. EdgesOf(new, K, ids, f, i)
      BY <1>1, <2>1, DrawnEdges
    <3>2. new[c].jt = Nil
      BY <1>3, <2>3 DEF EndBlock
    <3>3. EndsRun(f, i)
      BY <3>1, <3>2 DEF EdgesOf, EndsRun
    <3>. HIDE DEF c, z
    <3>. QED  BY <1>3, <2>2, <2>3, <3>3
  <2>4. CASE c \in L
    <3>1. ~EndsRun(f, i)
      BY <1>2, <2>1, <2>4, TestEdges DEF TestAt
    <3>2. \A m : Prepared(f, i, m, lr, v) => Onwards(f, i, m, p, B, lr, v)
      <4>. HIDE DEF B
      <4>. QED  BY <2>1, <2>4, PathBlock DEF B, lr
    <3>. QED  BY <3>1, <3>2
  <2>. QED  BY <2>1, <2>3, <2>4
<1>7. Guides(f, p, B, lr, v, k)
  <2>. HIDE DEF B
  <2>. QED  BY <1>4, <1>5, <1>6 DEF Guides
<1>. HIDE DEF B
<1>. QED  BY <1>1, <1>7, GuidedMeans DEF k

-----------------------------------------------------------------------------
(***************************************************************************)
(* A part of an expression: a block, and what it decides                   *)
(* (gen_and, gen_or, gen_not and new blocks).                              *)
(***************************************************************************)

(***************************************************************************)
(* A block on the parser's stack: a part within the blocks A, of no more   *)
(* than n of them in a row, which comes to the verdict d[p] for packet p.  *)
(* That is what the expression means where it can be decided, and always   *)
(* "yes" or "no" if the generator says so.                                 *)
(***************************************************************************)
PartBy(e, blocks, lr, b, g, A, n, d) ==
  /\ Opened(blocks, b, g) /\ g.K \subseteq A /\ g.N <= n
  /\ \A p \in Meanings :
       Decides(blocks, lr, Pre(e, Packets[p]), Packets[p], b, g.K, g.T, g.F, "yes", d[p])
PartOf(e, blocks, lr, b, A, n, d) == \E g : PartBy(e, blocks, lr, b, g, A, n, d)

BlockFor(e, blocks, lr, b, ref, A, n) ==
  \E d \in [Meanings -> Verdict3] :
    /\ PartOf(e, blocks, lr, b, A, n, d)
    /\ blocks[b].means = "true" => \A p \in Meanings : d[p] = "yes"
    /\ blocks[b].means = "false" => \A p \in Meanings : d[p] = "no"
    /\ \A p \in Meanings : ref[p] # "reject" => d[p] = ref[p]

(* Only blocks are new, or those of A have changed.                        *)
OnlyBlocks(old, new, A) ==
  /\ new \in CsType
  /\ new.used = old.used /\ new.cur = old.cur /\ new.failed = old.failed
  /\ new.prefixed = old.prefixed /\ new.linkreg = old.linkreg
  /\ Len(new.blocks) >= Len(old.blocks)
  /\ \A c \in 1 .. Len(old.blocks) : c \notin A => new.blocks[c] = old.blocks[c]

LEMMA OnlyBlocksTwice ==
  ASSUME NEW a \in CsType, NEW b, NEW c, NEW A, NEW B, OnlyBlocks(a, b, A), OnlyBlocks(b, c, B)
  PROVE  OnlyBlocks(a, c, A \cup B)
<1>1. a.blocks \in Seq(Block) /\ b.blocks \in Seq(Block) /\ c.blocks \in Seq(Block)
  BY DEF CsType, OnlyBlocks
<1>2. Len(a.blocks) \in Nat /\ Len(b.blocks) \in Nat /\ Len(c.blocks) \in Nat
  BY <1>1
<1>3. Len(b.blocks) >= Len(a.blocks) /\ Len(c.blocks) >= Len(b.blocks)
  BY DEF OnlyBlocks
<1>4. Len(c.blocks) >= Len(a.blocks)
  BY ONLY <1>2, <1>3
<1>5. 1 .. Len(a.blocks) \subseteq 1 .. Len(b.blocks)
  BY ONLY <1>2, <1>3
<1>. QED  BY <1>4, <1>5 DEF OnlyBlocks

LEMMA NoChange ==
  ASSUME NEW gs \in CsType, NEW A
  PROVE  OnlyBlocks(gs, gs, A)
<1>1. Len(gs.blocks) \in Nat
  BY DEF CsType
<1>. QED  BY <1>1 DEF OnlyBlocks

LEMMA WithBlocks ==
  ASSUME NEW gs \in CsType, NEW blocks \in Seq(Block), NEW A, Len(blocks) >= Len(gs.blocks),
         \A c \in 1 .. Len(gs.blocks) : c \notin A => blocks[c] = gs.blocks[c]
  PROVE  LET new == [gs EXCEPT !.blocks = blocks]
         IN  OnlyBlocks(gs, new, A) /\ new.blocks = blocks
  BY DEF CsType, OnlyBlocks

(* A block of the stack does not mind what is done to others, nor that the *)
(* length of the prefix gets its register.                                 *)
Sooner(lr, lr2) == lr = lr2 \/ lr = NoReg

LEMMA StoresSlots ==
  ASSUME NEW s \in Seq(Stmt)
  PROVE  NoReg \notin Stores(s)
<1>1. \A j \in 1 .. Len(s) : s[j].k \in Word
  <2>1. \A j \in 1 .. Len(s) : s[j] \in InsnType
    BY DEF Stmt
  <2>. QED  BY <2>1 DEF InsnType
<1>2. NoReg \notin Word
  BY Sizes DEF NoReg, Word
<1>. QED  BY <1>1, <1>2 DEF Stores

LEMMA SaysLater ==
  ASSUME NEW blk, blk.stmts \in Seq(Stmt), NEW lr, NEW lr2, Sooner(lr, lr2), NEW v, NEW p, NEW out,
         Says(blk, lr, v, p, out)
  PROVE  Says(blk, lr2, v, p, out)
<1>1. lr2 \notin Stores(blk.stmts) => lr \notin Stores(blk.stmts)
  BY StoresSlots DEF Sooner
<1>2. \A m : Ready(m, lr2, v) => Ready(m, lr, v)
  BY DEF Ready, Sooner
<1>. QED  BY <1>1, <1>2 DEF Says

LEMMA PartKept ==
  ASSUME NEW e, NEW old, NEW new, NEW lr, NEW lr2, Sooner(lr, lr2), NEW b, NEW A, NEW B,
         A \subseteq B, NEW n \in Nat, NEW m \in Nat, n <= m, NEW d, PartOf(e, old, lr, b, A, n, d),
         Len(old) \in Nat, Len(new) \in Nat,
         Len(new) >= Len(old), \A c \in A : c \in 1 .. Len(old) => new[c] = old[c]
  PROVE  PartOf(e, new, lr2, b, B, m, d)
<1>1. PICK g : /\ Opened(old, b, g) /\ g.K \subseteq A /\ g.N <= n
               /\ \A p \in Meanings :
                    Decides(old, lr, Pre(e, Packets[p]), Packets[p], b, g.K, g.T, g.F, "yes", d[p])
  BY DEF PartOf, PartBy
<1>2. /\ g.K \subseteq 1 .. Len(old) /\ b \in g.K /\ g.N \in Nat
      /\ \A c \in g.K : old[c].stmts \in Seq(Stmt)
  BY <1>1 DEF Opened
<1>3. \A c \in g.K : new[c] = old[c]
  BY <1>1, <1>2
<1>4. g.K \subseteq 1 .. Len(new) /\ g.K \subseteq B /\ g.N <= m
  BY <1>1, <1>2
<1>5. \A x \in g.K \X BOOLEAN : Exit(new, x) = Exit(old, x) /\ new[x[1]].sense = old[x[1]].sense
  BY <1>3 DEF Exit
<1>6. ASSUME NEW T, LinkedList(old, g.K, T) PROVE LinkedList(new, g.K, T)
  <2>1. \A i \in 1 .. Len(T) : T[i] \in g.K \X BOOLEAN
    BY <1>6 DEF LinkedList
  <2>2. Len(T) \in Nat
    BY <1>6 DEF LinkedList
  <2>3. \A i \in 2 .. Len(T) : i \in 1 .. Len(T)
    BY <2>2
  <2>. QED  BY <1>5, <1>6, <2>1, <2>3, LinkedKept
<1>7. Opened(new, b, g)
  <2>1. LinkedList(new, g.K, g.T) /\ LinkedList(new, g.K, g.F)
    BY <1>1, <1>6 DEF Opened
  <2>. QED  BY <1>1, <1>3, <1>4, <1>5, <2>1 DEF Opened
<1>8. ASSUME NEW p \in Meanings
      PROVE  Decides(new, lr2, Pre(e, Packets[p]), Packets[p], b, g.K, g.T, g.F, "yes", d[p])
  <2>. DEFINE v == Pre(e, Packets[p])
  <2>. HIDE DEF v
  <2>. SUFFICES ASSUME d[p] # "reject"
                PROVE  \E L \in SUBSET g.K :
                         /\ new[b].head \in L
                         /\ \A c \in L : \E out \in BOOLEAN :
                              /\ Says(new[c], lr2, v, Packets[p], out)
                              /\ LeadsOn(new, << c, out >>, L, g.T, g.F, "yes", d[p])
    BY DEF Decides, v
  <2>1. PICK L \in SUBSET g.K :
          /\ old[b].head \in L
          /\ \A c \in L : \E out \in BOOLEAN :
               /\ Says(old[c], lr, v, Packets[p], out)
               /\ LeadsOn(old, << c, out >>, L, g.T, g.F, "yes", d[p])
    BY <1>1 DEF Decides, v
  <2>2. ASSUME NEW c \in L, NEW out \in BOOLEAN, Says(old[c], lr, v, Packets[p], out),
               LeadsOn(old, << c, out >>, L, g.T, g.F, "yes", d[p])
        PROVE  /\ Says(new[c], lr2, v, Packets[p], out)
               /\ LeadsOn(new, << c, out >>, L, g.T, g.F, "yes", d[p])
    <3>1. new[c] = old[c] /\ old[c].stmts \in Seq(Stmt)
      BY <1>2, <1>3
    <3>2. Says(new[c], lr2, v, Packets[p], out)
      BY <2>2, <3>1, SaysLater
    <3>3. Exit(new, << c, out >>) = Exit(old, << c, out >>)
      BY <1>5
    <3>. QED  BY ONLY <2>2, <3>2, <3>3 DEF LeadsOn
  <2>. QED  BY <1>2, <1>3, <2>1, <2>2
<1>. QED  BY <1>4, <1>7, <1>8 DEF PartOf, PartBy

LEMMA BlockKept ==
  ASSUME NEW e, NEW old \in Seq(Block), NEW new \in Seq(Block), NEW lr, NEW lr2, Sooner(lr, lr2),
         NEW b, NEW A, NEW B,
         A \subseteq B, NEW n \in Nat, NEW m \in Nat, n <= m, NEW ref, NEW ref2,
         BlockFor(e, old, lr, b, ref, A, n),
         Len(new) >= Len(old), \A c \in A : c \in 1 .. Len(old) => new[c] = old[c],
         \A p \in Meanings : ref2[p] # "reject" => ref2[p] = ref[p]
  PROVE  BlockFor(e, new, lr2, b, ref2, B, m)
<1>1. PICK d \in [Meanings -> Verdict3] :
        /\ PartOf(e, old, lr, b, A, n, d)
        /\ old[b].means = "true" => \A p \in Meanings : d[p] = "yes"
        /\ old[b].means = "false" => \A p \in Meanings : d[p] = "no"
        /\ \A p \in Meanings : ref[p] # "reject" => d[p] = ref[p]
  BY DEF BlockFor
<1>2. b \in A /\ b \in 1 .. Len(old)
  BY <1>1 DEF PartOf, PartBy, Opened
<1>3. new[b] = old[b]
  BY <1>2
<1>4. PartOf(e, new, lr2, b, B, m, d)
  <2>1. Len(old) \in Nat /\ Len(new) \in Nat
    OBVIOUS
  <2>. QED  BY <1>1, <2>1, PartKept
<1>. QED  BY <1>1, <1>3, <1>4 DEF BlockFor

LEMMA BlockPicked ==
  ASSUME NEW e, NEW blocks, NEW lr, NEW b, NEW ref, NEW A, NEW n, BlockFor(e, blocks, lr, b, ref, A, n)
  PROVE  \E d, g :
           /\ d \in [Meanings -> Verdict3]
           /\ PartBy(e, blocks, lr, b, g, A, n, d)
           /\ PartOf(e, blocks, lr, b, A, n, d)
           /\ blocks[b].means = "true" => \A p \in Meanings : d[p] = "yes"
           /\ blocks[b].means = "false" => \A p \in Meanings : d[p] = "no"
           /\ \A p \in Meanings : ref[p] # "reject" => d[p] = ref[p]
  BY DEF BlockFor, PartOf

(* What two verdicts are together when u is the one that leaves it open.   *)
OnU(u, x, y) == [p \in Meanings |-> IF x[p] = u THEN y[p] ELSE x[p]]

(* Two parts beside each other, and the one they were joined to.           *)
TwoParts(e, old, lr, b0, g0, A0, n0, d0, b1, g1, A1, n1, d1) ==
  /\ old \in Seq(Block) /\ n0 \in Nat /\ n1 \in Nat /\ A0 \cap A1 = {} /\ n0 + n1 <= Len(old)
  /\ d0 \in [Meanings -> Verdict3] /\ PartBy(e, old, lr, b0, g0, A0, n0, d0)
  /\ d1 \in [Meanings -> Verdict3] /\ PartBy(e, old, lr, b1, g1, A1, n1, d1)
Remade(e, old, new, lr, b1, A, n, d) ==
  /\ PartOf(e, new, lr, b1, A, n, d)
  /\ new \in Seq(Block) /\ Len(new) = Len(old)
  /\ \A c \in 1 .. Len(old) : c \notin A => new[c] = old[c]
  /\ new[b1].means = old[b1].means

LEMMA JoinedFor ==
  ASSUME NEW e, NEW old, NEW new, NEW lr, NEW b0, NEW g0, NEW A0, NEW n0, NEW d0,
         NEW b1, NEW g1, NEW A1, NEW n1, NEW d1, NEW u,
         TwoParts(e, old, lr, b0, g0, A0, n0, d0, b1, g1, A1, n1, d1),
         Apart(old, b0, g0, b1, g1) => Joined(old, new, b1, g0, g1, u)
  PROVE  Remade(e, old, new, lr, b1, A0 \cup A1, n0 + n1, OnU(u, d0, d1))
<1>. DEFINE A == A0 \cup A1
            n == n0 + n1
            d == OnU(u, d0, d1)
<1>. USE DEF PartBy, TwoParts
<1>0. /\ g0.K \subseteq 1 .. Len(old) /\ g0.N \in Nat /\ g1.K \subseteq 1 .. Len(old) /\ g1.N \in Nat
      /\ g0.N <= n0 /\ g1.N <= n1
  BY DEF Opened
<1>1. Apart(old, b0, g0, b1, g1)
  <2>1. g0.K \cap g1.K = {}
    OBVIOUS
  <2>2. Len(old) \in Nat
    OBVIOUS
  <2>3. g0.N + g1.N <= Len(old)
    BY ONLY <1>0, <2>2, n0 \in Nat, n1 \in Nat, n0 + n1 <= Len(old)
  <2>. QED  BY <2>1, <2>3 DEF Apart
<1>2. Joined(old, new, b1, g0, g1, u)
  BY <1>1
<1>3. PICK g : /\ Opened(new, b1, g) /\ g.K = g0.K \cup g1.K /\ g.N = g0.N + g1.N
               /\ \A l, v, p : \A e0, e1 \in Verdict3 :
                    /\ \E b : Decides(old, l, v, p, b, g0.K, g0.T, g0.F, "yes", e0)
                               /\ Opened(old, b, g0)
                    /\ Decides(old, l, v, p, b1, g1.K, g1.T, g1.F, "yes", e1)
                    => Decides(new, l, v, p, b1, g.K, g.T, g.F, "yes", IF e0 = u THEN e1 ELSE e0)
  BY ONLY <1>2 DEF Joined
<1>4. g.K \subseteq A /\ g.N <= n
  <2>1. g.K \subseteq A
    BY <1>3
  <2>2. g.N = g0.N + g1.N
    BY <1>3
  <2>. QED  BY ONLY <1>0, <2>1, <2>2, n0 \in Nat, n1 \in Nat, n = n0 + n1
<1>5. ASSUME NEW p \in Meanings
      PROVE  Decides(new, lr, Pre(e, Packets[p]), Packets[p], b1, g.K, g.T, g.F, "yes",
                     IF d0[p] = u THEN d1[p] ELSE d0[p])
  <2>1. d0[p] \in Verdict3 /\ d1[p] \in Verdict3
    OBVIOUS
  <2>2. /\ Decides(old, lr, Pre(e, Packets[p]), Packets[p], b0, g0.K, g0.T, g0.F, "yes", d0[p])
        /\ Decides(old, lr, Pre(e, Packets[p]), Packets[p], b1, g1.K, g1.T, g1.F, "yes", d1[p])
    OBVIOUS
  <2>. QED  BY <1>3, <2>1, <2>2
<1>6. PartOf(e, new, lr, b1, A, n, d)
  BY <1>3, <1>4, <1>5 DEF PartOf, OnU
<1>7. \A c \in 1 .. Len(old) : c \notin A => new[c] = old[c]
  BY <1>2 DEF Joined
<1>8. new \in Seq(Block) /\ Len(new) = Len(old) /\ new[b1].means = old[b1].means
  BY <1>2 DEF Joined
<1>. HIDE DEF A, n, d
<1>9. Remade(e, old, new, lr, b1, A, n, d)
  BY ONLY <1>6, <1>7, <1>8 DEF Remade
<1>. QED  BY <1>9 DEF A, n, d

(* gen_and.                                                                *)
LEMMA AndRight ==
  ASSUME NEW gs \in CsType, NEW e, NEW lr, NEW b0, NEW b1, NEW ref0 \in [Meanings -> Verdict3],
         NEW ref1 \in [Meanings -> Verdict3], NEW A0, NEW A1, NEW n0 \in Nat, NEW n1 \in Nat,
         BlockFor(e, gs.blocks, lr, b0, ref0, A0, n0), BlockFor(e, gs.blocks, lr, b1, ref1, A1, n1),
         A0 \cap A1 = {}, n0 + n1 <= Len(gs.blocks),
         NEW ref, \A p \in Meanings : ref[p] = And3(ref0[p], ref1[p])
  PROVE  LET m == GenAnd(gs, b0, b1)
         IN  /\ OnlyBlocks(gs, m.cs, A0 \cup A1) /\ Len(m.cs.blocks) = Len(gs.blocks)
             /\ BlockFor(e, m.cs.blocks, lr, m.blk, ref, A0 \cup A1, n0 + n1)
<1>. DEFINE old == gs.blocks
            m == GenAnd(gs, b0, b1)
            m0 == old[b0].means
            m1 == old[b1].means
<1>1. PICK d0, g0 :
           /\ d0 \in [Meanings -> Verdict3]
           /\ PartBy(e, old, lr, b0, g0, A0, n0, d0)
           /\ PartOf(e, old, lr, b0, A0, n0, d0)
           /\ m0 = "true" => \A p \in Meanings : d0[p] = "yes"
           /\ m0 = "false" => \A p \in Meanings : d0[p] = "no"
           /\ \A p \in Meanings : ref0[p] # "reject" => d0[p] = ref0[p]
  BY BlockPicked
<1>2. PICK d1, g1 :
           /\ d1 \in [Meanings -> Verdict3]
           /\ PartBy(e, old, lr, b1, g1, A1, n1, d1)
           /\ PartOf(e, old, lr, b1, A1, n1, d1)
           /\ m1 = "true" => \A p \in Meanings : d1[p] = "yes"
           /\ m1 = "false" => \A p \in Meanings : d1[p] = "no"
           /\ \A p \in Meanings : ref1[p] # "reject" => d1[p] = ref1[p]
  BY BlockPicked
<1>3. old \in Seq(Block) /\ Len(old) \in Nat
  BY DEF CsType
<1>4. /\ A0 \subseteq A0 \cup A1 /\ A1 \subseteq A0 \cup A1 /\ n0 + n1 \in Nat /\ n0 <= n0 + n1 /\ n1 <= n0 + n1
      /\ Sooner(lr, lr) /\ Len(old) >= Len(old)
  BY <1>3 DEF Sooner
<1>. HIDE DEF old
<1>5. PartOf(e, old, lr, b0, A0 \cup A1, n0 + n1, d0)
  BY ONLY <1>1, <1>3, <1>4, n0 \in Nat, PartKept
<1>6. PartOf(e, old, lr, b1, A0 \cup A1, n0 + n1, d1)
  BY ONLY <1>2, <1>3, <1>4, n1 \in Nat, PartKept
<1>7. \A p \in Meanings : /\ d0[p] \in Verdict3 /\ d1[p] \in Verdict3
                          /\ ref0[p] \in Verdict3 /\ ref1[p] \in Verdict3
  BY <1>1, <1>2
<1>8. \A p \in Meanings : ref[p] # "reject" => (IF d0[p] = "yes" THEN d1[p] ELSE d0[p]) = ref[p]
  BY <1>1, <1>2, <1>7 DEF And3, Verdict3
<1>9. CASE m.cs = gs /\ m.blk = b0 /\ (m0 = "false" \/ m1 = "true")
  <2>1. \A p \in Meanings : ref[p] # "reject" => d0[p] = ref[p]
    BY <1>1, <1>2, <1>7, <1>8, <1>9 DEF Verdict3
  <2>2. BlockFor(e, old, lr, b0, ref, A0 \cup A1, n0 + n1)
    BY <1>1, <1>5, <2>1 DEF BlockFor
  <2>. QED  BY <1>9, <2>2, NoChange DEF old
<1>10. CASE m.cs = gs /\ m.blk = b1 /\ (m0 = "true" \/ m1 = "false")
  <2>1. \A p \in Meanings : ref[p] # "reject" => d1[p] = ref[p]
    BY <1>1, <1>2, <1>7, <1>10 DEF And3, Verdict3
  <2>2. BlockFor(e, old, lr, b1, ref, A0 \cup A1, n0 + n1)
    BY <1>2, <1>6, <2>1 DEF BlockFor
  <2>. QED  BY <1>10, <2>2, NoChange DEF old
<1>11. CASE /\ m.cs = [gs EXCEPT !.blocks = Join(old, b0, b1)] /\ m.blk = b1
            /\ m1 # "true" /\ m1 # "false"
  <2>. DEFINE new == Join(old, b0, b1)
              A == A0 \cup A1
              n == n0 + n1
              d == OnU("yes", d0, d1)
  <2>1. Apart(old, b0, g0, b1, g1) => Joined(old, new, b1, g0, g1, "yes")
    BY JoinOpened
  <2>. HIDE DEF new, m0, m1
  <2>2. TwoParts(e, old, lr, b0, g0, A0, n0, d0, b1, g1, A1, n1, d1)
    BY <1>1, <1>2, <1>3 DEF TwoParts, old
  <2>3. Remade(e, old, new, lr, b1, A, n, d)
    BY ONLY <2>1, <2>2, JoinedFor
  <2>4. d \in [Meanings -> Verdict3] /\ \A p \in Meanings : ref[p] # "reject" => d[p] = ref[p]
    BY <1>7, <1>8 DEF OnU
  <2>. HIDE DEF A, n, d
  <2>5. BlockFor(e, new, lr, b1, ref, A, n)
    BY <1>11, <2>3, <2>4 DEF BlockFor, m1, Remade
  <2>6. OnlyBlocks(gs, m.cs, A) /\ m.cs.blocks = new
    <3>1. m.cs = [gs EXCEPT !.blocks = new]
      BY <1>11 DEF new
    <3>2. Len(new) >= Len(old)
      BY <1>3, <2>3 DEF Remade
    <3>. HIDE DEF m
    <3>. QED  BY <2>3, <3>1, <3>2, WithBlocks DEF old, Remade
  <2>. HIDE DEF m
  <2>7. m.blk = b1
    BY <1>11
  <2>8. Len(m.cs.blocks) = Len(old)
    BY ONLY <2>3, <2>6 DEF Remade
  <2>9. BlockFor(e, m.cs.blocks, lr, m.blk, ref, A, n)
    BY ONLY <2>5, <2>6, <2>7
  <2>10. OnlyBlocks(gs, m.cs, A) /\ Len(m.cs.blocks) = Len(gs.blocks)
    BY ONLY <2>6, <2>8 DEF old
  <2>. QED  BY ONLY <2>9, <2>10 DEF A, n, m
<1>12. \/ m.cs = gs /\ m.blk = b0 /\ (m0 = "false" \/ m1 = "true")
       \/ m.cs = gs /\ m.blk = b1 /\ (m0 = "true" \/ m1 = "false")
       \/ /\ m.cs = [gs EXCEPT !.blocks = Join(old, b0, b1)] /\ m.blk = b1
          /\ m1 # "true" /\ m1 # "false"
  BY DEF GenAnd, old
<1>. HIDE DEF m, m0, m1
<1>. QED  BY <1>9, <1>10, <1>11, <1>12 DEF m

(* gen_or.                                                                 *)
LEMMA OrRight ==
  ASSUME NEW gs \in CsType, NEW e, NEW lr, NEW b0, NEW b1, NEW ref0 \in [Meanings -> Verdict3],
         NEW ref1 \in [Meanings -> Verdict3], NEW A0, NEW A1, NEW n0 \in Nat, NEW n1 \in Nat,
         BlockFor(e, gs.blocks, lr, b0, ref0, A0, n0), BlockFor(e, gs.blocks, lr, b1, ref1, A1, n1),
         A0 \cap A1 = {}, n0 + n1 <= Len(gs.blocks),
         NEW ref, \A p \in Meanings : ref[p] = Or3(ref0[p], ref1[p])
  PROVE  LET m == GenOr(gs, b0, b1)
         IN  /\ OnlyBlocks(gs, m.cs, A0 \cup A1) /\ Len(m.cs.blocks) = Len(gs.blocks)
             /\ BlockFor(e, m.cs.blocks, lr, m.blk, ref, A0 \cup A1, n0 + n1)
<1>. DEFINE old == gs.blocks
            m == GenOr(gs, b0, b1)
            m0 == old[b0].means
            m1 == old[b1].means
<1>1. PICK d0, g0 :
           /\ d0 \in [Meanings -> Verdict3]
           /\ PartBy(e, old, lr, b0, g0, A0, n0, d0)
           /\ PartOf(e, old, lr, b0, A0, n0, d0)
           /\ m0 = "true" => \A p \in Meanings : d0[p] = "yes"
           /\ m0 = "false" => \A p \in Meanings : d0[p] = "no"
           /\ \A p \in Meanings : ref0[p] # "reject" => d0[p] = ref0[p]
  BY BlockPicked
<1>2. PICK d1, g1 :
           /\ d1 \in [Meanings -> Verdict3]
           /\ PartBy(e, old, lr, b1, g1, A1, n1, d1)
           /\ PartOf(e, old, lr, b1, A1, n1, d1)
           /\ m1 = "true" => \A p \in Meanings : d1[p] = "yes"
           /\ m1 = "false" => \A p \in Meanings : d1[p] = "no"
           /\ \A p \in Meanings : ref1[p] # "reject" => d1[p] = ref1[p]
  BY BlockPicked
<1>3. old \in Seq(Block) /\ Len(old) \in Nat
  BY DEF CsType
<1>4. /\ A0 \subseteq A0 \cup A1 /\ A1 \subseteq A0 \cup A1 /\ n0 + n1 \in Nat /\ n0 <= n0 + n1 /\ n1 <= n0 + n1
      /\ Sooner(lr, lr) /\ Len(old) >= Len(old)
  BY <1>3 DEF Sooner
<1>. HIDE DEF old
<1>5. PartOf(e, old, lr, b0, A0 \cup A1, n0 + n1, d0)
  BY ONLY <1>1, <1>3, <1>4, n0 \in Nat, PartKept
<1>6. PartOf(e, old, lr, b1, A0 \cup A1, n0 + n1, d1)
  BY ONLY <1>2, <1>3, <1>4, n1 \in Nat, PartKept
<1>7. \A p \in Meanings : /\ d0[p] \in Verdict3 /\ d1[p] \in Verdict3
                          /\ ref0[p] \in Verdict3 /\ ref1[p] \in Verdict3
  BY <1>1, <1>2
<1>8. \A p \in Meanings : ref[p] # "reject" => (IF d0[p] = "no" THEN d1[p] ELSE d0[p]) = ref[p]
  BY <1>1, <1>2, <1>7 DEF Or3, Verdict3
<1>9. CASE m.cs = gs /\ m.blk = b0 /\ (m0 = "true" \/ m1 = "false")
  <2>1. \A p \in Meanings : ref[p] # "reject" => d0[p] = ref[p]
    BY <1>1, <1>2, <1>7, <1>8, <1>9 DEF Verdict3
  <2>2. BlockFor(e, old, lr, b0, ref, A0 \cup A1, n0 + n1)
    BY <1>1, <1>5, <2>1 DEF BlockFor
  <2>. QED  BY <1>9, <2>2, NoChange DEF old
<1>10. CASE m.cs = gs /\ m.blk = b1 /\ (m0 = "false" \/ m1 = "true")
  <2>1. \A p \in Meanings : ref[p] # "reject" => d1[p] = ref[p]
    BY <1>1, <1>2, <1>7, <1>10 DEF Or3, Verdict3
  <2>2. BlockFor(e, old, lr, b1, ref, A0 \cup A1, n0 + n1)
    BY <1>2, <1>6, <2>1 DEF BlockFor
  <2>. QED  BY <1>10, <2>2, NoChange DEF old
<1>11. CASE /\ m.cs = [gs EXCEPT !.blocks = JoinOr(old, b0, b1)] /\ m.blk = b1
            /\ m1 # "true" /\ m1 # "false"
  <2>. DEFINE new == JoinOr(old, b0, b1)
              A == A0 \cup A1
              n == n0 + n1
              d == OnU("no", d0, d1)
  <2>1. Apart(old, b0, g0, b1, g1) => Joined(old, new, b1, g0, g1, "no")
    BY JoinOrOpened
  <2>. HIDE DEF new, m0, m1
  <2>2. TwoParts(e, old, lr, b0, g0, A0, n0, d0, b1, g1, A1, n1, d1)
    BY <1>1, <1>2, <1>3 DEF TwoParts, old
  <2>3. Remade(e, old, new, lr, b1, A, n, d)
    BY ONLY <2>1, <2>2, JoinedFor
  <2>4. d \in [Meanings -> Verdict3] /\ \A p \in Meanings : ref[p] # "reject" => d[p] = ref[p]
    BY <1>7, <1>8 DEF OnU
  <2>. HIDE DEF A, n, d
  <2>5. BlockFor(e, new, lr, b1, ref, A, n)
    BY <1>11, <2>3, <2>4 DEF BlockFor, m1, Remade
  <2>6. OnlyBlocks(gs, m.cs, A) /\ m.cs.blocks = new
    <3>1. m.cs = [gs EXCEPT !.blocks = new]
      BY <1>11 DEF new
    <3>2. Len(new) >= Len(old)
      BY <1>3, <2>3 DEF Remade
    <3>. HIDE DEF m
    <3>. QED  BY <2>3, <3>1, <3>2, WithBlocks DEF old, Remade
  <2>. HIDE DEF m
  <2>7. m.blk = b1
    BY <1>11
  <2>8. Len(m.cs.blocks) = Len(old)
    BY ONLY <2>3, <2>6 DEF Remade
  <2>9. BlockFor(e, m.cs.blocks, lr, m.blk, ref, A, n)
    BY ONLY <2>5, <2>6, <2>7
  <2>10. OnlyBlocks(gs, m.cs, A) /\ Len(m.cs.blocks) = Len(gs.blocks)
    BY ONLY <2>6, <2>8 DEF old
  <2>. QED  BY ONLY <2>9, <2>10 DEF A, n, m
<1>12. \/ m.cs = gs /\ m.blk = b0 /\ (m0 = "true" \/ m1 = "false")
       \/ m.cs = gs /\ m.blk = b1 /\ (m0 = "false" \/ m1 = "true")
       \/ /\ m.cs = [gs EXCEPT !.blocks = JoinOr(old, b0, b1)] /\ m.blk = b1
          /\ m1 # "true" /\ m1 # "false"
  BY DEF GenOr, old
<1>. HIDE DEF m, m0, m1
<1>. QED  BY <1>9, <1>10, <1>11, <1>12 DEF m

(* gen_not.                                                                *)
LEMMA NotShape ==
  ASSUME NEW blocks \in Seq(Block), NEW b \in 1 .. Len(blocks)
  PROVE  LET new == Negated(blocks, b)
         IN  /\ new \in Seq(Block) /\ Len(new) = Len(blocks)
             /\ \A c \in 1 .. Len(blocks) :
                  /\ new[c].stmts = blocks[c].stmts /\ new[c].br = blocks[c].br
                  /\ new[c].head = blocks[c].head
                  /\ new[c].sense = IF c = b THEN ~blocks[c].sense ELSE blocks[c].sense
                  /\ c # b => new[c] = blocks[c]
             /\ new[b].means = Opposite(blocks[b].means)
             /\ \A e \in Exits(blocks) : Exit(new, e) = Exit(blocks, e)
<1>. DEFINE new == Negated(blocks, b)
            x == [blocks[b] EXCEPT !.sense = ~@]
            y == [x EXCEPT !.means = Opposite(@)]
<1>1. /\ x \in Block /\ x.stmts = blocks[b].stmts /\ x.br = blocks[b].br
      /\ x.head = blocks[b].head /\ x.sense = ~blocks[b].sense /\ x.means = blocks[b].means
      /\ x.jt = blocks[b].jt /\ x.jf = blocks[b].jf
  <2>1. blocks[b] \in Block
    OBVIOUS
  <2>. QED  BY <2>1 DEF Block
<1>2. /\ y \in Block /\ y.stmts = x.stmts /\ y.br = x.br
      /\ y.head = x.head /\ y.sense = x.sense /\ y.means = Opposite(x.means)
      /\ y.jt = x.jt /\ y.jf = x.jf
  <2>. HIDE DEF x
  <2>1. Opposite(x.means) \in {"uncertain", "true", "false"}
    BY <1>1 DEF Block, Opposite
  <2>. QED  BY <1>1, <2>1 DEF Block
<1>. HIDE DEF y
<1>3. Flip(blocks, b) = [blocks EXCEPT ![b] = x]
  BY DEF Flip, x
<1>. HIDE DEF x
<1>4. b \in DOMAIN blocks /\ Flip(blocks, b)[b] = x
  BY <1>3
<1>5. new = [Flip(blocks, b) EXCEPT ![b] = y]
  BY <1>4 DEF y, Negated
<1>6. /\ new \in [1 .. Len(blocks) -> Block] /\ Len(new) = Len(blocks) /\ new \in Seq(Block)
      /\ \A c \in 1 .. Len(blocks) : new[c] = IF c = b THEN y ELSE blocks[c]
  <2>1. blocks \in [1 .. Len(blocks) -> Block] /\ Len(blocks) \in Nat
    OBVIOUS
  <2>. QED  BY <1>2, <1>3, <1>5, <2>1
<1>. HIDE DEF new
<1>7. \A c \in 1 .. Len(blocks) :
        /\ new[c].stmts = blocks[c].stmts /\ new[c].br = blocks[c].br
        /\ new[c].head = blocks[c].head
        /\ new[c].sense = IF c = b THEN ~blocks[c].sense ELSE blocks[c].sense
        /\ c # b => new[c] = blocks[c]
  BY ONLY <1>1, <1>2, <1>6
<1>8. new[b].means = Opposite(blocks[b].means)
  BY ONLY <1>1, <1>2, <1>6, b \in 1 .. Len(blocks)
<1>9. ASSUME NEW e \in Exits(blocks) PROVE Exit(new, e) = Exit(blocks, e)
  <2>. PICK c \in 1 .. Len(blocks), d \in BOOLEAN : e = << c, d >>
    BY DEF Exits
  <2>. QED  BY <1>1, <1>2, <1>6 DEF Exit
<1>. QED  BY <1>6, <1>7, <1>8, <1>9 DEF new

LEMMA TurnedList ==
  ASSUME NEW old, NEW new, NEW K, NEW b, NEW T,
         LinkedList(old, K, T), \A i \in 2 .. Len(T) : T[i][1] # b,
         \A c \in K : c # b => new[c].sense = old[c].sense,
         \A e \in K \X BOOLEAN : Exit(new, e) = Exit(old, e)
  PROVE  LinkedList(new, K, T)
<1>1. \A i \in 1 .. Len(T) : T[i] \in K \X BOOLEAN
  BY DEF LinkedList
<1>2. \A i \in 1 .. Len(T) : T[i][1] \in K
  BY <1>1
<1>3. \A i \in 2 .. Len(T) : i \in 1 .. Len(T)
  BY DEF LinkedList
<1>4. \A i \in 2 .. Len(T) : T[i][2] = ~new[T[i][1]].sense
  BY <1>2, <1>3 DEF LinkedList
<1>5. \A i \in 1 .. Len(T) : Exit(new, T[i]) = IF i = Len(T) THEN Nil ELSE T[i + 1][1]
  BY <1>1 DEF LinkedList
<1>. QED  BY <1>4, <1>5 DEF LinkedList

(* Beyond the first, a list has no exit of block b.                        *)
LEMMA OthersElsewhere ==
  ASSUME NEW blocks \in Seq(Block), NEW b, NEW g, Opened(blocks, b, g)
  PROVE  /\ \A i \in 2 .. Len(g.T) : g.T[i][1] # b
         /\ \A i \in 2 .. Len(g.F) : g.F[i][1] # b
<1>1. /\ LinkedList(blocks, g.K, g.T) /\ g.T[1] = << b, ~blocks[b].sense >>
      /\ LinkedList(blocks, g.K, g.F) /\ g.F[1] = << b, blocks[b].sense >>
      /\ Ends(g.T) \cap Ends(g.F) = {} /\ b \in 1 .. Len(blocks)
  BY DEF Opened
<1>2. ASSUME NEW i \in 2 .. Len(g.T), g.T[i][1] = b PROVE FALSE
  <2>1. i \in 1 .. Len(g.T) /\ 1 \in 1 .. Len(g.T) /\ i # 1
    BY <1>1 DEF LinkedList
  <2>2. g.T[i] \in g.K \X BOOLEAN /\ g.T[i][2] = ~blocks[b].sense
    BY <1>1, <1>2, <2>1 DEF LinkedList
  <2>3. g.T[i] = << b, ~blocks[b].sense >>
    BY <1>2, <2>2
  <2>. QED  BY <1>1, <2>1, <2>3 DEF LinkedList
<1>3. ASSUME NEW i \in 2 .. Len(g.F), g.F[i][1] = b PROVE FALSE
  <2>1. i \in 1 .. Len(g.F) /\ 1 \in 1 .. Len(g.T)
    BY <1>1 DEF LinkedList
  <2>2. g.F[i] \in g.K \X BOOLEAN /\ g.F[i][2] = ~blocks[b].sense
    BY <1>1, <1>3, <2>1 DEF LinkedList
  <2>3. g.F[i] = g.T[1]
    BY <1>1, <1>3, <2>2
  <2>4. g.F[i] \in Ends(g.F) /\ g.T[1] \in Ends(g.T)
    BY <2>1 DEF Ends
  <2>. QED  BY <1>1, <2>3, <2>4
<1>. QED  BY <1>2, <1>3

LEMMA NotOpened ==
  ASSUME NEW blocks \in Seq(Block), NEW b, NEW g, Opened(blocks, b, g),
         NEW new, new = Negated(blocks, b),
         NEW h, h = [K |-> g.K, T |-> g.F, F |-> g.T, r |-> g.r, N |-> g.N]
  PROVE  /\ Opened(new, b, h) /\ h.K = g.K /\ h.N = g.N /\ h.T = g.F /\ h.F = g.T
         /\ \A c \in g.K : new[c].stmts = blocks[c].stmts /\ new[c].br = blocks[c].br
                           /\ new[c].head = blocks[c].head
         /\ \A e \in g.K \X BOOLEAN : Exit(new, e) = Exit(blocks, e)
<1>1. h.K = g.K /\ h.N = g.N /\ h.T = g.F /\ h.F = g.T /\ h.r = g.r
  OBVIOUS
<1>2. /\ b \in g.K /\ g.K \subseteq 1 .. Len(blocks)
      /\ LinkedList(blocks, g.K, g.T) /\ LinkedList(blocks, g.K, g.F)
      /\ g.T[1] = << b, ~blocks[b].sense >> /\ g.F[1] = << b, blocks[b].sense >>
  BY DEF Opened
<1>3. /\ Len(new) = Len(blocks)
      /\ \A c \in g.K : /\ new[c].stmts = blocks[c].stmts /\ new[c].br = blocks[c].br
                        /\ new[c].head = blocks[c].head
                        /\ new[c].sense = IF c = b THEN ~blocks[c].sense ELSE blocks[c].sense
      /\ \A e \in g.K \X BOOLEAN : Exit(new, e) = Exit(blocks, e)
  <2>1. b \in 1 .. Len(blocks)
    BY <1>2
  <2>2. g.K \X BOOLEAN \subseteq Exits(blocks)
    BY <1>2 DEF Exits
  <2>3. /\ Len(new) = Len(blocks)
        /\ \A c \in 1 .. Len(blocks) :
             /\ new[c].stmts = blocks[c].stmts /\ new[c].br = blocks[c].br
             /\ new[c].head = blocks[c].head
             /\ new[c].sense = IF c = b THEN ~blocks[c].sense ELSE blocks[c].sense
        /\ \A e \in Exits(blocks) : Exit(new, e) = Exit(blocks, e)
    BY <2>1, NotShape
  <2>. QED  BY ONLY <1>2, <2>2, <2>3
<1>4. LinkedList(new, g.K, g.T) /\ LinkedList(new, g.K, g.F)
  <2>1. /\ \A i \in 2 .. Len(g.T) : g.T[i][1] # b
        /\ \A i \in 2 .. Len(g.F) : g.F[i][1] # b
    BY OthersElsewhere
  <2>2. \A c \in g.K : c # b => new[c].sense = blocks[c].sense
    BY <1>3
  <2>3. \A e \in g.K \X BOOLEAN : Exit(new, e) = Exit(blocks, e)
    BY <1>3
  <2>4. LinkedList(new, g.K, g.T)
    BY ONLY <1>2, <2>1, <2>2, <2>3, TurnedList
  <2>5. LinkedList(new, g.K, g.F)
    BY ONLY <1>2, <2>1, <2>2, <2>3, TurnedList
  <2>. QED  BY ONLY <2>4, <2>5
<1>5. new[b].sense = ~blocks[b].sense /\ blocks[b].sense \in BOOLEAN
  <2>1. blocks[b] \in Block
    BY <1>2
  <2>. QED  BY <1>2, <1>3, <2>1 DEF Block
<1>6. h.T[1] = << b, ~new[b].sense >> /\ h.F[1] = << b, new[b].sense >>
  BY <1>1, <1>2, <1>5
<1>7. Opened(new, b, h)
  <2>1. \A e \in (g.K \X BOOLEAN) \ (Ends(g.F) \cup Ends(g.T)) :
          Exit(new, e) \in g.K /\ g.r[Exit(new, e)] > g.r[e[1]]
    BY <1>3 DEF Opened
  <2>2. \A c \in g.K : new[c].stmts \in Seq(Stmt) /\ new[c].br \in Test1
    BY <1>3 DEF Opened
  <2>3. /\ g.K \subseteq 1 .. Len(new) /\ b \in g.K /\ new[b].head \in g.K
        /\ g.N \in Nat /\ g.r \in [g.K -> 0 .. g.N - 1]
        /\ Len(g.T) <= g.N /\ Len(g.F) <= g.N /\ Ends(g.F) \cap Ends(g.T) = {}
    BY <1>3 DEF Opened
  <2>. QED  BY ONLY <1>1, <1>4, <1>6, <2>1, <2>2, <2>3 DEF Opened
<1>. QED  BY <1>1, <1>3, <1>7

LEMMA NotRight ==
  ASSUME NEW gs \in CsType, NEW e, NEW lr, NEW b, NEW ref \in [Meanings -> Verdict3], NEW A, NEW n,
         BlockFor(e, gs.blocks, lr, b, ref, A, n),
         NEW ref2, \A p \in Meanings : ref2[p] = Not3(ref[p])
  PROVE  LET m == GenNot(gs, b)
         IN  /\ OnlyBlocks(gs, m.cs, A) /\ Len(m.cs.blocks) = Len(gs.blocks)
             /\ BlockFor(e, m.cs.blocks, lr, m.blk, ref2, A, n)
<1>. DEFINE old == gs.blocks
            new == Negated(old, b)
<1>1. PICK d, g :
           /\ d \in [Meanings -> Verdict3]
           /\ PartBy(e, old, lr, b, g, A, n, d)
           /\ old[b].means = "true" => \A p \in Meanings : d[p] = "yes"
           /\ old[b].means = "false" => \A p \in Meanings : d[p] = "no"
           /\ \A p \in Meanings : ref[p] # "reject" => d[p] = ref[p]
  BY BlockPicked
<1>. DEFINE h == [K |-> g.K, T |-> g.F, F |-> g.T, r |-> g.r, N |-> g.N]
            d2 == [p \in Meanings |-> Not3(d[p])]
<1>2. old \in Seq(Block) /\ Len(old) \in Nat
  BY DEF CsType
<1>3. /\ Opened(old, b, g) /\ g.K \subseteq A /\ g.N <= n
      /\ \A p \in Meanings :
           Decides(old, lr, Pre(e, Packets[p]), Packets[p], b, g.K, g.T, g.F, "yes", d[p])
  BY <1>1 DEF PartBy
<1>4. b \in g.K /\ b \in 1 .. Len(old) /\ Ends(g.T) \cap Ends(g.F) = {} /\ old[b].means \in {"uncertain", "true", "false"}
  <2>1. b \in g.K /\ b \in 1 .. Len(old) /\ Ends(g.T) \cap Ends(g.F) = {}
    BY <1>3 DEF Opened
  <2>2. old[b] \in Block
    BY <1>2, <2>1
  <2>. QED  BY <2>1, <2>2 DEF Block
<1>. HIDE DEF old
<1>5. /\ new \in Seq(Block) /\ Len(new) = Len(old) /\ new[b].means = Opposite(old[b].means)
      /\ \A c \in 1 .. Len(old) : c # b => new[c] = old[c]
  <2>1. new \in Seq(Block) /\ Len(new) = Len(old)
    BY ONLY <1>2, <1>4, NotShape
  <2>2. new[b].means = Opposite(old[b].means)
    BY ONLY <1>2, <1>4, NotShape
  <2>3. \A c \in 1 .. Len(old) : c # b => new[c] = old[c]
    BY ONLY <1>2, <1>4, NotShape
  <2>. QED  BY ONLY <2>1, <2>2, <2>3
<1>6. /\ Opened(new, b, h) /\ h.K = g.K /\ h.N = g.N /\ h.T = g.F /\ h.F = g.T
      /\ \A c \in g.K : new[c].stmts = old[c].stmts /\ new[c].br = old[c].br
                        /\ new[c].head = old[c].head
      /\ \A x \in g.K \X BOOLEAN : Exit(new, x) = Exit(old, x)
  BY <1>2, <1>3, NotOpened
<1>. HIDE DEF new, h
<1>7. \A p \in Meanings : d[p] \in Verdict3
  BY <1>1
<1>8. ASSUME NEW p \in Meanings
      PROVE  Decides(new, lr, Pre(e, Packets[p]), Packets[p], b, h.K, h.T, h.F, "yes", Not3(d[p]))
  <2>. DEFINE v == Pre(e, Packets[p])
              q == Packets[p]
  <2>. HIDE DEF v, q
  <2>1. SUFFICES ASSUME Not3(d[p]) # "reject"
        PROVE  \E L \in SUBSET g.K :
                 /\ new[b].head \in L
                 /\ \A c \in L : \E out \in BOOLEAN :
                      /\ Says(new[c], lr, v, q, out)
                      /\ LeadsOn(new, << c, out >>, L, g.F, g.T, "yes", Not3(d[p]))
    BY <1>6 DEF Decides, v, q
  <2>2. d[p] # "reject"
    BY <2>1 DEF Not3
  <2>3. PICK L \in SUBSET g.K :
          /\ old[b].head \in L
          /\ \A c \in L : \E out \in BOOLEAN :
               Says(old[c], lr, v, q, out) /\ LeadsOn(old, << c, out >>, L, g.T, g.F, "yes", d[p])
    BY <1>3, <2>2 DEF Decides, v, q
  <2>4. (Not3(d[p]) = "yes" <=> d[p] # "yes") /\ (Not3(d[p]) # "yes" <=> d[p] = "yes")
    BY <1>7, <2>2 DEF Not3, Verdict3
  <2>5. ASSUME NEW c \in L, NEW out \in BOOLEAN, Says(old[c], lr, v, q, out),
               LeadsOn(old, << c, out >>, L, g.T, g.F, "yes", d[p])
        PROVE  /\ Says(new[c], lr, v, q, out)
               /\ LeadsOn(new, << c, out >>, L, g.F, g.T, "yes", Not3(d[p]))
    <3>1. new[c].stmts = old[c].stmts /\ new[c].br = old[c].br
      BY <1>6
    <3>2. Exit(new, << c, out >>) = Exit(old, << c, out >>)
      BY <1>6
    <3>3. Says(new[c], lr, v, q, out)
      BY ONLY <2>5, <3>1 DEF Says
    <3>4. ~(<< c, out >> \in Ends(g.T) /\ << c, out >> \in Ends(g.F))
      BY <1>4
    <3>5. LeadsOn(new, << c, out >>, L, g.F, g.T, "yes", Not3(d[p]))
      BY ONLY <2>4, <2>5, <3>2, <3>4 DEF LeadsOn
    <3>. QED  BY <3>3, <3>5
  <2>. QED  BY <1>4, <1>6, <2>3, <2>5
<1>9. PartOf(e, new, lr, b, A, n, d2)
  BY <1>3, <1>6, <1>8 DEF PartOf, PartBy
<1>10. d2 \in [Meanings -> Verdict3]
  BY <1>7 DEF Not3, Verdict3
<1>11. \A p \in Meanings : ref2[p] # "reject" => d2[p] = ref2[p]
  BY <1>1, <1>7 DEF Not3, Verdict3
<1>12. /\ new[b].means = "true" => \A p \in Meanings : d2[p] = "yes"
       /\ new[b].means = "false" => \A p \in Meanings : d2[p] = "no"
  BY <1>1, <1>4, <1>5 DEF Not3, Opposite, old
<1>. HIDE DEF d2
<1>13. BlockFor(e, new, lr, b, ref2, A, n)
  BY ONLY <1>9, <1>10, <1>11, <1>12 DEF BlockFor
<1>. DEFINE m == GenNot(gs, b)
<1>14. m.cs = [gs EXCEPT !.blocks = new] /\ m.blk = b
  BY DEF GenNot, new, old
<1>. HIDE DEF m
<1>15. OnlyBlocks(gs, m.cs, A) /\ m.cs.blocks = new
  <2>1. \A c \in 1 .. Len(gs.blocks) : c \notin A => new[c] = gs.blocks[c]
    BY <1>3, <1>4, <1>5 DEF old
  <2>2. Len(new) >= Len(gs.blocks)
    BY <1>2, <1>5 DEF old
  <2>. QED  BY <1>5, <1>14, <2>1, <2>2, WithBlocks
<1>16. Len(m.cs.blocks) = Len(gs.blocks)
  BY <1>5, <1>15 DEF old
<1>. QED  BY ONLY <1>13, <1>14, <1>15, <1>16 DEF m

(* A block that is new: both its exits are open.                           *)
Fresh(blocks, id) ==
  /\ blocks \in Seq(Block) /\ id \in 1 .. Len(blocks)
  /\ blocks[id].stmts \in Seq(Stmt) /\ blocks[id].br \in Test1
  /\ blocks[id].jt = Nil /\ blocks[id].jf = Nil /\ blocks[id].sense = FALSE /\ blocks[id].head = id

LEMMA OneEnd ==
  ASSUME NEW S, NEW x \in S
  PROVE  << x >> \in Seq(S) /\ Len(<< x >>) = 1 /\ << x >>[1] = x /\ Ends(<< x >>) = {x}
<1>1. << x >> \in Seq(S) /\ Len(<< x >>) = 1 /\ << x >>[1] = x
  OBVIOUS
<1>2. Ends(<< x >>) = {x}
  BY <1>1 DEF Ends
<1>. QED  BY <1>1, <1>2

LEMMA OneList ==
  ASSUME NEW blocks, NEW K, NEW x \in K \X BOOLEAN, Exit(blocks, x) = Nil
  PROVE  LinkedList(blocks, K, << x >>)
<1>. DEFINE T == << x >>
<1>1. T \in Seq(K \X BOOLEAN) /\ Len(T) = 1 /\ T[1] = x
  BY OneEnd
<1>. HIDE DEF T
<1>2. 1 .. 1 = {1} /\ 2 .. 1 = {}
  OBVIOUS
<1>3. \A i \in 1 .. Len(T) : i = 1
  BY <1>1, <1>2
<1>4. \A i \in 1 .. Len(T) : Exit(blocks, T[i]) = IF i = Len(T) THEN Nil ELSE T[i + 1][1]
  BY <1>1, <1>3
<1>5. \A i \in 2 .. Len(T) : FALSE
  BY ONLY <1>1, <1>2
<1>6. LinkedList(blocks, K, T)
  BY <1>1, <1>3, <1>4, <1>5 DEF LinkedList
<1>. QED  BY <1>6 DEF T

LEMMA FreshOpened ==
  ASSUME NEW blocks, NEW id, Fresh(blocks, id)
  PROVE  Opened(blocks, id, [K |-> {id}, T |-> << << id, TRUE >> >>, F |-> << << id, FALSE >> >>,
                             r |-> [c \in {id} |-> 0], N |-> 1])
<1>. DEFINE T == << << id, TRUE >> >>
            F == << << id, FALSE >> >>
            g == [K |-> {id}, T |-> T, F |-> F, r |-> [c \in {id} |-> 0], N |-> 1]
<1>1. /\ T \in Seq({id} \X BOOLEAN) /\ Len(T) = 1 /\ T[1] = << id, TRUE >>
      /\ F \in Seq({id} \X BOOLEAN) /\ Len(F) = 1 /\ F[1] = << id, FALSE >>
      /\ Ends(T) = {<< id, TRUE >>} /\ Ends(F) = {<< id, FALSE >>}
  <2>1. << id, TRUE >> \in {id} \X BOOLEAN /\ << id, FALSE >> \in {id} \X BOOLEAN
    OBVIOUS
  <2>. QED  BY ONLY <2>1, OneEnd
<1>. HIDE DEF T, F
<1>3. Exit(blocks, << id, TRUE >>) = Nil /\ Exit(blocks, << id, FALSE >>) = Nil
  BY DEF Exit, Fresh
<1>4. LinkedList(blocks, {id}, T) /\ LinkedList(blocks, {id}, F)
  <2>1. << id, TRUE >> \in {id} \X BOOLEAN /\ << id, FALSE >> \in {id} \X BOOLEAN
    OBVIOUS
  <2>. QED  BY ONLY <1>3, <2>1, OneList DEF T, F
<1>5. (g.K \X BOOLEAN) \ (Ends(g.T) \cup Ends(g.F)) = {}
  <2>1. ASSUME NEW x \in {id} \X BOOLEAN PROVE x = << id, TRUE >> \/ x = << id, FALSE >>
    <3>1. x = << x[1], x[2] >> /\ x[1] = id /\ x[2] \in BOOLEAN
      OBVIOUS
    <3>2. x[2] = TRUE \/ x[2] = FALSE
      BY ONLY <3>1
    <3>. QED  BY ONLY <3>1, <3>2
  <2>2. g.K = {id} /\ g.T = T /\ g.F = F
    OBVIOUS
  <2>. QED  BY ONLY <1>1, <2>1, <2>2
<1>6. << id, TRUE >> # << id, FALSE >>
  OBVIOUS
<1>7. /\ g.T[1] = << id, ~blocks[id].sense >> /\ g.F[1] = << id, blocks[id].sense >>
  BY <1>1 DEF Fresh
<1>8. g.K = {id} /\ g.T = T /\ g.F = F /\ g.r = [c \in {id} |-> 0] /\ g.N = 1
  OBVIOUS
<1>. HIDE DEF g
<1>9. Opened(blocks, id, g)
  <2>1. g.r \in [g.K -> 0 .. g.N - 1] /\ g.N \in Nat
    BY <1>8
  <2>2. /\ id \in g.K /\ blocks[id].head \in g.K /\ g.K \subseteq 1 .. Len(blocks)
        /\ \A c \in g.K : blocks[c].stmts \in Seq(Stmt) /\ blocks[c].br \in Test1
    BY ONLY <1>8, Fresh(blocks, id) DEF Fresh
  <2>3. Len(g.T) <= g.N /\ Len(g.F) <= g.N /\ Ends(g.T) \cap Ends(g.F) = {}
    <3>1. Len(g.T) <= g.N /\ Len(g.F) <= g.N
      <4>1. Len(T) = 1 /\ Len(F) = 1
        BY ONLY <1>1
      <4>2. Len(g.T) = 1 /\ Len(g.F) = 1
        BY ONLY <1>8, <4>1
      <4>3. g.N = 1
        BY ONLY <1>8
      <4>. QED  BY ONLY <4>2, <4>3
    <3>2. Ends(g.T) \cap Ends(g.F) = {}
      BY ONLY <1>1, <1>6, <1>8
    <3>. QED  BY ONLY <3>1, <3>2
  <2>4. LinkedList(blocks, g.K, g.T) /\ LinkedList(blocks, g.K, g.F)
    BY ONLY <1>4, <1>8
  <2>. QED  BY ONLY <1>5, <1>7, <2>1, <2>2, <2>3, <2>4 DEF Opened
<1>. QED  BY <1>9 DEF g, T, F

LEMMA FreshDecides ==
  ASSUME NEW blocks, NEW lr, NEW v, NEW p, NEW id, NEW d, Fresh(blocks, id),
         NEW T, Ends(T) = {<< id, TRUE >>}, NEW F, Ends(F) = {<< id, FALSE >>},
         d # "reject" => Says(blocks[id], lr, v, p, d = "yes")
  PROVE  Decides(blocks, lr, v, p, id, {id}, T, F, "yes", d)
<1>. SUFFICES ASSUME d # "reject"
             PROVE  /\ blocks[id].head \in {id}
                    /\ \A c \in {id} : \E out \in BOOLEAN :
                         Says(blocks[c], lr, v, p, out) /\ LeadsOn(blocks, << c, out >>, {id}, T, F, "yes", d)
  BY DEF Decides
<1>. DEFINE out == d = "yes"
<1>1. out \in BOOLEAN /\ (out <=> d = "yes")
  OBVIOUS
<1>2. Says(blocks[id], lr, v, p, out)
  OBVIOUS
<1>. HIDE DEF out
<1>3. << id, TRUE >> # << id, FALSE >>
  OBVIOUS
<1>4. LeadsOn(blocks, << id, out >>, {id}, T, F, "yes", d)
  <2>1. CASE out = TRUE
    BY <2>1, <1>1, <1>3 DEF LeadsOn
  <2>2. CASE out = FALSE
    BY <2>2, <1>1, <1>3 DEF LeadsOn
  <2>. QED  BY <1>1, <2>1, <2>2
<1>. QED  BY <1>1, <1>2, <1>4 DEF Fresh

LEMMA FreshPart ==
  ASSUME NEW e, NEW blocks, NEW lr, NEW id, NEW d, Fresh(blocks, id),
         \A p \in Meanings :
           d[p] # "reject" => Says(blocks[id], lr, Pre(e, Packets[p]), Packets[p], d[p] = "yes")
  PROVE  PartOf(e, blocks, lr, id, {id}, 1, d)
<1>. DEFINE T == << << id, TRUE >> >>
            F == << << id, FALSE >> >>
            g == [K |-> {id}, T |-> T, F |-> F, r |-> [c \in {id} |-> 0], N |-> 1]
<1>1. Ends(T) = {<< id, TRUE >>} /\ Ends(F) = {<< id, FALSE >>}
  BY OneEnd
<1>2. Opened(blocks, id, g)
  BY FreshOpened
<1>3. g.K = {id} /\ g.T = T /\ g.F = F /\ g.N = 1
  OBVIOUS
<1>. HIDE DEF T, F, g
<1>4. \A p \in Meanings :
        Decides(blocks, lr, Pre(e, Packets[p]), Packets[p], id, g.K, g.T, g.F, "yes", d[p])
  <2>1. \A p \in Meanings :
          Decides(blocks, lr, Pre(e, Packets[p]), Packets[p], id, {id}, T, F, "yes", d[p])
    BY <1>1, FreshDecides
  <2>. QED  BY ONLY <1>3, <2>1
<1>. QED  BY <1>2, <1>3, <1>4 DEF PartOf, PartBy

LEMMA NewBlockShape ==
  ASSUME NEW gs \in CsType, NEW stmts \in Seq(Stmt), NEW br \in InsnType, NEW A
  PROVE  LET m == NewBlock(gs, stmts, br)
         IN  /\ OnlyBlocks(gs, m.cs, A) /\ m.blk = Len(gs.blocks) + 1
             /\ Len(m.cs.blocks) = Len(gs.blocks) + 1
             /\ m.cs.blocks[m.blk] = [stmts |-> stmts, br |-> br, jt |-> Nil, jf |-> Nil, sense |-> FALSE,
                                      head |-> m.blk, means |-> Uncertain]
             /\ \A c \in 1 .. Len(gs.blocks) : m.cs.blocks[c] = gs.blocks[c]
<1>. DEFINE id == Len(gs.blocks) + 1
            x == [stmts |-> stmts, br |-> br, jt |-> Nil, jf |-> Nil, sense |-> FALSE,
                  head |-> id, means |-> Uncertain]
            new == Append(gs.blocks, x)
            m == NewBlock(gs, stmts, br)
<1>1. gs.blocks \in Seq(Block) /\ Len(gs.blocks) \in Nat
  BY DEF CsType
<1>2. Stmt \subseteq InsnType
  BY DEF Stmt
<1>3. x \in Block
  BY <1>1, <1>2 DEF Block, Nil, Uncertain
<1>4. m.cs = [gs EXCEPT !.blocks = new] /\ m.blk = id
  BY DEF NewBlock
<1>. HIDE DEF x, m
<1>5. /\ new \in Seq(Block) /\ Len(new) = id /\ new[id] = x
      /\ \A c \in 1 .. Len(gs.blocks) : new[c] = gs.blocks[c]
  BY <1>1, <1>3
<1>6. Len(new) >= Len(gs.blocks) /\ \A c \in 1 .. Len(gs.blocks) : c \notin A => new[c] = gs.blocks[c]
  BY <1>1, <1>5
<1>. HIDE DEF new
<1>7. OnlyBlocks(gs, m.cs, A) /\ m.cs.blocks = new
  BY <1>4, <1>5, <1>6, WithBlocks
<1>. QED  BY <1>4, <1>5, <1>7 DEF m, x

LEMMA NewBlockRight ==
  ASSUME NEW gs \in CsType, NEW stmts \in Seq(Stmt), NEW br \in Test1, NEW A, NEW e, NEW lr,
         NEW ref \in [Meanings -> Verdict3],
         \A p \in Meanings : ref[p] # "reject" =>
           Says([stmts |-> stmts, br |-> br], lr, Pre(e, Packets[p]), Packets[p], ref[p] = "yes")
  PROVE  LET m == NewBlock(gs, stmts, br)
         IN  /\ OnlyBlocks(gs, m.cs, A) /\ Len(m.cs.blocks) = Len(gs.blocks) + 1
             /\ m.blk = Len(gs.blocks) + 1
             /\ BlockFor(e, m.cs.blocks, lr, m.blk, ref, {m.blk}, 1)
<1>. DEFINE m == NewBlock(gs, stmts, br)
<1>0. br \in InsnType
  BY DEF Test1
<1>1. /\ OnlyBlocks(gs, m.cs, A) /\ m.blk = Len(gs.blocks) + 1
      /\ Len(m.cs.blocks) = Len(gs.blocks) + 1
      /\ m.cs.blocks[m.blk] = [stmts |-> stmts, br |-> br, jt |-> Nil, jf |-> Nil, sense |-> FALSE,
                               head |-> m.blk, means |-> Uncertain]
  BY <1>0, NewBlockShape
<1>. HIDE DEF m
<1>2. m.cs.blocks \in Seq(Block) /\ Len(gs.blocks) \in Nat
  BY <1>1 DEF OnlyBlocks, CsType
<1>3. Fresh(m.cs.blocks, m.blk)
  BY <1>1, <1>2 DEF Fresh
<1>4. \A p \in Meanings : ref[p] # "reject" =>
        Says(m.cs.blocks[m.blk], lr, Pre(e, Packets[p]), Packets[p], ref[p] = "yes")
  BY <1>1 DEF Says
<1>5. PartOf(e, m.cs.blocks, lr, m.blk, {m.blk}, 1, ref)
  BY <1>3, <1>4, FreshPart
<1>6. m.cs.blocks[m.blk].means = "uncertain"
  BY <1>1 DEF Uncertain
<1>7. BlockFor(e, m.cs.blocks, lr, m.blk, ref, {m.blk}, 1)
  BY <1>5, <1>6 DEF BlockFor
<1>. QED  BY <1>1, <1>7 DEF m
=============================================================================
