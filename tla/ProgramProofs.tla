--------------------------- MODULE ProgramProofs ---------------------------
(***************************************************************************)
(* Proofs about a Program shared by any number of goroutines.  What makes  *)
(* the invariant inductive is that a goroutine in the critical section is  *)
(* the owner of the mutex, so a step of another one cannot have touched    *)
(* the packet buffer, the machine or the line buffer under it.             *)
(***************************************************************************)
EXTENDS Program, BpfVm, BpfLemmas, SequenceTheorems, WellFoundedInduction

Mine(g) ==
  /\ InCritical(g) <=> owner = g
  /\ phase[g] = "idle" \/ call[g] \in Call
  /\ phase[g] = "running" =>
       /\ call[g].op = "match"
       /\ \A j \in 0 .. Cut(call[g].packet) - 1 : pktbuf[j] = call[g].packet.at[j]
       /\ vm = solo[g] /\ vm.pc \in 0 .. n - 1
  /\ phase[g] \in {"printing", "printed"} => call[g].op = "string" /\ out[g] \in Seq(Int)
  /\ phase[g] \in {"idle", "waiting", "locked"} => out[g] = << >>
  /\ phase[g] = "printed" => image = Len(out[g]) /\ image < n
  /\ call[g].op = "match" /\ phase[g] \in {"unlocking", "returned"} =>
       solo[g].halted /\ out[g] = << solo[g].ret # 0 >>

ProgInv ==
  /\ TypeOK
  /\ phase \in [Goroutine -> Phase]
  /\ DOMAIN out = Goroutine
  /\ \A g \in Goroutine : Mine(g)

LEMMA ProgramTyped ==
  ASSUME TypeOK
  PROVE  n \in 1 .. MaxInsns /\ code \in [0 .. n - 1 -> InsnType] /\ Validate(code, n)
  BY ProgramAssumption DEF TypeOK, n, code

LEMMA PacketTyped ==
  ASSUME NEW p \in Packet
  PROVE  /\ p.len \in Word /\ Cut(p) \in 0 .. Snaplen /\ Snaplen \in Word
         /\ \A j \in 0 .. Cut(p) - 1 : p.at[j] \in Byte
         /\ Alone(p) \in Buffer(Snaplen)
<1>1. p.len \in Word /\ p.at \in Buffer(p.len) /\ Snaplen \in Word
  BY ProgramAssumption
<1>2. p.len \in Nat /\ Snaplen \in Nat
  BY <1>1, Sizes DEF Word
<1>3. Cut(p) \in 0 .. Snaplen /\ Cut(p) <= p.len
  BY <1>2 DEF Cut
<1>4. \A j \in 0 .. Cut(p) - 1 : p.at[j] \in Byte
  BY <1>1, <1>2, <1>3 DEF Buffer
<1>5. 0 \in Byte
  BY BpfAssumption DEF Byte
<1>6. \A j \in 0 .. Snaplen - 1 : j < Cut(p) => j \in 0 .. Cut(p) - 1
  BY <1>2, <1>3
<1>7. Alone(p) \in Buffer(Snaplen)
  BY <1>4, <1>5, <1>6 DEF Alone, Buffer
<1>. QED  BY <1>1, <1>3, <1>4, <1>7

LEMMA CallTyped ==
  ASSUME NEW c \in Call, c.op = "match"
  PROVE  c.packet \in Packet
  BY DEF Call, Read

LEMMA StartMachine == Start \in Machine /\ Start.pc = 0 /\ ~Start.halted
  BY StartTyped DEF Start, At

LEMMA InitInv == Init => ProgInv
<1>. SUFFICES ASSUME Init PROVE ProgInv
  OBVIOUS
<1>1. TypeOK
  <2>1. filter \in Filter /\ n \in Nat
    BY ProgramAssumption, BpfAssumption DEF Init, n
  <2>2. pktbuf \in Buffer(Snaplen)
    BY BpfAssumption DEF Init, Buffer, Byte
  <2>. QED  BY <2>1, <2>2, StartMachine DEF Init, TypeOK, Phase
<1>2. ASSUME NEW g \in Goroutine PROVE Mine(g)
  BY ProgramAssumption DEF Init, Mine, InCritical, Phase
<1>. QED  BY <1>1, <1>2 DEF ProgInv, Init, Phase

(* A goroutine outside the critical section keeps its part of the          *)
(* invariant when another one steps, whatever that does to the memory.     *)
LEMMA Outsider ==
  ASSUME NEW g \in Goroutine, NEW h \in Goroutine, g # h, Mine(h), ~InCritical(h),
         owner' \in {g, NoOne},
         phase'[h] = phase[h], call'[h] = call[h], out'[h] = out[h], solo'[h] = solo[h]
  PROVE  Mine(h)'
  BY ProgramAssumption DEF Mine, InCritical, Phase

(* Before and after the critical section a step touches no shared memory.  *)
LEMMA Bystander ==
  ASSUME NEW g \in Goroutine, NEW h \in Goroutine, g # h, Mine(h),
         UNCHANGED << filter, owner, pktbuf, image, vm >>,
         phase'[h] = phase[h], call'[h] = call[h], out'[h] = out[h], solo'[h] = solo[h]
  PROVE  Mine(h)'
  BY DEF Mine, InCritical, Phase, n

LEMMA OwnerOnly ==
  ASSUME ProgInv, NEW g \in Goroutine, InCritical(g),
         NEW h \in Goroutine, h # g
  PROVE  ~InCritical(h) /\ Mine(h)
  BY DEF ProgInv, Mine

LEMMA InvokeInv ==
  ASSUME ProgInv, NEW g \in Goroutine, NEW c \in Call, Invoke(g, c)
  PROVE  ProgInv'
<1>1. TypeOK' /\ phase' \in [Goroutine -> Phase] /\ DOMAIN out' = Goroutine
  BY DEF ProgInv, TypeOK, Invoke, Goes, Phase, n
<1>2. Mine(g)'
  BY DEF ProgInv, TypeOK, Mine, Invoke, Goes, InCritical, Phase
<1>3. ASSUME NEW h \in Goroutine, h # g PROVE Mine(h)'
  BY <1>3, Bystander DEF ProgInv, TypeOK, Invoke, Goes
<1>. QED  BY <1>1, <1>2, <1>3 DEF ProgInv

LEMMA ReturnInv ==
  ASSUME ProgInv, NEW g \in Goroutine, Return(g)
  PROVE  ProgInv'
<1>1. TypeOK' /\ phase' \in [Goroutine -> Phase] /\ DOMAIN out' = Goroutine
  BY DEF ProgInv, TypeOK, Return, Goes, Phase, n
<1>2. Mine(g)'
  BY DEF ProgInv, TypeOK, Mine, Return, Goes, InCritical, Phase, NoCall
<1>3. ASSUME NEW h \in Goroutine, h # g PROVE Mine(h)'
  BY <1>3, Bystander DEF ProgInv, TypeOK, Return, Goes
<1>. QED  BY <1>1, <1>2, <1>3 DEF ProgInv

LEMMA LockInv ==
  ASSUME ProgInv, NEW g \in Goroutine, Lock(g)
  PROVE  ProgInv'
<1>1. TypeOK' /\ phase' \in [Goroutine -> Phase] /\ DOMAIN out' = Goroutine
  BY DEF ProgInv, TypeOK, Lock, Goes, Phase, n
<1>2. Mine(g)'
  BY DEF ProgInv, TypeOK, Mine, Lock, Goes, InCritical, Phase
<1>3. ASSUME NEW h \in Goroutine, h # g PROVE Mine(h)'
  <2>1. ~InCritical(h) /\ Mine(h)
    BY ProgramAssumption DEF ProgInv, Mine, Lock
  <2>. QED  BY <1>3, <2>1, Outsider DEF ProgInv, TypeOK, Lock, Goes
<1>. QED  BY <1>1, <1>2, <1>3 DEF ProgInv

LEMMA UnlockInv ==
  ASSUME ProgInv, NEW g \in Goroutine, Unlock(g)
  PROVE  ProgInv'
<1>1. TypeOK' /\ phase' \in [Goroutine -> Phase] /\ DOMAIN out' = Goroutine
  BY DEF ProgInv, TypeOK, Unlock, Goes, Phase, n
<1>2. Mine(g)'
  BY ProgramAssumption DEF ProgInv, TypeOK, Mine, Unlock, Goes, InCritical, Phase
<1>3. ASSUME NEW h \in Goroutine, h # g PROVE Mine(h)'
  <2>1. ~InCritical(h) /\ Mine(h)
    BY <1>3, OwnerOnly DEF Unlock, Goes, InCritical, Phase
  <2>. QED  BY <1>3, <2>1, Outsider DEF ProgInv, TypeOK, Unlock, Goes
<1>. QED  BY <1>1, <1>2, <1>3 DEF ProgInv

LEMMA CopyPacketInv ==
  ASSUME ProgInv, NEW g \in Goroutine, CopyPacket(g)
  PROVE  ProgInv'
<1>. DEFINE p == call[g].packet
<1>1. p \in Packet
  <2>1. call[g] \in Call /\ call[g].op = "match"
    BY DEF ProgInv, Mine, CopyPacket, Goes
  <2>. QED  BY <2>1, CallTyped
<1>2. /\ Cut(p) \in 0 .. Snaplen /\ Snaplen \in Nat
      /\ \A j \in 0 .. Cut(p) - 1 : p.at[j] \in Byte
  BY <1>1, PacketTyped, Sizes DEF Word
<1>3. /\ pktbuf' = [j \in 0 .. Snaplen - 1 |-> IF j < Cut(p) THEN p.at[j] ELSE pktbuf[j]]
      /\ pktbuf \in [0 .. Snaplen - 1 -> Byte]
  BY DEF CopyPacket, ProgInv, TypeOK, Buffer
<1>4. \A j \in 0 .. Snaplen - 1 : j < Cut(p) <=> j \in 0 .. Cut(p) - 1
  BY <1>2
<1>5. pktbuf' \in Buffer(Snaplen)
  BY <1>2, <1>3, <1>4 DEF Buffer
<1>6. \A j \in 0 .. Cut(p) - 1 : pktbuf'[j] = p.at[j]
  <2>1. \A j \in 0 .. Cut(p) - 1 : j \in 0 .. Snaplen - 1 /\ j < Cut(p)
    BY <1>2
  <2>. QED  BY <1>3, <2>1
<1>. HIDE DEF p
<1>7. TypeOK' /\ phase' \in [Goroutine -> Phase] /\ DOMAIN out' = Goroutine
  BY <1>5, StartMachine DEF ProgInv, TypeOK, CopyPacket, Goes, Phase, n
<1>8. Mine(g)'
  <2>1. n \in Nat \ {0}
    BY ProgramTyped, BpfAssumption DEF ProgInv
  <2>2. phase'[g] = "running" /\ phase[g] = "locked" /\ call' = call /\ owner' = owner
        /\ filter' = filter
    BY DEF CopyPacket, Goes, ProgInv
  <2>3. vm' = solo'[g] /\ vm'.pc \in 0 .. n - 1 /\ call[g].op = "match"
    BY <2>1, StartMachine DEF CopyPacket, ProgInv, TypeOK
  <2>4. \A j \in 0 .. Cut(call'[g].packet) - 1 : pktbuf'[j] = call'[g].packet.at[j]
    BY <1>6, <2>2 DEF p, Cut
  <2>. QED  BY <2>2, <2>3, <2>4 DEF ProgInv, Mine, InCritical, Phase, n
<1>9. ASSUME NEW h \in Goroutine, h # g PROVE Mine(h)'
  <2>1. ~InCritical(h) /\ Mine(h) /\ owner = g
    BY <1>9, OwnerOnly DEF CopyPacket, Goes, InCritical, Phase, ProgInv, Mine
  <2>. QED  BY <1>9, <2>1, Outsider DEF ProgInv, TypeOK, CopyPacket, Goes
<1>. QED  BY <1>7, <1>8, <1>9 DEF ProgInv

LEMMA RunInsnInv ==
  ASSUME ProgInv, NEW g \in Goroutine, RunInsn(g)
  PROVE  ProgInv'
<1>. DEFINE p == call[g].packet
            t == Step(vm, code, n, pktbuf, p.len, Cut(p))
<1>1. /\ phase[g] = "running" /\ call[g].op = "match" /\ call[g] \in Call
      /\ vm = solo[g] /\ vm \in Machine /\ vm.pc \in 0 .. n - 1
      /\ \A j \in 0 .. Cut(p) - 1 : pktbuf[j] = p.at[j]
      /\ pktbuf \in Buffer(Snaplen) /\ solo \in [Goroutine -> Machine]
  BY DEF ProgInv, TypeOK, Mine, RunInsn
<1>2. p \in Packet
  BY <1>1, CallTyped
<1>3. /\ p.len \in Word /\ Cut(p) \in 0 .. Snaplen /\ Snaplen \in Word
      /\ Alone(p) \in Buffer(Snaplen)
  BY <1>2, PacketTyped
<1>4. \A j \in 0 .. Cut(p) - 1 : pktbuf[j] = Alone(p)[j]
  <2>1. \A j \in 0 .. Cut(p) - 1 : j \in 0 .. Snaplen - 1 /\ j < Cut(p)
    BY <1>3, Sizes DEF Word
  <2>. QED  BY <1>1, <2>1 DEF Alone
<1>5. n \in 1 .. MaxInsns /\ code \in [0 .. n - 1 -> InsnType] /\ Validate(code, n)
  BY ProgramTyped DEF ProgInv
<1>6. vm' = t /\ solo' = [solo EXCEPT ![g] = Step(vm, code, n, Alone(p), p.len, Cut(p))]
  BY <1>1 DEF RunInsn
<1>. HIDE DEF p
<1>7. /\ t = Step(vm, code, n, Alone(p), p.len, Cut(p)) /\ t \in Machine
      /\ t.pc = vm.pc \/ t.pc \in 0 .. n - 1
  BY <1>1, <1>3, <1>4, <1>5, StepOutcome
<1>. HIDE DEF t
<1>8. /\ vm' = solo'[g] /\ vm' \in Machine /\ vm'.pc \in 0 .. n - 1
      /\ solo' \in [Goroutine -> Machine]
  BY <1>1, <1>6, <1>7
<1>9. UNCHANGED << filter, owner, phase, call, out, pktbuf, image >> /\ n' = n
  BY DEF RunInsn, n
<1>10. TypeOK' /\ phase' \in [Goroutine -> Phase] /\ DOMAIN out' = Goroutine
  BY <1>8, <1>9 DEF ProgInv, TypeOK
<1>11. Mine(g)'
  BY <1>1, <1>8, <1>9 DEF ProgInv, Mine, InCritical, Phase, Cut
<1>12. ASSUME NEW h \in Goroutine, h # g PROVE Mine(h)'
  <2>1. ~InCritical(h) /\ Mine(h) /\ owner = g
    BY <1>1, <1>12, OwnerOnly DEF InCritical, Phase, ProgInv, Mine
  <2>2. solo'[h] = solo[h]
    BY <1>1, <1>6, <1>12
  <2>. QED  BY <1>9, <1>12, <2>1, <2>2, Outsider
<1>. QED  BY <1>10, <1>11, <1>12 DEF ProgInv

LEMMA TakeVerdictInv ==
  ASSUME ProgInv, NEW g \in Goroutine, TakeVerdict(g)
  PROVE  ProgInv'
<1>1. TypeOK' /\ phase' \in [Goroutine -> Phase] /\ DOMAIN out' = Goroutine
  BY DEF ProgInv, TypeOK, TakeVerdict, Goes, Phase, n
<1>2. Mine(g)'
  BY DEF ProgInv, TypeOK, Mine, TakeVerdict, Goes, InCritical, Phase
<1>3. ASSUME NEW h \in Goroutine, h # g PROVE Mine(h)'
  <2>1. ~InCritical(h) /\ Mine(h) /\ owner = g
    BY <1>3, OwnerOnly DEF TakeVerdict, Goes, InCritical, Phase, ProgInv, Mine
  <2>. QED  BY <1>3, <2>1, Outsider DEF ProgInv, TypeOK, TakeVerdict, Goes
<1>. QED  BY <1>1, <1>2, <1>3 DEF ProgInv

LEMMA StringInv ==
  ASSUME ProgInv, NEW g \in Goroutine,
         BeginString(g) \/ FormatLine(g) \/ AppendLine(g) \/ EndString(g)
  PROVE  ProgInv'
<1>0. /\ phase[g] \in {"locked", "printing", "printed"} /\ owner = g
      /\ call[g] \in Call /\ call[g].op = "string"
      /\ out[g] \in Seq(Int) /\ n \in Nat /\ DOMAIN out = Goroutine
      /\ phase \in [Goroutine -> Phase]
  <2>1. phase[g] = "locked" => out[g] \in Seq(Int)
    <3>1. << >> \in Seq(Int)
      OBVIOUS
    <3>2. phase[g] = "locked" => out[g] = << >>
      BY DEF ProgInv, Mine
    <3>. QED  BY <3>1, <3>2
  <2>2. n \in Nat
    BY ProgramTyped, BpfAssumption DEF ProgInv
  <2>. QED  BY <2>1, <2>2 DEF ProgInv, Mine, InCritical, Phase,
            BeginString, FormatLine, AppendLine, EndString, Goes
<1>1. TypeOK' /\ phase' \in [Goroutine -> Phase] /\ DOMAIN out' = Goroutine
  <2>1. CASE FormatLine(g)
    <3>1. Len(out[g]) \in -1 .. n - 1
      BY <1>0, <2>1 DEF FormatLine
    <3>. QED  BY <2>1, <3>1 DEF ProgInv, TypeOK, FormatLine, Goes, Phase, n
  <2>2. CASE BeginString(g) \/ AppendLine(g) \/ EndString(g)
    BY <2>2 DEF ProgInv, TypeOK, BeginString, AppendLine, EndString, Goes, Phase, n
  <2>. QED  BY <2>1, <2>2
<1>2. Mine(g)'
  <2>1. CASE BeginString(g)
    BY <1>0, <2>1 DEF ProgInv, Mine, BeginString, Goes, InCritical, Phase
  <2>2. CASE FormatLine(g)
    BY <1>0, <2>2 DEF ProgInv, Mine, FormatLine, Goes, InCritical, Phase, n
  <2>3. CASE AppendLine(g)
    <3>1. out'[g] \in Seq(Int)
      <4>1. image \in Int
        BY <1>0 DEF ProgInv, TypeOK
      <4>. QED  BY <1>0, <2>3, <4>1 DEF AppendLine
    <3>. QED  BY <1>0, <2>3, <3>1 DEF ProgInv, Mine, AppendLine, Goes, InCritical, Phase
  <2>4. CASE EndString(g)
    BY <1>0, <2>4 DEF ProgInv, Mine, EndString, Goes, InCritical, Phase
  <2>. QED  BY <2>1, <2>2, <2>3, <2>4
<1>3. ASSUME NEW h \in Goroutine, h # g PROVE Mine(h)'
  <2>1. ~InCritical(h) /\ Mine(h) /\ owner = g
    BY <1>0, <1>3, OwnerOnly DEF InCritical, Phase
  <2>. QED  BY <1>0, <1>3, <2>1, Outsider DEF BeginString, FormatLine, AppendLine, EndString, Goes
<1>. QED  BY <1>1, <1>2, <1>3 DEF ProgInv

LEMMA CopyInstructionsInv ==
  ASSUME ProgInv, NEW g \in Goroutine, CopyInstructions(g)
  PROVE  ProgInv'
<1>1. TypeOK' /\ phase' \in [Goroutine -> Phase] /\ DOMAIN out' = Goroutine
  BY DEF ProgInv, TypeOK, CopyInstructions, Goes, Phase, n
<1>2. Mine(g)'
  BY DEF ProgInv, TypeOK, Mine, CopyInstructions, Goes, InCritical, Phase, Read
<1>3. ASSUME NEW h \in Goroutine, h # g PROVE Mine(h)'
  <2>1. ~InCritical(h) /\ Mine(h) /\ owner = g
    BY <1>3, OwnerOnly DEF CopyInstructions, Goes, InCritical, Phase, ProgInv, Mine
  <2>. QED  BY <1>3, <2>1, Outsider DEF ProgInv, TypeOK, CopyInstructions, Goes
<1>. QED  BY <1>1, <1>2, <1>3 DEF ProgInv

LEMMA ProgStutter == ProgInv /\ UNCHANGED vars => ProgInv'
<1>. SUFFICES ASSUME ProgInv, UNCHANGED vars PROVE ProgInv'
  OBVIOUS
<1>1. TypeOK'
  BY DEF ProgInv, vars, TypeOK, n
<1>2. ASSUME NEW g \in Goroutine PROVE Mine(g)'
  BY DEF ProgInv, vars, Mine, InCritical, Cut, n
<1>. QED  BY <1>1, <1>2 DEF ProgInv, vars

LEMMA ProgInvariant == Spec => []ProgInv
<1>1. ProgInv /\ [Next]_vars => ProgInv'
  BY InvokeInv, LockInv, CopyPacketInv, RunInsnInv, TakeVerdictInv, StringInv,
     CopyInstructionsInv, UnlockInv, ReturnInv, ProgStutter DEF Next, Work
<1>. QED  BY InitInv, <1>1, PTL DEF Spec

(* The state of a shared Program is well typed, for any number of          *)
(* goroutines, any validated filter and any packets.                       *)
THEOREM ProgramTypes == Spec => []TypeOK
<1>1. ProgInv => TypeOK
  BY DEF ProgInv
<1>. QED  BY ProgInvariant, <1>1, PTL

(* Only the goroutine that holds p.mu is between Lock and Unlock, and the  *)
(* packet or line in the shared buffers is the one of its own call.        *)
THEOREM BuffersBelongToOwner == Spec => []BuffersAreMine
<1>1. ProgInv => BuffersAreMine
  BY DEF ProgInv, Mine, BuffersAreMine
<1>. QED  BY ProgInvariant, <1>1, PTL

(* Match gives every goroutine the verdict of a run on its packet alone.   *)
THEOREM MatchAsIfAlone == Spec => []AsIfAlone
<1>1. ProgInv => AsIfAlone
  BY DEF ProgInv, Mine, AsIfAlone
<1>. QED  BY ProgInvariant, <1>1, PTL

-----------------------------------------------------------------------------
(* Induction over numbers, from the least counterexample.                  *)
LEMMA LeastNat ==
  ASSUME NEW T \in SUBSET Nat, T # {}
  PROVE  \E x \in T : \A y \in T : x <= y
<1>. DEFINE R == {ss \in Nat \X Nat : ss[1] < ss[2]}
<1>1. IsWellFoundedOn(R, Nat)
  BY NatLessThanWellFounded DEF OpToRel
<1>2. \A x, y \in Nat : << y, x >> \in R <=> y < x
  OBVIOUS
<1>. HIDE DEF R
<1>3. PICK x \in T : \A y \in T : ~(<< y, x >> \in R)
  BY <1>1, WFMin
<1>4. \A y \in T : y \in Nat /\ x \in Nat /\ ~(y < x)
  BY <1>2, <1>3
<1>. QED  BY <1>4

LEMMA Induct ==
  ASSUME NEW S, 0 \in S, \A k \in Nat : k \in S => k + 1 \in S
  PROVE  Nat \subseteq S
<1>. SUFFICES ASSUME Nat \ S # {} PROVE FALSE
  OBVIOUS
<1>1. PICK x \in Nat \ S : \A y \in Nat \ S : x <= y
  BY LeastNat
<1>2. x # 0 /\ x - 1 \in Nat /\ ~(x <= x - 1) /\ (x - 1) + 1 = x
  BY <1>1
<1>3. x - 1 \in S
  BY <1>1, <1>2
<1>. QED  BY <1>1, <1>2, <1>3

(* A function of a set to itself can be repeated any number of times.      *)
Repeats(r, M, s, f, N) ==
  r \in [0 .. N -> M] /\ \A k \in 0 .. N : r[k] = IF k = 0 THEN s ELSE f[r[k - 1]]

LEMMA Iterates ==
  ASSUME NEW M, NEW s \in M, NEW f \in [M -> M], NEW N \in Nat
  PROVE  \E r : Repeats(r, M, s, f, N)
<1>. DEFINE Good(m) == \E r : Repeats(r, M, s, f, m)
            S == {m \in Nat : Good(m)}
<1>1. Good(0)
  <2>. DEFINE r == [k \in 0 .. 0 |-> s]
  <2>1. r \in [0 .. 0 -> M] /\ \A k \in 0 .. 0 : k = 0 /\ r[k] = s
    OBVIOUS
  <2>. HIDE DEF r
  <2>2. Repeats(r, M, s, f, 0)
    BY <2>1 DEF Repeats
  <2>. QED  BY <2>2
<1>2. ASSUME NEW m \in Nat, Good(m) PROVE Good(m + 1)
  <2>1. PICK r \in [0 .. m -> M] :
          \A k \in 0 .. m : r[k] = IF k = 0 THEN s ELSE f[r[k - 1]]
    BY <1>2 DEF Repeats
  <2>. DEFINE t == [k \in 0 .. m + 1 |-> IF k = m + 1 THEN f[r[m]] ELSE r[k]]
  <2>2. m \in 0 .. m /\ r[m] \in M /\ f[r[m]] \in M /\ m + 1 # 0
    BY <2>1
  <2>3. \A k \in 0 .. m + 1 : k # m + 1 => k \in 0 .. m
    OBVIOUS
  <2>4. t \in [0 .. m + 1 -> M]
    BY <2>2, <2>3
  <2>5. \A k \in 0 .. m + 1 : t[k] = IF k = 0 THEN s ELSE f[t[k - 1]]
    <3>1. SUFFICES ASSUME NEW k \in 0 .. m + 1 PROVE t[k] = IF k = 0 THEN s ELSE f[t[k - 1]]
      OBVIOUS
    <3>2. CASE k = 0
      <4>1. k \in 0 .. m /\ k # m + 1
        BY <3>2
      <4>. QED  BY <2>1, <3>2, <4>1
    <3>3. CASE k = m + 1
      <4>1. k - 1 = m /\ m \in 0 .. m + 1 /\ m # m + 1 /\ k # 0
        BY <3>3
      <4>. QED  BY <3>3, <4>1
    <3>4. CASE k # 0 /\ k # m + 1
      <4>1. k \in 0 .. m /\ k - 1 \in 0 .. m /\ k - 1 \in 0 .. m + 1 /\ k - 1 # m + 1
        BY <3>4
      <4>2. r[k] = f[r[k - 1]]
        BY <2>1, <3>4, <4>1
      <4>. QED  BY <3>4, <4>1, <4>2
    <3>. QED  BY <3>2, <3>3, <3>4
  <2>. HIDE DEF t
  <2>6. Repeats(t, M, s, f, m + 1)
    BY <2>4, <2>5 DEF Repeats
  <2>. QED  BY <2>6
<1>. HIDE DEF Good
<1>5. 0 \in S /\ \A m \in Nat : m \in S => m + 1 \in S
  BY <1>1, <1>2
<1>. HIDE DEF S
<1>3. Nat \subseteq S
  BY <1>5, Induct
<1>4. Good(N)
  BY <1>3 DEF S
<1>. QED  BY <1>4 DEF Good

-----------------------------------------------------------------------------
(* The run of a packet alone, instruction by instruction.                  *)

Held(f) == {t \in Machine : t.pc \in 0 .. f.n - 1}

LEMMA FilterTyped ==
  ASSUME NEW f \in Filter
  PROVE  /\ f.n \in 1 .. MaxInsns /\ f.code \in [0 .. f.n - 1 -> InsnType]
         /\ Validate(f.code, f.n) /\ Fuel \in Nat /\ Start \in Held(f)
         /\ MaxInsns \in Nat \ {0} /\ MaxBack \in Nat
<1>1. /\ f.n \in 1 .. MaxInsns /\ f.code \in [0 .. f.n - 1 -> InsnType]
      /\ Validate(f.code, f.n) /\ MaxInsns \in Nat \ {0} /\ MaxBack \in Nat
  BY ProgramAssumption, BpfAssumption
<1>2. Fuel \in Nat
  BY <1>1 DEF Fuel
<1>3. Start \in Held(f)
  BY <1>1, StartMachine DEF Held
<1>. QED  BY <1>1, <1>2, <1>3

(* One more instruction of a run that has not stopped raises the number of *)
(* backward jumps, or the program counter, or it stops.                    *)
LEMMA OneMoreGoes ==
  ASSUME NEW f \in Filter, NEW p \in Packet, NEW s \in Held(f)
  PROVE  LET t == OneMore(f, p, s)
         IN  /\ t \in Held(f)
             /\ s.halted => t = s
             /\ ~s.halted =>
                  /\ t = Step(s, f.code, f.n, Alone(p), p.len, Cut(p))
                  /\ \/ t.halted /\ t.pc = s.pc /\ t.back = s.back
                     \/ ~t.halted /\ t.back = s.back /\ t.pc > s.pc
                     \/ ~t.halted /\ t.back = s.back + 1
<1>. DEFINE t == Step(s, f.code, f.n, Alone(p), p.len, Cut(p))
<1>1. /\ p.len \in Word /\ Cut(p) \in 0 .. Snaplen /\ Snaplen \in Word
      /\ Alone(p) \in Buffer(Snaplen)
  BY PacketTyped
<1>2. s \in Machine /\ s.pc \in 0 .. f.n - 1
  BY DEF Held
<1>3. /\ t \in Machine
      /\ \/ t.halted /\ t.pc = s.pc /\ t.back = s.back
         \/ ~t.halted /\ t.pc \in 0 .. f.n - 1 /\ t.back = s.back /\ t.pc > s.pc
         \/ ~t.halted /\ t.pc \in 0 .. f.n - 1 /\ t.back = s.back + 1
  <2>1. f.n \in 1 .. MaxInsns /\ f.code \in [0 .. f.n - 1 -> InsnType] /\ Validate(f.code, f.n)
    BY FilterTyped
  <2>. QED  BY <1>1, <1>2, <2>1, StepOutcome
<1>4. t \in Held(f)
  BY <1>2, <1>3 DEF Held
<1>5. OneMore(f, p, s) = IF s.halted THEN s ELSE t
  BY DEF OneMore
<1>. HIDE DEF t
<1>6. CASE s.halted
  BY <1>5, <1>6
<1>7. CASE ~s.halted
  BY <1>3, <1>4, <1>5, <1>7 DEF t
<1>. QED  BY <1>6, <1>7

LEMMA RunAloneUnfolds ==
  ASSUME NEW f \in Filter, NEW p \in Packet
  PROVE  LET r == RunAlone(f, p)
         IN  r = [k \in 0 .. Fuel |-> IF k = 0 THEN Start ELSE OneMore(f, p, r[k - 1])]
<1>. DEFINE more == [t \in Held(f) |-> OneMore(f, p, t)]
<1>1. Start \in Held(f) /\ more \in [Held(f) -> Held(f)] /\ Fuel \in Nat
  BY FilterTyped, OneMoreGoes
<1>. HIDE DEF more
<1>2. PICK r \in [0 .. Fuel -> Held(f)] :
        \A k \in 0 .. Fuel : r[k] = IF k = 0 THEN Start ELSE more[r[k - 1]]
  <2>1. PICK r : Repeats(r, Held(f), Start, more, Fuel)
    BY <1>1, Iterates
  <2>. QED  BY <2>1 DEF Repeats
<1>3. \A k \in 0 .. Fuel : k # 0 => k - 1 \in 0 .. Fuel
  BY <1>1
<1>4. \A k \in 0 .. Fuel : k # 0 => more[r[k - 1]] = OneMore(f, p, r[k - 1])
  BY <1>2, <1>3 DEF more
<1>5. r = [k \in 0 .. Fuel |-> IF k = 0 THEN Start ELSE OneMore(f, p, r[k - 1])]
  BY <1>2, <1>4
<1>. QED  BY <1>5 DEF RunAlone

LEMMA RunAloneGoes ==
  ASSUME NEW f \in Filter, NEW p \in Packet
  PROVE  LET r == RunAlone(f, p)
         IN  /\ r[0] = Start
             /\ \A k \in 0 .. Fuel - 1 : r[k + 1] = OneMore(f, p, r[k])
             /\ \A k \in 0 .. Fuel : r[k] \in Held(f)
<1>. DEFINE r == RunAlone(f, p)
<1>1. Fuel \in Nat
  BY FilterTyped
<1>2. r = [k \in 0 .. Fuel |-> IF k = 0 THEN Start ELSE OneMore(f, p, r[k - 1])]
  BY RunAloneUnfolds
<1>. HIDE DEF r
<1>3. r[0] = Start
  BY <1>1, <1>2
<1>4. \A k \in 0 .. Fuel - 1 : r[k + 1] = OneMore(f, p, r[k])
  <2>1. SUFFICES ASSUME NEW k \in 0 .. Fuel - 1 PROVE r[k + 1] = OneMore(f, p, r[k])
    OBVIOUS
  <2>2. k + 1 \in 0 .. Fuel /\ k + 1 # 0 /\ (k + 1) - 1 = k
    BY <1>1
  <2>. QED  BY <1>2, <2>2
<1>5. \A k \in 0 .. Fuel : r[k] \in Held(f)
  <2>. DEFINE S == {k \in Nat : k <= Fuel => r[k] \in Held(f)}
  <2>1. 0 \in S
    BY <1>3, FilterTyped
  <2>2. ASSUME NEW k \in Nat, k \in S PROVE k + 1 \in S
    <3>1. SUFFICES ASSUME k + 1 <= Fuel PROVE r[k + 1] \in Held(f)
      OBVIOUS
    <3>2. k \in 0 .. Fuel - 1 /\ r[k] \in Held(f)
      BY <1>1, <2>2, <3>1
    <3>. QED  BY <1>4, <3>2, OneMoreGoes
  <2>. HIDE DEF S
  <2>3. Nat \subseteq S
    BY <2>1, <2>2, Induct
  <2>. QED  BY <1>1, <2>3 DEF S
<1>. QED  BY <1>3, <1>4, <1>5 DEF r

(* A run that has stopped has the verdict.                                 *)
LEMMA StoppedIsVerdict ==
  ASSUME NEW f \in Filter, NEW p \in Packet, NEW k \in 0 .. Fuel,
         RunAlone(f, p)[k].halted
  PROVE  Verdict(f, p) = (RunAlone(f, p)[k].ret # 0)
<1>. DEFINE r == RunAlone(f, p)
            S == {j \in Nat : k + j <= Fuel => r[k + j] = r[k]}
<1>1. Fuel \in Nat
  BY FilterTyped
<1>2. /\ \A j \in 0 .. Fuel - 1 : r[j + 1] = OneMore(f, p, r[j])
      /\ r[k] \in Held(f)
  BY RunAloneGoes
<1>3. r[k].halted
  OBVIOUS
<1>. HIDE DEF r
<1>4. 0 \in S
  OBVIOUS
<1>5. ASSUME NEW j \in Nat, j \in S PROVE j + 1 \in S
  <2>1. SUFFICES ASSUME k + (j + 1) <= Fuel PROVE r[k + (j + 1)] = r[k]
    OBVIOUS
  <2>2. k + j \in 0 .. Fuel - 1 /\ k + (j + 1) = (k + j) + 1 /\ r[k + j] = r[k]
    BY <1>1, <1>5, <2>1
  <2>3. OneMore(f, p, r[k]) = r[k]
    BY <1>3 DEF OneMore
  <2>. QED  BY <1>2, <2>2, <2>3
<1>. HIDE DEF S
<1>6. Nat \subseteq S
  BY <1>4, <1>5, Induct
<1>7. Fuel - k \in S /\ k + (Fuel - k) = Fuel
  BY <1>1, <1>6
<1>8. r[Fuel] = r[k]
  BY <1>1, <1>7 DEF S
<1>. QED  BY <1>8 DEF Verdict, r

-----------------------------------------------------------------------------
(* The invariant behind the refinement: what a call has produced so far is *)
(* the beginning of its answer, and the run of its packet alone is one of  *)
(* the states of RunAlone, early enough to stop before Fuel.               *)

Runs(g) ==
  \E k \in 0 .. Fuel :
    /\ solo[g] = RunAlone(filter, call[g].packet)[k]
    /\ k <= solo[g].back * MaxInsns + solo[g].pc + (IF solo[g].halted THEN 1 ELSE 0)

Lines(g) ==
  out[g] \in Seq(Int) /\ \A i \in 1 .. Len(out[g]) : out[g][i] = i - 1

OnTheWay(g) ==
  /\ call[g].op = "match" /\ phase[g] \in {"running", "unlocking", "returned"} => Runs(g)
  /\ phase[g] \in {"printing", "printed"} => Lines(g)
  /\ call[g].op = "string" /\ phase[g] = "unlocking" => Lines(g) /\ Len(out[g]) = n
  /\ call[g].op \in Read /\ phase[g] = "unlocking" => out[g] = << code >>

WayInv == \A g \in Goroutine : OnTheWay(g)

LEMMA WayInit == Init => WayInv
  BY DEF Init, WayInv, OnTheWay

(* What other goroutines do shows in no part of it. *)
LEMMA WayOthers ==
  ASSUME NEW h \in Goroutine, OnTheWay(h), filter' = filter,
         phase'[h] = phase[h], call'[h] = call[h], out'[h] = out[h], solo'[h] = solo[h]
  PROVE  OnTheWay(h)'
  BY DEF OnTheWay, Runs, Lines, n, code

LEMMA CopyPacketWay ==
  ASSUME ProgInv, WayInv, NEW g \in Goroutine, CopyPacket(g)
  PROVE  OnTheWay(g)'
<1>. DEFINE p == call[g].packet
<1>1. /\ phase'[g] = "running" /\ solo'[g] = Start /\ call' = call /\ filter' = filter
      /\ call[g] \in Call /\ call[g].op = "match"
  BY DEF CopyPacket, Goes, ProgInv, TypeOK, Mine
<1>2. p \in Packet /\ filter \in Filter
  BY <1>1, CallTyped DEF ProgInv, TypeOK
<1>3. Start = RunAlone(filter, p)[0] /\ 0 \in 0 .. Fuel
  BY <1>2, RunAloneGoes, FilterTyped
<1>4. Start.back = 0 /\ Start.pc = 0 /\ ~Start.halted /\ MaxInsns \in Nat
  BY BpfAssumption DEF Start, At
<1>5. Runs(g)'
  <2>1. 0 <= Start.back * MaxInsns + Start.pc + (IF Start.halted THEN 1 ELSE 0)
    BY <1>4
  <2>. QED  BY <1>1, <1>3, <2>1 DEF Runs
<1>. QED  BY <1>1, <1>5 DEF OnTheWay, Read

(* What is left of the fuel of a run after b backward jumps, at pc.         *)
LEMMA BackwardRoom ==
  ASSUME NEW N \in Nat \ {0}, NEW B \in Nat, NEW b \in 0 .. B, NEW pc \in 0 .. N - 1
  PROVE  b * N + pc < N * (B + 1) /\ (b + 1) * N = b * N + N
<1>1. b * N <= B * N
  OBVIOUS
<1>. QED  BY <1>1

LEMMA RunInsnWay ==
  ASSUME ProgInv, WayInv, NEW g \in Goroutine, RunInsn(g)
  PROVE  OnTheWay(g)'
<1>. DEFINE p == call[g].packet
            s == solo[g]
            r == RunAlone(filter, p)
<1>1. /\ phase[g] = "running" /\ ~s.halted /\ s.pc \in 0 .. n - 1 /\ call[g] \in Call
      /\ call[g].op = "match"
      /\ solo \in [Goroutine -> Machine] /\ s \in Machine
      /\ UNCHANGED << filter, phase, call, out >>
  BY DEF RunInsn, ProgInv, TypeOK, Mine
<1>2. p \in Packet /\ filter \in Filter
  BY <1>1, CallTyped DEF ProgInv, TypeOK
<1>3. solo'[g] = Step(s, filter.code, filter.n, Alone(p), p.len, Cut(p))
  BY <1>1 DEF RunInsn, n, code
<1>4. PICK k \in 0 .. Fuel : s = r[k] /\ k <= s.back * MaxInsns + s.pc
  <2>1. Runs(g)
    BY <1>1 DEF WayInv, OnTheWay
  <2>2. PICK k \in 0 .. Fuel :
          s = r[k] /\ k <= s.back * MaxInsns + s.pc + (IF s.halted THEN 1 ELSE 0)
    BY <2>1 DEF Runs
  <2>3. s.back * MaxInsns + s.pc \in Int
    BY <1>1, BpfAssumption DEF Machine
  <2>. QED  BY <1>1, <2>2, <2>3
<1>5. /\ filter.n \in 1 .. MaxInsns /\ MaxInsns \in Nat \ {0} /\ MaxBack \in Nat /\ Fuel \in Nat
      /\ s.back \in 0 .. MaxBack /\ s.pc \in 0 .. MaxInsns - 1 /\ s.pc \in 0 .. filter.n - 1
  <2>1. filter.n \in 1 .. MaxInsns /\ MaxInsns \in Nat \ {0} /\ MaxBack \in Nat /\ Fuel \in Nat
    BY <1>2, FilterTyped
  <2>2. s.pc \in 0 .. filter.n - 1 /\ s.back \in 0 .. MaxBack
    BY <1>1 DEF n, Machine
  <2>. QED  BY <2>1, <2>2
<1>6. k + 1 \in 0 .. Fuel
  <2>1. s.back * MaxInsns + s.pc < Fuel /\ s.back * MaxInsns + s.pc \in Int
    BY <1>5, BackwardRoom DEF Fuel
  <2>. HIDE DEF s
  <2>. QED  BY <1>4, <1>5, <2>1
<1>7. s \in Held(filter)
  BY <1>1, <1>5 DEF Held
<1>. DEFINE t == OneMore(filter, p, s)
<1>8. /\ t = solo'[g]
      /\ t \in Machine
      /\ \/ t.halted /\ t.pc = s.pc /\ t.back = s.back
         \/ ~t.halted /\ t.back = s.back /\ t.pc > s.pc
         \/ ~t.halted /\ t.back = s.back + 1
  BY <1>1, <1>2, <1>3, <1>7, OneMoreGoes DEF Held
<1>9. r[k + 1] = t
  <2>1. k \in 0 .. Fuel - 1
    BY <1>4, <1>5, <1>6
  <2>. QED  BY <1>2, <1>4, <2>1, RunAloneGoes
<1>. HIDE DEF t, s, r, p
<1>10. k + 1 <= t.back * MaxInsns + t.pc + (IF t.halted THEN 1 ELSE 0)
  <2>1. t.pc \in Nat /\ t.back \in Nat /\ s.back \in Nat /\ s.pc \in 0 .. MaxInsns - 1
    BY <1>5, <1>8 DEF Machine
  <2>2. s.back * MaxInsns \in Int /\ (s.back + 1) * MaxInsns = s.back * MaxInsns + MaxInsns
    BY <1>5, <2>1, BackwardRoom
  <2>3. CASE t.halted /\ t.pc = s.pc /\ t.back = s.back
    BY <1>4, <1>5, <2>1, <2>2, <2>3
  <2>4. CASE ~t.halted /\ t.back = s.back /\ t.pc > s.pc
    BY <1>4, <1>5, <2>1, <2>2, <2>4
  <2>5. CASE ~t.halted /\ t.back = s.back + 1
    BY <1>4, <1>5, <2>1, <2>2, <2>5
  <2>. QED  BY <1>8, <2>3, <2>4, <2>5
<1>11. Runs(g)'
  BY <1>1, <1>6, <1>8, <1>9, <1>10 DEF Runs, r, p
<1>. QED  BY <1>1, <1>11 DEF OnTheWay, Read

LEMMA StringWay ==
  ASSUME ProgInv, WayInv, NEW g \in Goroutine,
         BeginString(g) \/ FormatLine(g) \/ AppendLine(g) \/ EndString(g)
  PROVE  OnTheWay(g)'
<1>1. /\ call[g].op = "string" /\ call' = call /\ filter' = filter /\ solo' = solo
      /\ phase \in [Goroutine -> Phase] /\ DOMAIN out = Goroutine
      /\ phase[g] = "locked" => out[g] = << >>
  BY DEF ProgInv, Mine, BeginString, FormatLine, AppendLine, EndString, Goes
<1>2. CASE BeginString(g)
  <2>1. phase'[g] = "printing" /\ out'[g] = << >>
    BY <1>1, <1>2 DEF BeginString, Goes
  <2>2. << >> \in Seq(Int) /\ Len(<< >>) = 0
    OBVIOUS
  <2>3. Lines(g)'
    BY <2>1, <2>2 DEF Lines
  <2>. QED  BY <1>1, <2>1, <2>3 DEF OnTheWay, Read
<1>3. CASE FormatLine(g)
  BY <1>1, <1>3 DEF FormatLine, Goes, WayInv, OnTheWay, Lines, Read
<1>4. CASE AppendLine(g)
  <2>1. /\ phase'[g] = "printing" /\ phase[g] = "printed" /\ out'[g] = Append(out[g], image)
        /\ Lines(g) /\ image = Len(out[g]) /\ image \in Int
    BY <1>1, <1>4 DEF AppendLine, Goes, WayInv, OnTheWay, ProgInv, Mine, TypeOK
  <2>2. /\ out'[g] \in Seq(Int) /\ Len(out'[g]) = Len(out[g]) + 1
        /\ Len(out[g]) \in Nat
        /\ \A i \in 1 .. Len(out[g]) : out'[g][i] = out[g][i]
        /\ out'[g][Len(out[g]) + 1] = image
    BY <2>1, AppendProperties, LenProperties DEF Lines
  <2>3. \A i \in 1 .. Len(out'[g]) : out'[g][i] = i - 1
    BY <2>1, <2>2 DEF Lines
  <2>. QED  BY <1>1, <2>1, <2>2, <2>3 DEF OnTheWay, Lines, Read
<1>5. CASE EndString(g)
  BY <1>1, <1>5 DEF EndString, Goes, WayInv, OnTheWay, Lines, Read, n
<1>. QED  BY <1>2, <1>3, <1>4, <1>5

LEMMA WayNext == ProgInv /\ WayInv /\ [Next]_vars => WayInv'
<1>. SUFFICES ASSUME ProgInv, WayInv, [Next]_vars PROVE WayInv'
  OBVIOUS
<1>0. filter' = filter /\ phase \in [Goroutine -> Phase] /\ DOMAIN out = Goroutine
      /\ call \in [Goroutine -> Call \cup {NoCall}] /\ solo \in [Goroutine -> Machine]
  BY DEF Next, Work, vars, Invoke, Lock, CopyPacket, RunInsn, TakeVerdict, BeginString,
     FormatLine, AppendLine, EndString, CopyInstructions, Unlock, Return, ProgInv, TypeOK
<1>1. CASE UNCHANGED vars
  BY <1>1, WayOthers DEF WayInv, vars
<1>2. ASSUME NEW g \in Goroutine,
             (\E c \in Call : Invoke(g, c)) \/ Lock(g) \/ Work(g) \/ Return(g)
      PROVE  WayInv'
  <2>1. ASSUME NEW h \in Goroutine, h # g PROVE OnTheWay(h)'
    <3>1. phase'[h] = phase[h] /\ call'[h] = call[h] /\ out'[h] = out[h] /\ solo'[h] = solo[h]
      BY <1>0, <1>2, <2>1 DEF Work, Invoke, Lock, CopyPacket, RunInsn, TakeVerdict,
         BeginString, FormatLine, AppendLine, EndString, CopyInstructions, Unlock, Return, Goes
    <3>. QED  BY <1>0, <3>1, WayOthers DEF WayInv
  <2>2. OnTheWay(g)'
    <3>1. CASE \E c \in Call : Invoke(g, c)
      BY <1>0, <3>1 DEF Invoke, Goes, OnTheWay
    <3>2. CASE Lock(g)
      BY <1>0, <3>2 DEF Lock, Goes, OnTheWay
    <3>3. CASE CopyPacket(g)
      BY <3>3, CopyPacketWay
    <3>4. CASE RunInsn(g)
      BY <3>4, RunInsnWay
    <3>5. CASE TakeVerdict(g)
      BY <1>0, <3>5 DEF TakeVerdict, Goes, OnTheWay, WayInv, Runs, Read, ProgInv, Mine
    <3>6. CASE BeginString(g) \/ FormatLine(g) \/ AppendLine(g) \/ EndString(g)
      BY <3>6, StringWay
    <3>7. CASE CopyInstructions(g)
      BY <1>0, <3>7 DEF CopyInstructions, Goes, OnTheWay, Read, code
    <3>8. CASE Unlock(g)
      BY <1>0, <3>8 DEF Unlock, Goes, OnTheWay, WayInv, Runs
    <3>9. CASE Return(g)
      BY <1>0, <3>9 DEF Return, Goes, OnTheWay
    <3>. QED  BY <1>2, <3>1, <3>2, <3>3, <3>4, <3>5, <3>6, <3>7, <3>8, <3>9 DEF Work
  <2>. QED  BY <2>1, <2>2 DEF WayInv
<1>. QED  BY <1>1, <1>2 DEF Next

(* A call that is about to return has the answer of the object.            *)
LEMMA AnswerReady ==
  ASSUME ProgInv, WayInv, NEW g \in Goroutine, phase[g] = "unlocking"
  PROVE  out[g] = AnswerTo(filter, call[g])
<1>1. call[g] \in Call /\ filter \in Filter
  BY DEF ProgInv, TypeOK, Mine
<1>2. call[g].op \in {"match", "string"} \cup Read
  BY <1>1 DEF Call
<1>3. CASE call[g].op = "match"
  <2>1. call[g].packet \in Packet
    BY <1>1, <1>3, CallTyped
  <2>2. solo[g].halted /\ out[g] = << solo[g].ret # 0 >>
    BY <1>3 DEF ProgInv, Mine
  <2>3. PICK k \in 0 .. Fuel : solo[g] = RunAlone(filter, call[g].packet)[k]
    BY <1>3 DEF WayInv, OnTheWay, Runs
  <2>4. Verdict(filter, call[g].packet) = (solo[g].ret # 0)
    BY <1>1, <2>1, <2>2, <2>3, StoppedIsVerdict
  <2>. QED  BY <1>3, <2>2, <2>4 DEF AnswerTo
<1>4. CASE call[g].op = "string"
  <2>1. Lines(g) /\ Len(out[g]) = n
    BY <1>4 DEF WayInv, OnTheWay
  <2>2. out[g] \in [1 .. n -> Int] /\ \A i \in 1 .. n : out[g][i] = i - 1
    BY <2>1, LenProperties DEF Lines
  <2>3. out[g] = [i \in 1 .. n |-> i - 1]
    BY <2>2
  <2>. QED  BY <1>4, <2>3 DEF AnswerTo, n
<1>5. CASE call[g].op \in Read
  <2>1. out[g] = << code >>
    BY <1>5 DEF WayInv, OnTheWay
  <2>. QED  BY <1>5, <2>1 DEF AnswerTo, Read, code
<1>. QED  BY <1>2, <1>3, <1>4, <1>5

Pending == [g \in Goroutine |-> IF phase[g] \in {"idle", "returned"}
                                THEN << >> ELSE << call[g] >>]
Answered == [g \in Goroutine |-> IF phase[g] = "returned" THEN << out[g] >> ELSE << >>]

LEMMA ObjectInit == Init => Object!ObjInit
<1>. SUFFICES ASSUME Init PROVE Object!ObjInit
  OBVIOUS
<1>. QED  BY DEF Init, Object!ObjInit

LEMMA ObjectNext == ProgInv /\ WayInv /\ [Next]_vars => [Object!ObjNext]_(Object!objVars)
<1>. SUFFICES ASSUME ProgInv, WayInv, [Next]_vars
              PROVE  Object!ObjNext \/ UNCHANGED << filter, Pending, Answered >>
  BY DEF Object!objVars, Pending, Answered
<1>0. phase \in [Goroutine -> Phase] /\ DOMAIN out = Goroutine
      /\ call \in [Goroutine -> Call \cup {NoCall}]
  BY DEF ProgInv, TypeOK
<1>1. CASE UNCHANGED vars
  BY <1>1 DEF vars, Pending, Answered
<1>2. ASSUME NEW g \in Goroutine, NEW c \in Call, Invoke(g, c)
      PROVE  Object!ObjNext
  <2>1. phase[g] = "idle" /\ phase' = [phase EXCEPT ![g] = "waiting"]
        /\ call' = [call EXCEPT ![g] = c] /\ out' = out /\ filter' = filter
    BY <1>2 DEF Invoke, Goes
  <2>2. Pending[g] = << >> /\ Answered[g] = << >> /\ Answered' = Answered
    BY <1>0, <2>1 DEF Pending, Answered
  <2>3. Pending' = [Pending EXCEPT ![g] = << c >>]
    BY <1>0, <2>1 DEF Pending
  <2>4. Object!Invoke(g, c)
    BY <2>1, <2>2, <2>3 DEF Object!Invoke, Pending, Answered
  <2>. QED  BY <2>4 DEF Object!ObjNext
<1>3. ASSUME NEW g \in Goroutine, Unlock(g)
      PROVE  Object!ObjNext
  <2>1. phase[g] = "unlocking" /\ phase' = [phase EXCEPT ![g] = "returned"]
        /\ call' = call /\ out' = out /\ filter' = filter
    BY <1>3 DEF Unlock, Goes
  <2>2. out[g] = AnswerTo(filter, call[g])
    BY <2>1, AnswerReady
  <2>3. Pending[g] = << call[g] >> /\ Pending[g] # << >> /\ Pending[g][1] = call[g]
    BY <1>0, <2>1 DEF Pending
  <2>4. Pending' = [Pending EXCEPT ![g] = << >>]
    BY <1>0, <2>1 DEF Pending
  <2>5. Answered' = [Answered EXCEPT ![g] = << out[g] >>]
    BY <1>0, <2>1 DEF Answered
  <2>6. Object!TakeEffect(g)
    BY <2>1, <2>2, <2>3, <2>4, <2>5 DEF Object!TakeEffect, Pending, Answered
  <2>. QED  BY <2>6 DEF Object!ObjNext
<1>4. ASSUME NEW g \in Goroutine, Return(g)
      PROVE  Object!ObjNext
  <2>1. phase[g] = "returned" /\ phase' = [phase EXCEPT ![g] = "idle"]
        /\ call' = [call EXCEPT ![g] = NoCall] /\ out' = [out EXCEPT ![g] = << >>]
        /\ filter' = filter
    BY <1>4 DEF Return, Goes
  <2>2. Answered[g] # << >> /\ Answered' = [Answered EXCEPT ![g] = << >>]
    BY <1>0, <2>1 DEF Answered
  <2>3. Pending' = Pending
    BY <1>0, <2>1 DEF Pending
  <2>4. Object!Respond(g)
    BY <2>1, <2>2, <2>3 DEF Object!Respond, Pending, Answered
  <2>. QED  BY <2>4 DEF Object!ObjNext
<1>5. ASSUME NEW g \in Goroutine, Lock(g) \/ (Work(g) /\ ~Unlock(g))
      PROVE  UNCHANGED << filter, Pending, Answered >>
  <2>1. /\ phase[g] \notin {"idle", "returned"} /\ phase'[g] \notin {"idle", "returned"}
        /\ \A h \in Goroutine : h # g => phase'[h] = phase[h] /\ out'[h] = out[h]
        /\ call' = call /\ filter' = filter
    BY <1>0, <1>5 DEF Lock, Work, CopyPacket, RunInsn, TakeVerdict, BeginString, FormatLine,
       AppendLine, EndString, CopyInstructions, Goes
  <2>2. Pending' = Pending
    BY <2>1 DEF Pending
  <2>3. Answered' = Answered
    BY <2>1 DEF Answered
  <2>. QED  BY <2>1, <2>2, <2>3
<1>. QED  BY <1>1, <1>2, <1>3, <1>4, <1>5 DEF Next, Work

(* "It is safe for concurrent use" (filter.go:22): for any number of       *)
(* goroutines, any validated filter and any packets, the calls of a shared *)
(* Program take effect one at a time, where they release p.mu, and each    *)
(* has the answer that its arguments alone determine.                      *)
THEOREM ProgramIsLinearizable == Spec => IsFilterObject
<1>1. WayInv /\ ProgInv /\ [Next]_vars => WayInv'
  BY WayNext
<1>2. WayInv /\ ProgInv /\ [Next]_vars => [Object!ObjNext]_(Object!objVars)
  BY ObjectNext
<1>. QED  BY WayInit, ObjectInit, <1>1, <1>2, ProgInvariant, PTL
          DEF Spec, IsFilterObject, Object!ObjSpec

-----------------------------------------------------------------------------
(***************************************************************************)
(* One run of any validated program (BpfVm), apart from the calls and the  *)
(* mutex.  The inductive invariant says that the program is validated,     *)
(* that the two runs are in the same state, that the program counter is in *)
(* the program and that a run that has stopped had a reason to.            *)
(***************************************************************************)
Agreement == \A j \in 0 .. BufLen - 1 : buf[j] = stale[j]

VmInv ==
  /\ RunTypeOK
  /\ Validate(insns, count)
  /\ Agreement
  /\ StopsOnPurpose
  /\ StaleBytesInvisible

LEMMA BufLenBound == VmAssumption /\ wirelen \in WireLength => BufLen \in 0 .. BufSize
  BY Sizes, VmAssumption DEF BufLen, Word

LEMMA RunStarts == RunInit => VmInv
<1>. SUFFICES ASSUME RunInit PROVE VmInv
  OBVIOUS
<1>1. RunTypeOK
  BY StartTyped DEF RunInit, RunTypeOK
<1>2. StopsOnPurpose
  BY BpfAssumption DEF RunInit, StopsOnPurpose, Start, At
<1>. QED  BY <1>1, <1>2 DEF RunInit, VmInv, Agreement, StaleBytesInvisible

(* The lemma on one instruction, for the state of the two runs. *)
LEMMA RunOutcome ==
  ASSUME VmInv, ~state.halted
  PROVE  LET i == insns[state.pc]
             t == Step(state, insns, count, buf, wirelen, BufLen)
         IN  /\ t = Step(state, insns, count, stale, wirelen, BufLen)
             /\ t \in Machine
             /\ \/ t.halted /\ t.pc = state.pc /\ t.x = state.x /\ t.back = state.back /\ Excuse(t, i, BufLen)
                \/ ~t.halted /\ t.pc \in 0 .. count - 1 /\ t.back = state.back /\ t.pc > state.pc
                \/ ~t.halted /\ t.pc \in 0 .. count - 1 /\ t.back = state.back + 1
<1>1. /\ count \in 1 .. MaxInsns /\ state \in Machine /\ state.pc \in 0 .. count - 1
      /\ buf \in Buffer(BufSize) /\ stale \in Buffer(BufSize) /\ wirelen \in Word
      /\ insns \in [0 .. count - 1 -> InsnType] /\ BufSize \in Word
  BY VmAssumption DEF VmInv, RunTypeOK, StopsOnPurpose
<1>2. BufLen \in 0 .. BufSize
  BY BufLenBound, VmAssumption DEF VmInv, RunTypeOK
<1>3. Validate(insns, count) /\ \A j \in 0 .. BufLen - 1 : buf[j] = stale[j]
  BY DEF VmInv, Agreement
<1>. HIDE DEF BufLen
<1>. QED  BY <1>1, <1>2, <1>3, StepOutcome

LEMMA ExecuteInv == VmInv /\ Execute => VmInv'
<1>. SUFFICES ASSUME VmInv, Execute PROVE VmInv'
  OBVIOUS
<1>1. ~state.halted /\ state = twin /\ UNCHANGED input
  BY DEF Execute, VmInv, StaleBytesInvisible
<1>2. state' = twin' /\ state' \in Machine
  BY <1>1, RunOutcome DEF Execute
<1>3. RunTypeOK'
  BY <1>1, <1>2 DEF VmInv, RunTypeOK, input
<1>4. Validate(insns, count)' /\ Agreement' /\ BufLen' = BufLen
  BY <1>1 DEF VmInv, Validate, Agreement, BufLen, input
<1>5. StopsOnPurpose'
  <2>1. \/ state'.halted /\ state'.pc = state.pc /\ state'.x = state.x /\ state'.back = state.back /\ Excuse(state', insns[state.pc], BufLen)
        \/ ~state'.halted /\ state'.pc \in 0 .. count - 1
    BY <1>1, RunOutcome DEF Execute
  <2>2. Excuse(state', insns[state.pc], BufLen) /\ state'.pc = state.pc => Excuse(state, insns[state.pc], BufLen)'
    BY <1>1, <1>4 DEF Excuse, input
  <2>3. insns' = insns /\ count' = count /\ state.pc \in 0 .. count - 1
    BY <1>1 DEF input, VmInv, StopsOnPurpose
  <2>. QED  BY <2>1, <2>2, <2>3 DEF StopsOnPurpose
<1>. QED  BY <1>2, <1>3, <1>4, <1>5 DEF VmInv, StaleBytesInvisible

LEMMA RunStutters == VmInv /\ UNCHANGED runVars => VmInv'
  BY DEF VmInv, runVars, RunTypeOK, Validate, Agreement, BufLen, StopsOnPurpose, Excuse,
         StaleBytesInvisible, ValidInsn, ValidJump, Inside

LEMMA VmInvariant == RunSpec => []VmInv
<1>1. VmInv /\ [RunNext]_runVars => VmInv'
  BY ExecuteInv, RunStutters DEF RunNext
<1>. QED  BY RunStarts, <1>1, PTL DEF RunSpec

(* Every state of a run is well typed: no word, slot or counter leaves its *)
(* range (pcapint_filter_with_aux_data).                                   *)
THEOREM VmTypes == RunSpec => []RunTypeOK
<1>1. VmInv => RunTypeOK
  BY DEF VmInv
<1>. QED  BY VmInvariant, <1>1, PTL

(* A validated program of any length stays in its own instructions, and it *)
(* stops for one of the reasons Excuse names.                              *)
THEOREM ValidatedProgramsStay == RunSpec => []StopsOnPurpose
<1>1. VmInv => StopsOnPurpose
  BY DEF VmInv
<1>. QED  BY VmInvariant, <1>1, PTL

(* Whatever the packet buffer holds behind the bytes Match copied, the run *)
(* of any validated program goes the same way.                             *)
THEOREM StaleBytesNeverMatter == RunSpec => []StaleBytesInvisible
<1>1. VmInv => StaleBytesInvisible
  BY DEF VmInv
<1>. QED  BY VmInvariant, <1>1, PTL

(* The measure behind termination: a step that does not end the run moves  *)
(* forward or takes one of at most MaxBack backward jumps.                 *)
THEOREM RunsAdvance == RunSpec => EveryStepAdvances
<1>1. VmInv /\ [RunNext]_runVars => [Advances]_runVars
  <2>. SUFFICES ASSUME VmInv, Execute PROVE Advances
    BY DEF RunNext
  <2>1. ~state.halted /\ state' = Step(state, insns, count, buf, wirelen, BufLen)
    BY DEF Execute
  <2>. QED  BY <2>1, RunOutcome DEF Advances
<1>. QED  BY VmInvariant, <1>1, PTL DEF RunSpec, EveryStepAdvances
=============================================================================
