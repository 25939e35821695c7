------------------------------- MODULE BpfVm -------------------------------
(***************************************************************************)
(* One run of a validated program on a packet (Xpcapint_filter, called by  *)
(* Program.Match), next to a second run of the same program that differs   *)
(* only in the bytes of the packet buffer that Match did not write: what   *)
(* an earlier, longer packet left there.                                   *)
(***************************************************************************)
EXTENDS Bpf

CONSTANTS
  Instruction,   \* the instructions a program is made of
  BufSize,       \* bytes of the packet buffer
  Content,       \* what the packet buffer may hold
  WireLength     \* lengths of a packet before it is cut to the buffer

ASSUME VmAssumption ==
  /\ Instruction \subseteq InsnType
  /\ BufSize \in Word
  /\ Content \subseteq Buffer(BufSize)
  /\ WireLength \subseteq Word

VARIABLES
  count, insns,  \* the program
  buf, stale,    \* the packet buffer of either run
  wirelen,       \* the length of the packet
  state, twin    \* the machine of either run

input == << count, insns, buf, stale, wirelen >>
runVars == << count, insns, buf, stale, wirelen, state, twin >>

(* The bytes that Match copies to the buffer. *)
BufLen == IF wirelen < BufSize THEN wirelen ELSE BufSize

RunTypeOK ==
  /\ count \in 1 .. MaxInsns
  /\ insns \in [0 .. count - 1 -> Instruction]
  /\ buf \in Content /\ stale \in Content
  /\ wirelen \in WireLength
  /\ state \in Machine /\ twin \in Machine

RunInit ==
  /\ count \in 1 .. MaxInsns
  /\ insns \in [0 .. count - 1 -> Instruction]
  /\ Validate(insns, count)
  /\ wirelen \in WireLength
  /\ buf \in Content /\ stale \in Content
  /\ \A j \in 0 .. BufLen - 1 : buf[j] = stale[j]
  /\ state = Start /\ twin = Start

Execute ==
  /\ ~state.halted
  /\ state' = Step(state, insns, count, buf, wirelen, BufLen)
  /\ twin' = Step(twin, insns, count, stale, wirelen, BufLen)
  /\ UNCHANGED input

RunNext == Execute

RunSpec == RunInit /\ [][RunNext]_runVars

(* A run is a loop in one goroutine that no callback interrupts. *)
FairRun == RunSpec /\ WF_runVars(Execute)

-----------------------------------------------------------------------------
(* A run never leaves a validated program: the program counter stays in it *)
(* and it stops only with an excuse.  pcapint_validate_filter has ruled    *)
(* out the rest: unknown opcodes, jumps out of the program, scratch memory *)
(* out of range, a missing "ret".                                          *)
StopsOnPurpose ==
  /\ state.pc \in 0 .. count - 1
  /\ state.halted => Excuse(state, insns[state.pc], BufLen)

(* The result of a run depends on the packet alone, never on the bytes an  *)
(* earlier packet left in the buffer behind it (Match copies min(len(pkt), *)
(* snaplen) bytes over whatever is there and does not clear the rest).     *)
StaleBytesInvisible == state = twin

(* A step of a run that goes on moves forward in the program or uses up    *)
(* one of the backward jumps it is allowed: no validated program can spin  *)
(* and hold the lock of Program.Match for ever.                            *)
Advances ==
  \/ state'.halted
  \/ state'.back = state.back + 1
  \/ state'.back = state.back /\ state'.pc > state.pc
EveryStepAdvances == [][Advances]_runVars

(* A validated program may loop, but every run of it ends: backward jumps  *)
(* are counted.                                                            *)
EveryRunEnds == <>state.halted
=============================================================================
