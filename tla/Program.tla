------------------------------ MODULE Program ------------------------------
(***************************************************************************)
(* A compiled Program shared by goroutines (filter.go: Match, String,      *)
(* Instructions and Bytes).  All calls go through one mutex, because they  *)
(* share the memory of one WebAssembly module: the packet buffer that      *)
(* Match fills, the static buffer that bpf_image writes a line to, and the *)
(* stack a run keeps its scratch memory on.                                *)
(***************************************************************************)
EXTENDS Bpf, Sequences

CONSTANTS
  Goroutine,
  NoOne,       \* the owner of an unlocked mutex
  Snaplen,     \* bytes of the packet buffer
  Filter,      \* the programs Compile may have returned: [n, code]
  Packet       \* the packets of the callers: [len, at]

ASSUME ProgramAssumption ==
  /\ NoOne \notin Goroutine
  /\ Snaplen \in Word
  /\ \A f \in Filter :
       /\ f.n \in 1 .. MaxInsns /\ f.code \in [0 .. f.n - 1 -> InsnType]
       /\ Validate(f.code, f.n)
  /\ \A p \in Packet : p.len \in Word /\ p.at \in Buffer(p.len)

Read == {"bytes", "instructions"}
NoCall == [op |-> "none"]
Call == [op : {"match"}, packet : Packet] \cup [op : {"string"} \cup Read]

VARIABLES
  filter,     \* the program: p.n instructions at p.ptr
  owner,      \* the goroutine that holds p.mu
  phase,      \* where each goroutine is
  call,       \* the call it is in
  out,        \* what its call has produced so far
  pktbuf,     \* the packet buffer (p.pkt)
  image,      \* the instruction whose line bpf_image wrote last (-1: none)
  vm,         \* the machine of the run in progress, on the shared stack
  solo        \* ghost: the run of the packet of each goroutine alone

vars == << filter, owner, phase, call, out, pktbuf, image, vm, solo >>

n == filter.n
code == filter.code

Phase == {"idle", "waiting", "locked", "running", "printing", "printed",
          "unlocking", "returned"}

Cut(p) == IF p.len < Snaplen THEN p.len ELSE Snaplen

(* The packet buffer with nothing but the packet in it. *)
Alone(p) == [j \in 0 .. Snaplen - 1 |-> IF j < Cut(p) THEN p.at[j] ELSE 0]

Init ==
  /\ filter \in Filter
  /\ owner = NoOne
  /\ phase = [g \in Goroutine |-> "idle"]
  /\ call = [g \in Goroutine |-> NoCall]
  /\ out = [g \in Goroutine |-> << >>]
  /\ pktbuf = [j \in 0 .. Snaplen - 1 |-> 0]
  /\ image = -1
  /\ vm = Start
  /\ solo = [g \in Goroutine |-> Start]

Goes(g, from, to) == phase[g] = from /\ phase' = [phase EXCEPT ![g] = to]

Invoke(g, c) ==
  /\ Goes(g, "idle", "waiting")
  /\ call' = [call EXCEPT ![g] = c]
  /\ UNCHANGED << filter, owner, out, pktbuf, image, vm, solo >>

(* Mutant: the mutex is not waited for. *)
LockAnyway(g) ==
  /\ Goes(g, "waiting", "locked")
  /\ owner' = g
  /\ UNCHANGED << filter, call, out, pktbuf, image, vm, solo >>

Lock(g) ==
  /\ owner = NoOne
  /\ Goes(g, "waiting", "locked")
  /\ owner' = g
  /\ UNCHANGED << filter, call, out, pktbuf, image, vm, solo >>

(* Mutants: the packet is not cut to the buffer; a run goes on where the    *)
(* one before it has stopped.                                              *)
CopyWholePacket(g) ==
  /\ call[g].op = "match"
  /\ Goes(g, "locked", "running")
  /\ LET p == call[g].packet
     IN  pktbuf' = IF p.len < Snaplen
                   THEN [j \in 0 .. Snaplen - 1 |-> IF j < p.len THEN p.at[j] ELSE pktbuf[j]]
                   ELSE p.at
  /\ vm' = Start
  /\ solo' = [solo EXCEPT ![g] = Start]
  /\ UNCHANGED << filter, owner, call, out, image >>

CopyPacketOnly(g) ==
  /\ call[g].op = "match"
  /\ Goes(g, "locked", "running")
  /\ LET p == call[g].packet
     IN  pktbuf' = [j \in 0 .. Snaplen - 1 |-> IF j < Cut(p) THEN p.at[j] ELSE pktbuf[j]]
  /\ solo' = [solo EXCEPT ![g] = Start]
  /\ UNCHANGED << filter, owner, call, out, image, vm >>

(* copy(memory[p.pkt:], pkt[:min(len(pkt), snaplen)]): the rest of the     *)
(* buffer keeps what an earlier packet left.                               *)
CopyPacket(g) ==
  /\ call[g].op = "match"
  /\ Goes(g, "locked", "running")
  /\ LET p == call[g].packet
     IN  pktbuf' = [j \in 0 .. Snaplen - 1 |-> IF j < Cut(p) THEN p.at[j] ELSE pktbuf[j]]
  /\ vm' = Start
  /\ solo' = [solo EXCEPT ![g] = Start]
  /\ UNCHANGED << filter, owner, call, out, image >>

RunInsn(g) ==
  LET p == call[g].packet
  IN  /\ phase[g] = "running" /\ ~vm.halted
      /\ vm' = Step(vm, code, n, pktbuf, p.len, Cut(p))
      /\ solo' = [solo EXCEPT ![g] = Step(@, code, n, Alone(p), p.len, Cut(p))]
      /\ UNCHANGED << filter, owner, phase, call, out, pktbuf, image >>

TakeVerdict(g) ==
  /\ vm.halted
  /\ Goes(g, "running", "unlocking")
  /\ out' = [out EXCEPT ![g] = << vm.ret # 0 >>]
  /\ UNCHANGED << filter, owner, call, pktbuf, image, vm, solo >>

(* The loop of String: bpf_image formats an instruction in its buffer, and *)
(* cstr copies the line out of it.                                         *)
BeginString(g) ==
  /\ call[g].op = "string"
  /\ Goes(g, "locked", "printing")
  /\ UNCHANGED << filter, owner, call, out, pktbuf, image, vm, solo >>

FormatLine(g) ==
  /\ Len(out[g]) < n
  /\ Goes(g, "printing", "printed")
  /\ image' = Len(out[g])
  /\ UNCHANGED << filter, owner, call, out, pktbuf, vm, solo >>

(* Mutant: a line replaces the ones before it, whose number the loop reads. *)
AppendLineOver(g) ==
  /\ Goes(g, "printed", "printing")
  /\ out' = [out EXCEPT ![g] = << image >>]
  /\ UNCHANGED << filter, owner, call, pktbuf, image, vm, solo >>

AppendLine(g) ==
  /\ Goes(g, "printed", "printing")
  /\ out' = [out EXCEPT ![g] = Append(@, image)]
  /\ UNCHANGED << filter, owner, call, pktbuf, image, vm, solo >>

(* Mutant: the last instruction is not printed. *)
EndStringEarly(g) ==
  /\ Len(out[g]) = n - 1
  /\ Goes(g, "printing", "unlocking")
  /\ UNCHANGED << filter, owner, call, out, pktbuf, image, vm, solo >>

EndString(g) ==
  /\ Len(out[g]) = n
  /\ Goes(g, "printing", "unlocking")
  /\ UNCHANGED << filter, owner, call, out, pktbuf, image, vm, solo >>

CopyInstructions(g) ==
  /\ call[g].op \in Read
  /\ Goes(g, "locked", "unlocking")
  /\ out' = [out EXCEPT ![g] = << code >>]
  /\ UNCHANGED << filter, owner, call, pktbuf, image, vm, solo >>

(* The deferred p.mu.Unlock(). *)
Unlock(g) ==
  /\ Goes(g, "unlocking", "returned")
  /\ owner' = NoOne
  /\ UNCHANGED << filter, call, out, pktbuf, image, vm, solo >>

Return(g) ==
  /\ Goes(g, "returned", "idle")
  /\ out' = [out EXCEPT ![g] = << >>]
  /\ call' = [call EXCEPT ![g] = NoCall]
  /\ UNCHANGED << filter, owner, pktbuf, image, vm, solo >>

Work(g) ==
  \/ CopyPacket(g) \/ RunInsn(g) \/ TakeVerdict(g)
  \/ BeginString(g) \/ FormatLine(g) \/ AppendLine(g) \/ EndString(g)
  \/ CopyInstructions(g)
  \/ Unlock(g)

Next ==
  \E g \in Goroutine :
    \/ \E c \in Call : Invoke(g, c)
    \/ Lock(g)
    \/ Work(g)
    \/ Return(g)

Spec == Init /\ [][Next]_vars

(* The scheduler runs a goroutine that is able to run, and sync.Mutex does *)
(* not starve a waiter.                                                    *)
FairSpec ==
  /\ Spec
  /\ \A g \in Goroutine : WF_vars(Work(g)) /\ SF_vars(Lock(g))

-----------------------------------------------------------------------------
TypeOK ==
  /\ filter \in Filter
  /\ owner \in Goroutine \cup {NoOne}
  /\ phase \in [Goroutine -> Phase]
  /\ call \in [Goroutine -> Call \cup {NoCall}]
  /\ pktbuf \in Buffer(Snaplen)
  /\ image \in -1 .. n - 1
  /\ vm \in Machine /\ solo \in [Goroutine -> Machine]

InCritical(g) == phase[g] \in Phase \ {"idle", "waiting", "returned"}

(* The buffers of the module belong to the goroutine that holds p.mu: the  *)
(* packet under a run is that of its own caller, whoever called before or  *)
(* is waiting (Match, lines 219-225).                                      *)
BuffersAreMine ==
  \A g \in Goroutine :
    /\ InCritical(g) <=> owner = g
    /\ phase[g] = "running" =>
         \A j \in 0 .. Cut(call[g].packet) - 1 : pktbuf[j] = call[g].packet.at[j]
    /\ phase[g] = "printed" => image = Len(out[g])

(* A run in the shared memory goes step by step like the run of the same   *)
(* packet in a memory of its own, so Match tells its caller the verdict of *)
(* its packet.                                                             *)
AsIfAlone ==
  \A g \in Goroutine : call[g].op = "match" =>
    /\ phase[g] = "running" => vm = solo[g]
    /\ phase[g] \in {"unlocking", "returned"} =>
         solo[g].halted /\ out[g] = << solo[g].ret # 0 >>

(* The answers of FilterObject: the verdict is that of a run on the packet *)
(* alone, which takes at most Fuel instructions.                           *)
Fuel == MaxInsns * (MaxBack + 1)

OneMore(f, p, t) ==
  IF t.halted THEN t ELSE Step(t, f.code, f.n, Alone(p), p.len, Cut(p))

RunAlone(f, p) ==
  LET Run[k \in 0 .. Fuel] == IF k = 0 THEN Start ELSE OneMore(f, p, Run[k - 1])
  IN  Run

Verdict(f, p) == RunAlone(f, p)[Fuel].ret # 0

AnswerTo(f, c) ==
  IF c.op = "match" THEN << Verdict(f, c.packet) >>
  ELSE IF c.op = "string" THEN [i \in 1 .. f.n |-> i - 1]
  ELSE << f.code >>

Object == INSTANCE FilterObject WITH
  Answer <- AnswerTo,
  pending <- [g \in Goroutine |-> IF phase[g] \in {"idle", "returned"}
                                  THEN << >> ELSE << call[g] >>],
  answer <- [g \in Goroutine |-> IF phase[g] = "returned" THEN << out[g] >> ELSE << >>]

(* "It is safe for concurrent use" (filter.go:22): the shared Program      *)
(* implements the object whose calls take effect one at a time.            *)
IsFilterObject == Object!ObjSpec

(* Every call on a Program returns, however many others keep coming: the   *)
(* mutex is always unlocked again, and no run of a filter lasts for ever.  *)
EveryCallReturns ==
  \A g \in Goroutine : phase[g] = "waiting" ~> phase[g] = "returned"
=============================================================================
