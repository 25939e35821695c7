# A TLA+ development of go-pcapfilter

go-pcapfilter compiles tcpdump filter expressions to BPF programs and runs
them on packets. The compiler is libpcap, compiled to WebAssembly and
translated to Go (`internal/bpf.go`); `filter.go` is the Go interface to it. A
compiled filter keeps its own instance of the translated module: the memory,
the heap in it, and the static buffers of the C code.

The modules here state what the parts of that program do, how they are put
together, and which properties make them correct. TLC checks the properties on
small instances. For the heap, the machine, the shared `Program`, a call of
`Compile`, the command, and the way from an expression through the code generator
to the instructions, TLAPS proves the safety properties for all values of the
constants. The optimizer and the primitives of the language are model-checked.

## 1. Inventory

### Parts, their state and their operations

| Part | Source | State | Operations |
|---|---|---|---|
| `Compile` | `filter.go` 94-166, 227-299; `src/bpf.c`; `src/setjmp.h`; `_pcap_compile` in `internal/bpf.go` | the new module; `failed`, `errbuf`, `program` of `bpf.c`; the `errbuf` of the `pcap_t`; `error_set`; the panic in flight | `Compile`, `mkcstr`, `bpf_compile`, `pcap_compile`, `bpf_error`, `bpf_set_error`, `longjmp`, `exit`, `bpf_errbuf`, recover |
| `Program` | `filter.go` 22-31, 168-225 | the mutex; address and length of the code; the packet buffer; the line buffer of `bpf_image` | `Match`, `String`, `Instructions`, `Bytes` |
| BPF machine | `_pcapint_filter_with_aux_data`, `_pcapint_validate_filter`, `_pcapint_valid_insn` | pc, A, X, scratch memory, count of backward jumps | validation; one step per instruction |
| Heap | `Xmalloc`, `Xfree`, `_realloc`, `_calloc`, `memory_grow` | break, end, last block, memory length | malloc, calloc, realloc, free |
| Name lookups | `Xresolve_host`, `Xether_hostton`, `src/netdb.c`, `src/netinet.c` | the `hostent` that `gethostbyname` keeps | calls from the module back to the caller's `Lookup` and `Ethers` |
| Lexer, grammar | `internal/bpf.go` (scanner.l, grammar.y) | the arena of 16 chunks, the stack of semantic values | a token, a reduction |
| Code generation: operators | `internal/bpf.go` (gencode.c) | the flow graph with its open exits, the scratch registers in use | `gen_and`, `gen_or`, `gen_not`, `gen_load`, `gen_arth`, `gen_relation`, `gen_ncmp`, `finish_parse` |
| Code generation: primitives | `internal/bpf.go` (gencode.c) | the offsets of the layers, the depths of VLAN tags and MPLS labels | one `gen_...` for each primitive; `vlan`, `mpls`, `pppoes`, `geneve` and `vxlan` move the offsets |
| Optimizer | `internal/bpf.go` (optimize.c) | the flow graph, the tables of the data-flow analysis, the rounds without progress | passes over the flow graph until nothing changes |
| `icode_to_fcode` | `internal/bpf.go` 39237-39800 | marks, offsets, long-jump flags of the blocks | count, convert, start again when a jump is newly found to be long |
| `bpf_image` | `internal/bpf.go` | one static line | format an instruction |
| `pcap-compile-filter` | `cmd/pcap-compile-filter/main.go` | options, the ethers table | parse options, compile, print |
| Link types | `dlt.go`, `dlt_generated.go` | tables | look up a name or a number |

### How they interact

`Compile` makes a module, copies the expression into its heap and calls
`bpf_compile`. Inside, every allocation goes to the one bump allocator; names
in the expression call back to Go through `Xresolve_host` and
`Xether_hostton`, which run the caller's own functions on the stack of the
module. There is no `setjmp`: where libpcap would `longjmp` (and where flex
calls `exit`) the module panics, and the deferred functions of `Compile` turn
the panic into an error read from the module's memory. On success the
instructions stay in the heap, a packet buffer is allocated behind them, and
the `Program` owns the module from then on. Its methods all use the memory of
that module, one at a time under `p.mu`.

### What is hard

* *Concurrency.* `Match` promises to be safe for concurrent use while every
  call shares the packet buffer, the line buffer and the stack of one module.
* *Stale bytes.* The copy of a packet leaves the tail of an earlier one in the
  buffer; the machine's bounds checks are what hides it.
* *Termination.* A validated program may jump backward, and a run that does not
  end would hold the mutex for ever.
* *Failure in the middle.* Each allocation of a compilation may be the one that
  fails. Some failures report and return, some report and panic, flex panics
  without a report; two functions write the same error buffer, one of which
  keeps the first message and the other overwrites it; `failed` must be
  cleared before the `pcap_t` it points to is freed, yet still be set when a
  panic unwinds.
* *An allocator with one step of memory.* `free` rewinds the break to the last
  block and does nothing otherwise; `realloc` rewinds before it knows whether
  the memory can grow; the end of a full memory is 2^32, stored as 0.
* *A graph that changes under its analyses.* The optimizer moves edges and
  deletes blocks while levels, dominators and value numbers are those of the
  graph before; some of its moves undo others, and a count of rounds ends it.
* *Order of checks.* A load outside the packet rejects it at once, also inside a
  negation, so the order of tests decides what becomes of a short packet.
* *Offsets that move.* `vlan`, `mpls`, `pppoes`, `geneve` and `vxlan` change what
  everything after them in the expression looks at, and the changes add up.
* *Two answers for one name.* `getaddrinfo` asks the caller once per family.
* *A word for the prefix.* The length of a prefix is computed once, at the head of
  the program, and kept in a scratch word that the code generator hands out later.
* *Numbers.* Jump targets are unsigned sums with a signed offset; indirect loads
  add a register; `Snaplen` is truncated to 32 bits.

### What makes each part correct

* Heap: blocks in use never overlap; a request is refused only when it does not
  fit, and then without effect; contents survive all but their own operations.
* Machine: a validated program cannot run out of itself, ends, and reads only
  the packet.
* `Program`: linearizable; each call answers as if it were alone, and returns.
* `Compile`: exactly one of a program, an error that was really reported, or the
  caller's own panic; nothing dangling, nothing overwritten.
* Lookups: a name is refused exactly when no answer has an address of use.
* Code generation of operators: the flow graph means what the expression means;
  every register has one owner.
* Code generation of primitives: each test accepts the frames whose layers it
  names, behind any encapsulation, and never a frame that was cut short by
  mistake.
* Optimizer: it ends, and no pass changes what the graph means.
* `icode_to_fcode`: it ends, and the instructions do what the graph does.
* Command: the exit status tells what came out; the netmask and the addresses
  that were given are the ones compiled in; only the filter goes to standard
  output.

## 2. Modules

| Module | What it is |
|---|---|
| `BumpAlloc` | the allocator as operators from heap to result; no variables |
| `HeapClient` | the allocator under any client that respects the C interface; contents of memory; ghost `live` |
| `BlockStore` | abstract: a store of separate blocks |
| `MCHeapClient` | TLC instance |
| `BumpLemmas` | lemmas about the operators of `BumpAlloc` |
| `HeapProofs` | proofs about `HeapClient`, its refinement of `BlockStore` among them |
| `Bpf` | validator and machine as operators; no variables |
| `BpfVm` | one run of a validated program, beside a twin run on a buffer with other stale bytes |
| `MCBpfVm` | TLC instance |
| `BpfLemmas` | lemmas on the operators of `Bpf` |
| `FilterObject` | abstract: an object whose calls take effect one at a time |
| `Program` | goroutines, mutex, packet buffer, line buffer, over `Bpf` |
| `MCProgram` | TLC instance |
| `ProgramProofs` | proofs about `BpfVm` and `Program`, the refinement of `FilterObject` among them |
| `Compile` | one call of `Compile`, over `BumpAlloc` |
| `MCCompile`, `CompileProofs` | TLC instance; proofs |
| `Icode` | flow graphs of blocks, and what one makes of a packet |
| `Gencode` | the code generator's operators as functions of its state |
| `Layout` | from a flow graph to instructions: count, order of the blocks, long jumps |
| `Parser` | from an expression's reductions to validated instructions, without the optimizer; what an expression means |
| `GraphProofs` | proofs about `Layout`; lemmas about flow graphs and what `Gencode` makes of them |
| `ParserProofs` | proofs about `Parser` |
| `Optimize` | the optimizer's passes as functions of a graph |
| `Compiler` | `Parser` with the optimizer between the graph and its conversion |
| `MCCompiler`, `MCLinkRegister` | TLC instances |
| `Verdicts`, `Octets` | the three verdicts of a test; bytes and masks |
| `LinkLayer` | the offsets of the layers, `gen_linktype` |
| `Network` | protocols, hosts, nets, ports |
| `Stations` | link-layer hosts, broadcast, multicast, 802.11, LLC, DECnet |
| `Lookups` | hosts, gateways and stations by name, from the callbacks' answers |
| `Encapsulation` | `vlan`, `mpls`, `pppoes`, `geneve`, `vxlan` |
| `Frames` | reference: frames as layers, what an expression means for them (not translated from the code) |
| `Filters` | a conjunction of primitives, over the modules from `LinkLayer` to `Frames` |
| `MCFilters` | TLC instance |
| `Command` | `pcap-compile-filter`, from the flags to the exit status |
| `MCCommand`, `CommandProofs` | TLC instance; proofs |

`Program`, `BpfVm` and `Icode` are built on `Bpf`; `HeapClient` and `Compile` on
`BumpAlloc`; `Parser` on `Gencode`, `Layout` and the machine; `Compiler` on `Parser`
and `Optimize`. What is proved about is written with recursive functions, so
`Gencode`, `Layout` and `Parser` are apart from `Optimize`, whose recursive operators
TLC alone can evaluate.
`HeapClient` implements `BlockStore`; `Program` implements `FilterObject`.

One call of `Compile` appears four times, cut by what is asked: `Compile`
has its memory, errors and panics, and abstracts the expression; `Compiler` (with
`Parser`) has operators, the optimizer and the instructions, and abstracts the primitives to
comparisons of bytes; `Filters` has the primitives and abstracts the flow graph
to its verdict; `Command` has the options. The seams are stated: `Compiler`
and the proofs of `Parser` show that tests joined by `gen_and`, `gen_or` and `gen_not` have the verdicts of
`And3`, `Or3` and `Not3`, and `Filters` uses these for the tests.

Operators commented `Mutant:` are not part of the models. Each is a plausible
mistake in the definition that follows it, kept to confirm that a property
notices when the definition is replaced by it; `PROJECT.json` pairs them.

### Heap

The four functions map a heap record `[brk, end, last, mem]` to a heap and a
pointer. Sizes are counted in granules of 16 bytes, because the allocator
rounds to 16 and starts at a multiple of 16: `realloc`'s test `n <= 16` becomes
`n = 1`. Pointers are words modulo the largest memory, so a full memory has its
end at 0 as in the program (`Wrap`). The loop in `Xmalloc` runs at most twice,
because after a round that moved the heap to new pages the next one extends
it; `Reserve` is those two rounds. `calloc`'s 64-bit product is refused above
`MaxInt`. `calloc` clears nothing, as in the code, which relies on fresh memory
being zero (see `CallocIsZero` in section 5).

In `HeapClient` one action is one call by the client. The client may do
anything C allows: free or resize a block it holds, write inside it. That is
the assumption on the translated C code, and `Compile` checks it for the calls
it models.

### BPF machine

An instruction is a record: class, function, operand source, load width,
`jt`, `jf`, `k`. `Step` is one turn of the interpreter's loop and `Validate` is
`pcapint_validate_filter`. Widths matter here: registers are words modulo
`W = ByteBase^4`; sums, products and jump targets are reduced as in the code;
`Signed` is how `ja` reads `k`. Bitwise operators are constants with their
types as assumptions, so the proofs do not depend on them.

`BpfVm` has one action, the step of the loop. The twin run has the same
program and packet and another buffer, equal to the first on the bytes `Match`
copied. `ProgramProofs` extends `BpfVm` and `Program` together, so the specification of
the former has names of its own: `RunInit`, `RunNext`, `RunSpec`.

### Program

Each method is cut where another goroutine can observe or disturb it: waiting
for the mutex, the copy of the packet, each instruction of a run, each line
written by `bpf_image`, each copy of a line, the unlock, the return. `Bytes` and
`Instructions` are one copy under the mutex. The `solo` ghost runs the packet in
a memory of its own. In `FilterObject` a call takes effect at one instant; in
the mapping that instant is the unlock.

### Compile

One action per allocation, callback or decision of the call, in the order of
the code. `stage` is where the call is. `heap` is the real allocator, so freeing
the string, the lexer, the arena and the `pcap_t` has the real effect (mostly
none). `live` says who holds which block. Two functions write messages:
`SetError` (`bpf_set_error`, keeps the first) and `PutError` (`bpf_error`,
`opt_error`, `conv_error` and direct `snprintf`s, which overwrite). `Panic` is
the stubbed `longjmp`, flex's `exit`, or the caller's callback. `Errbuf` is
`bpf_errbuf`, also during a panic. `told` is history: every message that was
ever produced.

Parsing is abstracted to at most `MaxSteps` steps, each of which takes memory
for the arena, the lexer or the parser, calls back, or reports; which
expressions do which is not modelled. The parser may also fail, raise an error
or (if nothing was reported) succeed at any point. A host name is looked up in two
steps, `Resolve` for IPv4 and `Resolve6` for IPv6, since the caller may panic in
the second with the answer to the first still held. Each answer takes two blocks
(`Answer`); when either is refused the other is freed and the family is dropped
without a report, and the name is refused only when no family is left. The address
of a station is copied and freed at once (`EtherHostton`).

### Parser and Compiler

An expression is the sequence of the parser's reductions, operands before
operators: every one finds operands of its kind on the stack (`WellFormed`), as the
grammar has it. Each reduction calls the code generator on the stack of results, as
`grammar.y` does. `cs` is the generator's state: the blocks made so far, the
registers in use, whether an error was raised. A block's open exits are chained
through its edges as in the code, and `gen_and` and the others merge and backpatch
them, including what is said of blocks that are known to be always or never
true. `finish_parse` gives the flow graph `o`. `Patching`, `Seeking` and `Visiting` are
the walks along a list of exits and through the graph. On a link type with a prefix
of variable length (`Prefixed`), `linkreg` is the scratch word for that length.

`ParserSpec` is a compilation as it goes without the optimizer: `Reduce`, `Finish`,
and the steps of `Layout`. `Compiler` has the same steps, and the passes of the
optimizer between the last two when the caller asks for them.

`Optimize` has each function of `optimize.c` as an operator from graph to graph.
The analyses (levels, dominators, closure, definitions and uses, sets of edges)
are fields of `o`, computed where the code computes them and stale afterwards
where the code leaves them so. A value number is the term that was hashed for
it. One action is one pass (`opt_blks`, `opt_j` over the levels, the pull-ups),
with the counters of `opt_loop`.

Every result on the stack carries what the expression means for each packet.
That reference has three values: yes, no, and reject, when deciding takes bytes
the packet does not have or a division by zero. It keeps one habit of the code:
`gen_arth` keeps only the left operand's protocol checks.

### Layout

`Layout` is `icode_to_fcode` for any graph `o` that is `Sound`: its blocks have
statements and a branch of their kinds, and no path from the root has a cycle.
`Parser` has it as part of its `Next`; that what it hands over is sound is proved
(`GraphsAreSound`), and checked behind the optimizer (`ProgramIsWhole`). `Total` is what `count_stmts` returns. `path` holds the
calls of `convert_code_r` under way: `Enter` is a recursive call, to `jf` before
`jt`, and `ConvertBlock` is the rest of a call, which takes the block's room off
the tail of the array and writes the block there. `Restart` is the return of 0
through all of them when a jump is newly found to be long, and the next attempt.
The array of each attempt comes from `calloc`, which does not clear it: the
fields the code does not write hold `dirt`, one of `Garbage`.

### Filters

An operator named after a function of the generator is the verdict of the test
that function makes, on one packet, with the offsets in the compiler's state
`st`. The part of an offset that the program computes for each packet (the
length of an 802.11 header, of Geneve options) is computed for that packet. One
action adds one primitive: `Next` has one for each kind. The encapsulations
change `st`; any other primitive leaves it, so what follows is told from the same
place and the expression ends there.

`Frames` is the other side: it builds the bytes of a frame from its layers, and
says which layer an expression has reached.

### Command

`stage` is where `main` is: the flags in its order, the scan of the ethers file
one line per step, the translation of the options in `filter.Compile` (C ints
of `MaskBits` bits, zero for the default), the checks of `pcap_compile`, what the
expression asks for, and the write. A flag is what its parser finds in it. An
expression is the set of things it asks for that depend on the flags: a host
name, an ether name, `ip broadcast`. They are met in any order, and the
compiler may refuse the expression for any other reason. That keeps `Command`
apart from `Compile`, which has the memory and the errors of the same call. The
answers of the resolver, the ethers file being readable and the write
succeeding are the environment's choice.

## 3. Runs

| Run | Question | Bounds |
|---|---|---|
| `heap_safety` | Do blocks stay apart, and are requests refused exactly when they must be? | 4 pages of 3 granules; lengths -1, 0, 1, 2, 3, 5, 7; contents left out |
| `heap_store` | Are contents preserved (refinement of `BlockStore`)? Is the proofs' invariant reached at every state? | 2 pages of 3 granules; two values; the same lengths |
| `bpf_vm` | Can a validated program leave itself, run on, or see stale bytes? | every program of 1-4 instructions out of 20; 1-bit bytes, 4-bit words; a buffer of 4; lengths 0, 1, 2, 5; 2 backward jumps |
| `program` | Is a shared `Program` linearizable, and does every call return? | 2 goroutines; 3 filters, one of which loops; 3 packets around a buffer of 2 |
| `command` | Does the exit status tell what came out, and are netmask and address the ones given? | 4-bit words; 4 link types, 2 snapshot lengths, 25 forms of `-n`; 5 ethers files of up to 3 lines; 8 expressions |
| `command_stdout`, `command_linktype`, `command_broadcast` | Does the command, or `Compile`, do what a flag's text or a comment says? (It does not, see 5.) | the same |
| `compile` | Does one call, whatever fails in it, end in an honest result? Is the proofs' invariant reached at every state? | 2 pages of 10, one of them initially reserved; strings of 7 lengths; 3 parsing steps; 2 long jumps; 102,877 states |
| `compiler` | Do the instructions mean the expression, on every packet and through every pass, and does the compilation end? | 2-bit bytes, 8-bit words; 4 scratch words; 6 packets; expressions of up to 6 tests, sums up to 5 deep; 111,006 states |
| `link_register` | Does a filter with a prefix in front of the packet match what its expression says? (It does not always, see 5.) | one expression, the rest as in `compiler` |
| `filters` | Does an expression accept the frames it names, behind any encapsulation? | 82 frames of 5 link types, 7 of them cut short; 141 primitives; up to 4 in an expression; 19,205 states |

Why these bounds are enough for what they are meant to show:

* Heap: lengths lie below, at and above a page; the initial memory, a memory
  that grows and a full memory (whose end wraps to 0) all occur, and so does a
  request that needs two pages at once. `MaxInt` is half the memory, so the
  length 7 separates `calloc` from `malloc` in `heap_safety`. The contents of
  blocks are a question of `heap_store` only.
* Machine: four instructions hold a backward jump, a condition that leaves the
  loop and a `ret`, or load, divide and return. `k = 15` makes `k + x` wrap. The
  packets are shorter than, and longer than, the buffer.
* Program: two goroutines suffice for one to be disturbed by another between
  any two of its steps; the proofs cover any number. Each goroutine calls again
  and again, so a buffer is seen after longer and shorter packets.
* Compile: the lengths of the string are chosen so that what is left of the
  heap ranges from nothing to more than a whole call needs. So each allocation
  is the failing one in some behaviour, the opening of the `pcap_t` too (with
  the real sizes that one cannot fail: a string is shorter than 2 GiB and the
  memory is 4 GiB).

* Compiler: a jump holds 2 bits, so it is long from four instructions on, and
  graphs of a few blocks need one or two attempts more. The expressions are two
  tests in all combinations with tests that are always and never true; chains of
  three to five tests on two bytes, which is what pulling up and jump threading
  work on; relations between all kinds of numbers, among them shifts beyond the
  width and divisions by zero, folded and not; and mixtures. Some need more than
  the four registers. The packets end in the link header, in the network header,
  and behind both. All of it runs with and without the optimizer.
* Filters: the nets include one whose mask is all zeroes and one whose last words
  are: such a comparison loads nothing, so a frame cut short behind the words that
  count may match. The frames have every layer the code tells apart, with each way of
  stacking tags, labels and tunnels at least once; four primitives reach the
  third encapsulation and what is behind it. Answers of lookups have both
  families in any order, one family, none, and an IPv4 address in its IPv6 form.
* Command: every word of four bits is tried as a mask. The number 16 is the first
  that does not fit and turns into 0, as 2^32 does in the code. The ethers files
  have a name twice, a longer address over a good one, and a line to skip.

Deadlock is checked in the heap, program and compiler runs; in `Compiler` only a
final phase may stutter (`Stopped`). `bpf_vm`, `compile` and `command` are single
runs that stop, and an expression of `filters` comes to its end.

### Fairness

* `BpfVm`, `Compile`: weak fairness of the next step. Both are a loop or a call
  in one goroutine, which the Go scheduler keeps running. Callbacks of the
  caller are assumed to return or panic.
* `Compiler`: the same, stated as `GoesOn`: changes happen for ever unless a final
  phase is reached. Since another step is possible in every other phase (else
  TLC would report a deadlock), that is weak fairness of `Next`, without the cost
  of deciding what is enabled.
* `Program`: weak fairness of what a goroutine does once it holds the mutex, and
  strong fairness of `Lock`, because `sync.Mutex` enters its starvation mode
  after a waiter has been overtaken for 1 ms and then hands itself to the first
  waiter. Nothing makes a goroutine call, or call again.

### Properties worth knowing

* `RefusedOnlyWhenFull` is an equivalence: page rounding and the wrap of the end
  at 2^32 never refuse a request that would fit, and `realloc` of the last block
  counts that block's own room.
* `RefusalChangesNothing`: `realloc` puts back the break it rewound.
* `ImplementsStore`: refinement, with contents.
* `StopsOnPurpose`: a run that halts does so for `ret`, a load outside the packet,
  a zero register as divisor, or the limit on backward jumps; the interpreter's
  other tests are dead after validation.
* `StaleBytesInvisible`: a relation between two runs.
* `EveryStepAdvances`, `EveryRunEnds`: the measure that makes loops end, and that
  they do.
* `AsIfAlone`, `IsFilterObject`, `EveryCallReturns`: the promise of concurrency.
* `ErrorsAreTold`, `NoErrorIsLost`: what the caller reads is what was reported,
  and nothing that was reported is followed by success.
* `FailedIsOpen`: `bpf_errbuf` never reads a freed `pcap_t`.
* `BlocksApart`, `OnlyTheResultRemains`: after all the frees the program's
  instructions and packet buffer are the only blocks, and apart.
* `GraphMeansExpression`: behind the parser and behind each pass of the optimizer
  the graph has the verdict of the expression. A packet on which the expression
  cannot be decided is left out: the optimizer may remove a read that would have
  failed. `filter_test.go` 98-101 runs each of its cases with and without it.
* `InstructionsMeanGraph`, `ProgramIsWhole`: on all packets, whatever the memory
  held. These two show that the uncleared `calloc` does no harm here: what is not
  written is not looked at.
* `RefusedRejectsAll`: "expression rejects all packets" is only said when it does.
* `RegistersHaveOneOwner`: relates the registers in use to the operands on the
  parser's stack.
* `CompileEnds`: the optimizer ends although its moves may undo each other, and so
  do the retries of the layout, where a jump is long because of what lies between.
  `EveryCompileEnds` of `Compile` says less: `MaxSteps` and `MaxLong` bound the
  parsing and the retries there, so it only shows that no stage is stuck, whatever
  failed before it.
* `FilterMeansFrame`, `OffsetsFollowTheLayers`: two ways of saying where the layers
  are, by offsets and by structure, agree after any stack of encapsulations.
* `ClippedFramesAreNotMisread`: what was not captured is no match, and no opposite
  of one.
* `UnknownHostsAreRefused`: relates the error to both answers of the resolver.

* `ExitTells`: relates the exit status to all of standard output, the expression
  and how far the command came.
* `EtherAsListed`, `MaskIsALength`, `BroadcastHasHosts`: what is compiled in
  against what the file and the flags say, several stages earlier.

## 4. Proofs

All theorems hold for every value of the constants that the named assumptions
allow.

**Heap** (`HeapAssumption`: pages and limits are positive, the heap starts inside
the initial memory; `ClientAssumption`). The inductive invariant `HeapInv` is
that the heap is well formed (its end is the end of memory, a whole number of
pages, the break inside), that blocks lie below the break and apart, and that
the last block is in use and ends at the break. The last conjunct is needed for
`free`; that blocks lie below the break is needed for every new block. The
proof rests on `MallocSound`, `CallocSound`, `ReallocSound` and `FreeSound` in
`BumpLemmas`, which say what a call returns from a well-formed heap. They come from `PageCeilLeast` and `GrowHeapSound`,
which hold the arithmetic of whole pages and of the wrap at the end. Theorems:
`HeapSafety`, `HeapTypes`, `BlocksApart`, `LastBlockOnTop`,
`RefusesOnlyWhenFull`, `RefusalIsHarmless`.

`HeapImplementsStore` is the refinement of `BlockStore`, contents included. The
mapping forgets where the break and the end are and keeps, for each block in use,
the values of its own granules. `BlocksApart` makes that a function of the block
alone, and an operation on one block leaves the values of the others; there is one
lemma for each kind of call (`StepStore` puts them together). A call that is
refused is a stutter.

**Machine** (`BpfAssumption`, `VmAssumption`). The invariant `VmInv` adds to the
types that the program is validated, the pc is in it, the two buffers agree on
the packet, and the two machines are equal. `StepOutcome` says what one step does
from such a state; it is the one place that looks at instructions, through
`LoadsInside` (the bounds checks imply the bytes are those of the packet, also
when the sum of `k` and `x` might wrap), `JumpTarget` (unsigned and signed
targets agree) and `ComputedTyped`. Theorems: `VmTypes`,
`ValidatedProgramsStay`, `StaleBytesNeverMatter`, `RunsAdvance`.

**Program** (`ProgramAssumption`). `ProgInv` adds to the three properties that a
running machine is equal to the solo one and at a pc inside the program. It has
one lemma per action. `Outsider` and `Bystander` carry the argument: only the
owner is in the critical section, so what the owner changes is nobody else's.
Theorems: `ProgramTypes`, `BuffersBelongToOwner`, `MatchAsIfAlone`.

`ProgramIsLinearizable` is the refinement of `FilterObject`: each call takes effect
at its unlock, and returns what the object says. For `Match` that is the result of
a run from the start to the end, which `Program` reaches step by step, so the
proof carries `WayInv`: the solo machine is a state of that run, and the lines and
copies made so far are the beginning of the answer.
A run of a validated program is not longer than `Fuel`, because each step moves
forward or uses up a backward jump (`EveryStepAdvances` as a measure of two
numbers); so the run that `FilterObject` takes in one step has come to its end.

**Compile** (`HeapAssumption`; `CompileAssumption`: lengths are positive, the
bounds are numbers). The inductive invariant `CompileInv` is in `Compile`, in
parts:

* `MemorySound`: the heap is well formed, the blocks of the call lie apart below
  the break, and the last block that can be taken back is one of them and ends
  at the break;
* `MessagesKept`: a message in either buffer was reported; inside `pcap_compile`
  `failed` is set and `bpf.c`'s own buffer is empty;
* `ReportsKnown`: who knows that something was reported. Before the parser nobody
  has to; while parsing `error_set` does; at the end the return code does. This
  is the part without which `NoErrorIsLost` is not inductive;
* `PanicsKnown`: a panic in flight is in an unwinding stage, and one that stands
  for a `longjmp` has its message in the `pcap_t`;
* `Holdings`, `ResultUnique`: which owners hold blocks at each stage of a call that
  still succeeds, at least and at most.

Every action moves memory in one of six ways (`Taken`, `Answered`, `Released`,
`Placed`, `TakenAndFreed`, nothing), each a lemma from `BumpLemmas`. On these,
`MemoryStep`, `TypesStep`, `ReportsStep`, `OutcomeStep`, `HoldingsStep` and
`UniqueStep` go through the actions. Theorems: `CompileSafety`, `CompileTypes`,
`ErrorsWereTold`, `NothingIsLost`, `FailedStaysOpen`, `CallBlocksApart`,
`ResultRemains`.

**Layout** (`BpfAssumption`; the graph is `Sound`; nothing is assumed of the dirt or
of the packets). `LayoutInv` says where an attempt is:

* `PathInv`: the calls under way are a path from the root without a repetition,
  all of it marked; what is marked is reached by `count_stmts`;
* `TailInv`: the array has the size that was counted with the same long jumps,
  and what is left of it is the room of the blocks that are not placed;
* `PlacedInv`: a placed block lies behind the tail with all its instructions, and
  what it leads to is placed behind it.

That a call finds what its block leads to placed, and not merely marked, is where
the graph has to be free of cycles: a marked block that is not placed is on the
path (`LeadsToPlaced`, from `NoCycle`). That a block fits in front of the tail is
`PlaceFits`, from sums over the blocks (`TotalMore`, `TotalOneMore`), and that no
more than its room is written is `BlockFits`: a jump without room for a long one
would have started the conversion over. `LayoutStep` has these by action. When
all calls have returned, the placed blocks are those that can be reached, so the
root is at 0 and the program is `LaidOut`: every block at its place, complete and
before its successors.

The second half is about such programs. `Statements`, `Branches` (a test, over a
long jump or not: `Side`, from `TestStep` and `JumpStep`) and `LastBlock` take the
run of the instructions through one block with the meaning of the graph, whatever
the dirt is; `Passage` and `FollowTogether` put the blocks in a row, and
`LaidOutMeans` is the outcome. Long jumps go forward by less than `MaxInsns`, so
their `k` is neither negative as a signed number nor wraps when added. Theorems:
`ConversionKeepsOrder`, `ConversionKeepsMeaning`, `ArrayIsBigEnough`.

**Parser** (`BpfAssumption`; `ParserAssumption`: packets are sequences of bytes, expressions
are those of the grammar, the offsets of the generator fit a word, and on bits of the
form the generator uses, the machine's operations are those of binary numbers). The
proof has three inductive invariants, one after the other.

`ParseInv` is about the stack of the parse. `Kinds` says of which kind its items are
after each reduction, and `ParsedTo` what they are. Every item has an interval of the
blocks to itself. A number has statements that leave it in a register, where its
checks have passed, and a register of its own. A block is a part of a graph with open
exits, which *decides* for every packet what it means (`Decides`, `BlockFor`): from its
head there is a way along tests that hold to one of its true exits if the expression
says yes, to one of its false exits if it says no. One lemma for each operation of
`gencode.c` leads from such items to such an item:

* The open exits are lists that run through the blocks' own edges. `BackpatchExits`,
  `MergeExits` and `JoinShape` say what `backpatch`, `merge` and the like make of such
  lists, `AndRight`, `OrRight` and `NotRight` what that means. `TrueList` and `FalseList` are
  the two lists of a block under its `sense`.
* `Later` and `Held` say what a call does to the rest of the state: blocks below
  stay, errors stay, and the words in use are the same or those of a new number.
  Together with `Owners` they are why two numbers never share a register
  (`RegistersHaveOneOwner`) although each is taken and given back in pieces.
* `LoadRight`, `ArthRight`, `NegRight`, `TestRight`, `NcmpRight`, `McmpRight` take statements to
  numbers and tests. The reference's three values matter here: a number that cannot
  be read must reject and not be a false test, and a check in front of a load is the
  one that is met first.

`GraphInv` is about the finished graph. `finish_parse` closes the exits with the two
returns, puts the prefix's length in front, and numbers the blocks that are reached.
`ReachRight` has the walk, `RankedEnds` that an order of the blocks in which every exit goes
up excludes cycles, `GraphIsSound` that the result is what `Layout` asks for, and
`GuidedMeans` (from `PathGuides`) that what decided while the exits were open still
decides in the graph. `LayoutInv` then takes over; `InstructionsMeanGraph` comes with it.

Theorems: `OperandsMeanTheirParts` (`ParseInv`), `RegistersAreOwned`, `GraphsAreSound`,
`ProgramMeansGraph`, `ParserKeepsMeaning` (`GraphMeansExpression`), and
`ProgramKeepsMeaning`: the validated program accepts a packet when the expression says
yes and refuses it when it says no, for every expression, packet, word size and number
of scratch words.

The last two have a hypothesis, `LinkRegisterIsKept`: no statement of the expression
stores to the word that holds the prefix's length. The attempt to prove them without
it failed, and the obligation that was left is the counterexample of `link_register`
(section 5). For an expression that is compiled without such a prefix, which is most
link types, nothing is assumed: `ParserKeepsMeaningWithoutPrefix`.

**Command** (`CommandAssumption`; `BitAndAssumption`: the conjunction of two words is
the one of their halves and of their last bits). `CmdInv` follows the stages of
`main`: what a flag that is used looks like (`Maybes`, `Passed`), which exit status
goes with which output (`Outcome`, `Told`), and that the table holds the last line
for each name among those scanned (`Scanned`). `MaskIsALength` asks for the
arithmetic of masks (`AllOnes`): a number that has no bit in common with the next
one is all ones, by strong induction over its halves; so a word that passes the
code's test is a block of leading ones.
Theorems: `CommandTyped`, `StatusTells`, `EveryMaskIsALength`, `EtherIsAsListed`,
`BroadcastsHaveHosts`.

**Induction.** The induction theorems of the library take an operator, which the
provers cannot instantiate. The proofs take a least counterexample instead
(`LeastNat`, from the well-foundedness of `<`, and `Induct`), and a recursive
function satisfies its definition because functions that do exist for every upper
bound (the lemmas named `...Unfolds`).

Only model-checked:

* liveness (`EveryRunEnds`, `EveryCallReturns`, `EveryCompileEnds`, `CompileEnds`),
  which the prover cannot do under fairness. The safety half of the first,
  `EveryStepAdvances`, is proved;
* the optimizer, which looks for fixed points and evaluates blocks by recursive
  operators, over which the provers cannot reason. So it is checked, and not
  proved, that `GraphMeansExpression` and soundness hold behind every pass, and
  `RefusedRejectsAll`;
* two of the three parts of `ProgramIsWhole`, with and without the optimizer: that no
  program of the code generator is refused by the validator, which depends on its
  length and on the numbers being those of the instance, and that the last attempt
  leaves no slot of the array unwritten. The first part, that the graph is sound,
  is `GraphsAreSound`;
* `Filters`: a comparison with a reference, frame by frame.

## 5. Where code and documents disagree

* `RawIsOnlyBytes` (`command_stdout`): `newLookup` prints each answer of the
  resolver to standard output (`main.go` 132), in front of the bytes that `-r`
  promises (`main.go` 21).
* `LinkTypeAsGiven` (`command_linktype`): link type 0 means the default
  (`filter.go` 127), and 0 is `DLT_NULL`; `-t NULL` compiles for Ethernet
  (`main.go` 23).
* `BroadcastSkipped` (`command_broadcast`): without a netmask "broadcast checks are
  skipped" (`filter.go` 60), but `_gen_broadcast` raises an error.

* `GraphMeansExpression` (`link_register`): "Match returns true if pkt matches the
  compiled filter" (`filter.go` 218). On a link type with a prefix of variable length,
  such as radiotap, `gen_abs_offset_varpart` takes the word for the length when a
  place behind the prefix is first read (`bpf.go` 3174). A relation before that may
  have used and freed the same word. The length is stored at the head of the program,
  the relation then stores its operand over it, and `len = 11 and link[0] = 2`
  looks at place 11 of the packet instead of the first one behind the prefix.

A related limit that contradicts no document: the netmask 255.255.255.255 (`-n
32`) is the number that stands for no netmask, so `ip broadcast` is refused.

### Limits found while modelling

None of these contradicts a document; the models have them as the code does.

* An 802.11 header is measured from the frame's type and subtype alone, so the
  payload of a frame with four addresses is looked for six bytes too early; and
  a VLAN tag in an 802.11 frame is behind an LLC header that is not found again
  by `llc` and its kinds. `Untold` in `Filters` names these cases, and
  `FilterMeansFrame` says nothing of them.
* The depth of the MPLS stack is never reset: inside a tunnel that came behind a
  label, primitives are told as if they were labelled (`LabelsForgotten`, the
  third case of `Untold`).
* On Linux cooked captures the ISO protocols are looked for one byte off, so no
  ISO frame over them is in the instance. The LLC control field before ISO is
  taken to be one byte. IP inside SNAP on Ethernet does not count as `ip`. On an
  802.11 frame without data a network test rejects instead of failing to match.
* `ra` looks at data frames only, and what Geneve carries is measured with the
  outer frame's LLC offset. An IPv4 address in its IPv6 form, when it is the
  answer of a lookup, is used as an IPv6 address.
* `gen_arth` drops the protocol checks of the right operand, so a number like
  `ip[0] + tcp[0]` is computed for packets that are not TCP.
* `CallocIsZero` (in `HeapClient`) is stated and in no run. It does not hold once a
  block was taken back, because the break is rewound over memory that was
  written. `icode_to_fcode` meets this when it starts again. That it does no harm
  is shown in `Layout`, where the array holds garbage from the start.

### Not modelled

* The tables of the lexer and the grammar are generated by flex and bison. Their
  memory and their errors are in `Compile`; the expressions of the other modules
  are the parse trees they deliver.
* Of the primitives: the link types other than the five of `Filters` (ATM, MTP,
  PPI and radiotap headers, and more), `protochain` (whose code is a loop), and
  tests of fields that only one of those link types has. Left out of the lookups:
  parsing addresses in text, and `gethostbyname`, which nothing calls. `Filters`
  takes the answers as they are; that one is lost because an allocation fails while
  it is built is in `Compile`.
* The arena of 16 doubling chunks (`bpf.go` 123): no request of the code generator
  comes near the size of a chunk. In `Compile` it is a step that takes memory.
* Addresses above 2 GiB (`filter.go` 172) are negative in Go and would make the
  slices panic; that takes a string of that size, and the addresses of the models
  have no sign.
* What `bpf_image` prints is text; only its buffer is in `Program`.
* Link-type tables, generated accessors, headers and build tools have no state.

## 6. Plan

Done, in this order: heap, machine, `Program`, `Compile`, their proofs; `Command`;
`Compiler` with code generation, optimizer and instructions; `Filters` with the
primitives, the encapsulations and the lookups; the refinements of `BlockStore` and
`FilterObject`; proofs about `Command`; `Layout` apart from `Compiler`, and its proof;
`Parser` apart from the optimizer, and the proof from the expression to the program.

What could follow, in order:

1. That every slot of the array is written in the last attempt: distances only
   grow from one attempt to the next, so a jump that was long stays long. This
   takes the order of the blocks as a function of the graph.
2. Proofs about the optimizer's moves, one at a time and with recursive functions in
   place of the operators: `Decides` and `Guides` are the form in which to say that a
   move keeps the meaning of a graph.
3. More link types in `LinkLayer`: PPP, PPPoE at the link, Linux cooked v2,
   and the pseudo-headers in front of 802.11, whose length is read from the
   packet (`Compiler` has such a prefix).
4. `protochain`, whose loop needs the backward jumps of `Bpf`.
5. Flow graphs for the primitives of `Filters`, so that the seam between the two
   modules is a run and not an argument.
6. The arena, with requests that do not fit the next chunk.
