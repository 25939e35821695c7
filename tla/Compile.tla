------------------------------ MODULE Compile ------------------------------
(***************************************************************************)
(* One call of Compile (filter.go) from the new Module to its return: the  *)
(* deferred free and recover, bpf_compile and bpf_errbuf (bpf.c), and the  *)
(* control of pcap_compile with the allocations and the error paths of the *)
(* lexer, the parser, the optimizer and icode_to_fcode.  There is no       *)
(* setjmp: a longjmp, and the exit flex calls, is a Go panic that unwinds  *)
(* to Compile and leaves the module as it is.  Every allocation goes       *)
(* through the heap of BumpAlloc, so each of them may be the one that      *)
(* fails.                                                                  *)
(*                                                                         *)
(* What the grammar accepts is abstracted: parsing is a bounded number of  *)
(* steps, each of which may take memory, call back or fail.                *)
(***************************************************************************)
EXTENDS BumpAlloc

CONSTANTS
  PcapLen, ArenaLen, LexerLen,  \* a pcap_t, the first chunk, a yyscan_t
  StringLens, \* lengths of the expression
  Sizes,      \* lengths of the other blocks that depend on the expression
  Snaplens,   \* int32(opts.Snaplen) or the default; 0 when 2^32 is truncated
  MaxSteps,   \* bound: parsing steps that take memory
  MaxLong     \* bound: jumps whose offset does not fit in Jt or Jf

ASSUME CompileAssumption ==
  /\ PcapLen \in Nat \ {0}
  /\ ArenaLen \in Nat \ {0}
  /\ LexerLen \in Nat \ {0}
  /\ StringLens \subseteq Nat \ {0}
  /\ Sizes \subseteq Nat \ {0}
  /\ Snaplens \subseteq Int
  /\ MaxSteps \in Nat
  /\ MaxLong \in Nat

Owner == {"string", "pcap", "arena", "lexer", "parser", "names", "optimizer",
          "insns", "packet"}
Block == [owner : Owner, at : Address \ {0}, len : Nat \ {0}]

Message == {"out of memory", "out of wasm memory", "snaplen rejects all",
            "unsupported link type", "syntax", "cannot generate",
            "rejects all packets", "not valid"}
Text == Message \cup {"", "unimplemented longjmp", "unexpected exit"}
Raised == {"", "unimplemented longjmp", "unexpected exit", "user"}

VARIABLES
  stage,     \* where the call is
  snaplen, optimize,
  heap, live,      \* the allocator and the blocks in use
  failed,    \* bpf.c's failed is the open pcap_t
  pbuf,      \* the errbuf of that pcap_t
  gbuf,      \* bpf.c's own errbuf
  errset,    \* cstate->error_set
  steps, long,     \* parsing steps taken, long jumps found
  rc,        \* what pcap_compile returned
  raised,    \* the panic that is unwinding
  outcome,   \* what Compile returns
  told       \* history: every diagnostic that was produced

input == <<snaplen, optimize>>
memory == <<heap, live>>
errors == <<pbuf, errset, told>>
globals == <<failed, gbuf>>
progress == <<steps, long>>
result == <<rc, raised, outcome>>
vars == <<stage, input, memory, errors, globals, progress, result>>

Returned(kind, text) == [kind |-> kind, text |-> text]

Init ==
  /\ stage = "start"
  /\ snaplen \in Snaplens
  /\ optimize \in BOOLEAN
  /\ heap = NewHeap /\ live = {}
  /\ failed = FALSE /\ pbuf = "" /\ gbuf = "" /\ errset = FALSE
  /\ steps = 0 /\ long = 0
  /\ rc = 0 /\ raised = "" /\ outcome = Returned("none", "")
  /\ told = {}

(***************************************************************************)
(* The effects the steps are made of.  A length that calloc refuses is one  *)
(* that is negative when it reaches malloc as an int, so one operator does *)
(* for both.                                                               *)
(***************************************************************************)
Take(owner, n) ==
  LET r == Calloc(heap, n)
  IN  /\ r.ptr # 0
      /\ heap' = r.heap
      /\ live' = live \cup {[owner |-> owner, at |-> r.ptr, len |-> n]}

Refused(n) ==
  LET r == Calloc(heap, n)
  IN  r.ptr = 0 /\ heap' = r.heap /\ UNCHANGED live

(* A block that is wanted for a moment. *)
TakeAndFree(n) ==
  LET r == Calloc(heap, n)
  IN  r.ptr # 0 /\ heap' = Free(r.heap, r.ptr) /\ UNCHANGED live

(* Free every block of these owners; only the last of all matters to the   *)
(* allocator, so the order of the calls does not.                          *)
Owned(owners) == {b \in live : b.owner \in owners}

Release(owners) ==
  /\ heap' = IF \E b \in Owned(owners) : b.at = heap.last
             THEN Free(heap, heap.last) ELSE heap
  /\ live' = live \ Owned(owners)

(* bpf_set_error keeps the first message, the others overwrite.            *)
SetError(m) ==
  /\ told' = told \cup {m}
  /\ errset' = TRUE
  /\ pbuf' = IF errset THEN pbuf ELSE m

PutError(m) == told' = told \cup {m} /\ pbuf' = m /\ UNCHANGED errset

GoTo(to) == stage' = to /\ UNCHANGED result

GiveUp == stage' = "cleanup" /\ rc' = -1 /\ UNCHANGED <<raised, outcome>>

Panic(what) == stage' = "unwind" /\ raised' = what /\ UNCHANGED <<rc, outcome>>

Longjmp == Panic("unimplemented longjmp")

Finish(to, kind, text) ==
  stage' = to /\ outcome' = Returned(kind, text) /\ UNCHANGED <<rc, raised>>

(***************************************************************************)
(* mkcstr, and bpf_compile up to the call of pcap_compile.                 *)
(***************************************************************************)
MakeString ==
  /\ stage = "start"
  /\ \E n \in StringLens :
       \/ Take("string", n) /\ GoTo("open") /\ UNCHANGED told
       \/ /\ Refused(n)
          /\ told' = told \cup {"out of wasm memory"}
          /\ Finish("done", "error", "out of wasm memory")
  /\ UNCHANGED <<input, pbuf, errset, globals, progress>>

OpenDummy ==
  /\ stage = "open"
  /\ \/ /\ Take("pcap", PcapLen) /\ GoTo("arena")
        /\ failed' = TRUE
        /\ UNCHANGED <<gbuf, told>>
     \/ /\ Refused(PcapLen)
        /\ gbuf' = "out of memory"
        /\ told' = told \cup {"out of memory"}
        /\ stage' = "failure" /\ rc' = -1
        /\ UNCHANGED <<failed, raised, outcome>>
  /\ UNCHANGED <<input, pbuf, errset, progress>>

(***************************************************************************)
(* pcap_compile: the first chunk of the arena, the snapshot length, the    *)
(* lexer and its copy of the expression, the link type.                    *)
(***************************************************************************)
FirstChunk ==
  /\ stage = "arena"
  /\ \/ Take("arena", ArenaLen) /\ GoTo("snapshot") /\ UNCHANGED errors
     \/ Refused(ArenaLen) /\ SetError("out of memory") /\ GiveUp
  /\ UNCHANGED <<input, globals, progress>>

Snapshot ==
  /\ stage = "snapshot"
  /\ \/ snaplen # 0 /\ GoTo("lexer") /\ UNCHANGED errors
     \/ snaplen = 0 /\ PutError("snaplen rejects all") /\ GiveUp
  /\ UNCHANGED <<input, memory, globals, progress>>

LexInit ==
  /\ stage = "lexer"
  /\ \/ Take("lexer", LexerLen) /\ GoTo("scan") /\ UNCHANGED errors
     \/ Refused(LexerLen) /\ PutError("out of memory") /\ GiveUp
  /\ UNCHANGED <<input, globals, progress>>

ScanString ==
  /\ stage = "scan"
  /\ \E b \in Owned({"string"}) :
       \/ Take("lexer", b.len) /\ GoTo("link")
       \/ Refused(b.len) /\ Panic("unexpected exit")
  /\ UNCHANGED <<input, errors, globals, progress>>

InitLinkType ==
  /\ stage = "link"
  /\ \/ GoTo("parse") /\ UNCHANGED errors
     \/ SetError("unsupported link type") /\ GiveUp
  /\ UNCHANGED <<input, memory, globals, progress>>

(***************************************************************************)
(* Parsing and generating code.  sdup reports a chunk it cannot get and    *)
(* goes on (the parser has read the token as lookahead and may still       *)
(* reduce what precedes it); newchunk gives up at once.                    *)
(***************************************************************************)
Parsing == stage = "parse" /\ steps < MaxSteps /\ steps' = steps + 1

NewChunk ==
  /\ Parsing
  /\ \E n \in Sizes :
       \/ Take("arena", n) /\ GoTo("parse") /\ UNCHANGED errors
       \/ /\ Refused(n) /\ SetError("out of memory")
          /\ GoTo("parse") \/ Longjmp
  /\ UNCHANGED <<input, globals, long>>

GrowLexer ==
  /\ Parsing
  /\ \E n \in Sizes :
       \/ Take("lexer", n) /\ GoTo("parse")
       \/ Refused(n) /\ Panic("unexpected exit")
  /\ UNCHANGED <<input, errors, globals, long>>

(* The parser moves its stack to a larger block; the one it leaves is      *)
(* freed when it is no longer the last, which does nothing to the heap.    *)
(* Without memory the parser fails as for a syntax error.                  *)
GrowParser ==
  /\ Parsing
  /\ \E n \in Sizes :
       \/ LET r == Malloc(heap, n)
          IN  /\ r.ptr # 0
              /\ heap' = r.heap
              /\ live' = (live \ Owned({"parser"}))
                            \cup {[owner |-> "parser", at |-> r.ptr, len |-> n]}
              /\ GoTo("parse") /\ UNCHANGED errors
       \/ Refused(n) /\ SetError("out of memory") /\ GoTo("abort")
  /\ UNCHANGED <<input, globals, long>>

(* The lookup functions of the options are the caller's code: they answer, *)
(* refuse or panic.  getaddrinfo asks for the IPv4 address and then for    *)
(* the IPv6 one, and keeps an answer in two blocks until the code for it   *)
(* is generated: an addrinfo, of two granules, and a sockaddr_in of one or *)
(* a sockaddr_in6 of two.  When either is refused it frees the other one   *)
(* and goes on without that answer.                                        *)
NameAt(p, n) == [owner |-> "names", at |-> p, len |-> n]

Answer(n) ==
  \E ai \in {Calloc(heap, 2)} : \E sin \in {Calloc(ai.heap, n)} :
    \/ /\ ai.ptr # 0 /\ sin.ptr # 0
       /\ heap' = sin.heap
       /\ live' = live \cup {NameAt(ai.ptr, 2), NameAt(sin.ptr, n)}
    \/ /\ ai.ptr = 0 \/ sin.ptr = 0
       /\ heap' = Free(Free(sin.heap, ai.ptr), sin.ptr)
       /\ UNCHANGED live

Resolve ==
  /\ Parsing
  /\ Owned({"names"}) = {}
  /\ \/ (Answer(1) \/ UNCHANGED memory) /\ GoTo("lookup")
     \/ Panic("user") /\ UNCHANGED memory
  /\ UNCHANGED <<input, errors, globals, long>>

Resolve6 ==
  /\ stage = "lookup"
  /\ \/ /\ Answer(2) \/ UNCHANGED memory
        /\ \/ Owned({"names"})' # {} /\ GoTo("parse") /\ UNCHANGED errors
           \/ Owned({"names"})' = {} /\ PutError("cannot generate") /\ Longjmp
     \/ Panic("user") /\ UNCHANGED <<memory, errors>>
  /\ UNCHANGED <<input, globals, progress>>

(* The address of a station, six bytes, is copied and freed at once.       *)
EtherHostton ==
  /\ Parsing
  /\ \/ TakeAndFree(1) /\ GoTo("parse") /\ UNCHANGED errors
     \/ Refused(1) /\ PutError("cannot generate") /\ Longjmp
     \/ Panic("user") /\ UNCHANGED <<memory, errors>>
  /\ UNCHANGED <<input, globals, long>>

ReleaseNames ==
  /\ stage = "parse"
  /\ Owned({"names"}) # {}
  /\ Release({"names"}) /\ GoTo("parse")
  /\ UNCHANGED <<input, errors, globals, progress>>

(* The lexer, or an action of the grammar, reports an error: the parser    *)
(* has still to see it.                                                    *)
Report ==
  /\ Parsing
  /\ SetError("syntax") /\ GoTo("parse")
  /\ UNCHANGED <<input, memory, globals, long>>

BpfError ==
  /\ stage = "parse"
  /\ PutError("cannot generate") /\ Longjmp
  /\ UNCHANGED <<input, memory, globals, progress>>

SyntaxError ==
  /\ stage = "parse"
  /\ SetError("syntax") /\ GoTo("abort")
  /\ UNCHANGED <<input, memory, globals, progress>>

ParseFails ==
  /\ stage = "abort"
  /\ Release({"parser", "names"}) /\ GiveUp
  /\ UNCHANGED <<input, errors, globals, progress>>

(* Mutant: a token whose text could not be copied is used all the same.    *)
ParseSucceedsUnchecked ==
  /\ stage = "parse"
  /\ Owned({"names"}) = {}
  /\ Release({"parser"})
  /\ GoTo(IF optimize THEN "optimize" ELSE "fcode")
  /\ UNCHANGED <<input, errors, globals, progress>>

ParseSucceeds ==
  /\ stage = "parse"
  /\ ~errset
  /\ Owned({"names"}) = {}
  /\ Release({"parser"})
  /\ GoTo(IF optimize THEN "optimize" ELSE "fcode")
  /\ UNCHANGED <<input, errors, globals, progress>>

(***************************************************************************)
(* The optimizer takes its tables and gives them back, or raises an error; *)
(* a filter that it reduces to "ret #0" is refused.                        *)
(***************************************************************************)
Optimize ==
  /\ stage = "optimize"
  /\ \E n \in Sizes :
       \/ Take("optimizer", n) /\ GoTo("optimized") /\ UNCHANGED errors
       \/ Refused(n) /\ PutError("out of memory") /\ Longjmp
  /\ UNCHANGED <<input, globals, progress>>

Optimized ==
  /\ stage = "optimized"
  /\ \/ Release({"optimizer"}) /\ GoTo("fcode") /\ UNCHANGED errors
     \/ Release({"optimizer"}) /\ PutError("rejects all packets") /\ GiveUp
     \/ PutError("cannot generate") /\ Longjmp /\ UNCHANGED memory
  /\ UNCHANGED <<input, globals, progress>>

(***************************************************************************)
(* icode_to_fcode: the instructions are counted and a block is asked for.  *)
(* convert_code_r takes and frees a table of offsets; when it meets a jump *)
(* that is newly found to be long the block is freed and everything starts *)
(* again with one instruction more.  (How many granules the instructions   *)
(* fill is left open.)                                                     *)
(***************************************************************************)
CountInsns ==
  /\ stage = "fcode"
  /\ \E n \in Sizes :
       \/ Take("insns", n + long) /\ GoTo("convert") /\ UNCHANGED errors
       \/ Refused(n + long) /\ PutError("out of memory") /\ GiveUp
  /\ UNCHANGED <<input, globals, progress>>

Offsets ==
  /\ stage = "convert"
  /\ \E n \in Sizes :
       \/ TakeAndFree(n) /\ GoTo("converted") /\ UNCHANGED errors
       \/ Refused(n) /\ PutError("out of memory") /\ Longjmp
  /\ UNCHANGED <<input, globals, progress>>

(* Mutant: a table that was never taken is freed.                          *)
NoOffsetsFreed ==
  /\ stage = "convert"
  /\ heap' = Free(heap, heap.last)
  /\ GoTo("converted")
  /\ UNCHANGED <<input, live, errors, globals, progress>>

(* A block of the flow graph without statements needs no table.            *)
NoOffsets ==
  /\ stage = "convert"
  /\ GoTo("converted")
  /\ UNCHANGED <<input, memory, errors, globals, progress>>

(* Mutant: the jump is not marked as long before the new attempt.          *)
LongJumpForgotten ==
  /\ stage = "converted"
  /\ long < MaxLong
  /\ Release({"insns"}) /\ GoTo("fcode")
  /\ UNCHANGED <<input, errors, globals, progress>>

LongJump ==
  /\ stage = "converted"
  /\ long < MaxLong /\ long' = long + 1
  /\ Release({"insns"}) /\ GoTo("fcode")
  /\ UNCHANGED <<input, errors, globals, steps>>

Validate ==
  /\ stage = "converted"
  /\ \/ stage' = "cleanup" /\ rc' = 0 /\ UNCHANGED <<raised, outcome, errors>>
     \/ PutError("not valid") /\ GiveUp
     \/ PutError("cannot generate") /\ Longjmp
  /\ UNCHANGED <<input, memory, globals, progress>>

(***************************************************************************)
(* The end of pcap_compile, the end of bpf_compile, and what Compile does  *)
(* with its result.                                                        *)
(***************************************************************************)
(* Mutant: the arena is not freed.                                         *)
CleanupLexer ==
  /\ stage = "cleanup"
  /\ Release({"lexer"}) /\ GoTo("close")
  /\ UNCHANGED <<input, errors, globals, progress>>

Cleanup ==
  /\ stage = "cleanup"
  /\ Release({"lexer", "arena"}) /\ GoTo("close")
  /\ UNCHANGED <<input, errors, globals, progress>>

(* Mutant: failed still points to the closed pcap_t.                       *)
ClosePcapDangling ==
  /\ stage = "close"
  /\ Release({"pcap"})
  /\ gbuf' = IF rc = 0 THEN gbuf ELSE pbuf
  /\ GoTo(IF rc = 0 THEN "packet" ELSE "failure")
  /\ UNCHANGED <<input, failed, errors, progress>>

ClosePcap ==
  /\ stage = "close"
  /\ Release({"pcap"})
  /\ failed' = FALSE
  /\ gbuf' = IF rc = 0 THEN gbuf ELSE pbuf
  /\ GoTo(IF rc = 0 THEN "packet" ELSE "failure")
  /\ UNCHANGED <<input, errors, progress>>

(* Mutant: only the global buffer is read.                                 *)
GlobalErrbuf == gbuf

Errbuf == IF failed /\ pbuf # "" THEN pbuf ELSE gbuf

ReturnError ==
  /\ stage = "failure"
  /\ Finish("deferred", "error", Errbuf)
  /\ UNCHANGED <<input, memory, errors, globals, progress>>

PacketBuffer ==
  /\ stage = "packet"
  /\ \/ Take("packet", snaplen) /\ Finish("deferred", "program", "")
        /\ UNCHANGED told
     \/ /\ Refused(snaplen)
        /\ told' = told \cup {"out of wasm memory"}
        /\ Finish("deferred", "error", "out of wasm memory")
  /\ UNCHANGED <<input, pbuf, errset, globals, progress>>

(* The deferred calls, last one first: free the string, then recover.      *)
FreeString ==
  /\ stage \in {"deferred", "unwind"}
  /\ Release({"string"})
  /\ GoTo(IF stage = "unwind" THEN "recover" ELSE "done")
  /\ UNCHANGED <<input, errors, globals, progress>>

(* Mutant: every panic is taken for one of the module.                     *)
RecoverAll ==
  /\ stage = "recover"
  /\ Finish("done", "error", IF Errbuf = "" THEN raised ELSE Errbuf)
  /\ UNCHANGED <<input, memory, errors, globals, progress>>

Recover ==
  /\ stage = "recover"
  /\ \/ raised = "user" /\ Finish("done", "panic", "")
     \/ /\ raised # "user"
        /\ Finish("done", "error", IF Errbuf = "" THEN raised ELSE Errbuf)
  /\ UNCHANGED <<input, memory, errors, globals, progress>>

Open == MakeString \/ OpenDummy \/ FirstChunk \/ Snapshot \/ LexInit
          \/ ScanString \/ InitLinkType
Parse == NewChunk \/ GrowLexer \/ GrowParser
           \/ Resolve \/ Resolve6 \/ EtherHostton \/ ReleaseNames
           \/ Report \/ BpfError \/ SyntaxError \/ ParseFails \/ ParseSucceeds
Generate == Optimize \/ Optimized \/ CountInsns \/ Offsets \/ NoOffsets
              \/ LongJump \/ Validate
Return == Cleanup \/ ClosePcap \/ ReturnError \/ PacketBuffer \/ FreeString
            \/ Recover

Next == Open \/ Parse \/ Generate \/ Return

Spec == Init /\ [][Next]_vars

(* The call runs in one goroutine, which the Go scheduler never starves.   *)
FairSpec == Spec /\ WF_vars(Next)

-----------------------------------------------------------------------------
(* Everything the call keeps has the shape the code gives it.              *)
TypeOK ==
  /\ stage \in {"start", "open", "arena", "snapshot", "lexer", "scan", "link",
                "parse", "lookup", "abort", "optimize", "optimized", "fcode",
                "convert", "converted", "cleanup", "close", "failure", "packet",
                "deferred", "unwind", "recover", "done"}
  /\ snaplen \in Snaplens /\ optimize \in BOOLEAN
  /\ heap \in Heap /\ live \subseteq Block
  /\ failed \in BOOLEAN /\ errset \in BOOLEAN
  /\ pbuf \in Message \cup {""} /\ gbuf \in Message \cup {""}
  /\ told \subseteq Message
  /\ steps \in 0 .. MaxSteps /\ long \in 0 .. MaxLong
  /\ rc \in {0, -1} /\ raised \in Raised
  /\ outcome \in [kind : {"none", "program", "error", "panic"}, text : Text]

(* "pcap sets errbuf before calling longjmp": an error Compile returns is  *)
(* a diagnostic that was produced on the way, never an empty message and   *)
(* never the text of the stubbed longjmp; only flex's exit, when nothing   *)
(* was reported before it, speaks for itself.                              *)
ErrorsAreTold ==
  outcome.kind = "error" =>
    \/ outcome.text \in told
    \/ outcome.text = "unexpected exit" /\ told = {} /\ raised = outcome.text

(* No error is lost: a program is returned only if nothing was reported,   *)
(* and the only panic that leaves Compile is one of the caller's callback. *)
NoErrorIsLost ==
  /\ outcome.kind = "program" => told = {} /\ raised = ""
  /\ outcome.kind = "panic" <=> raised = "user" /\ stage = "done"

(* bpf_errbuf dereferences failed: while it is set, the pcap_t it points   *)
(* to has not been freed.                                                  *)
FailedIsOpen == failed => Owned({"pcap"}) # {}

(* The blocks in use never overlap and none lies above the break, whatever *)
(* was freed in between and whichever path the call took.                  *)
BlocksApart ==
  /\ \A b \in live : HeapBase <= b.at /\ b.at + b.len <= Top(heap)
  /\ \A b, c \in live :
       b # c => b.at + b.len <= c.at \/ c.at + c.len <= b.at

Holders == {b.owner : b \in live}

(* A program that is handed over owns its instructions and a packet buffer *)
(* of snaplen bytes, and nothing else of the call is left in its heap.     *)
OnlyTheResultRemains ==
  stage = "done" /\ outcome.kind = "program" =>
    /\ Holders = {"insns", "packet"}
    /\ \A b \in live : b.owner = "packet" => b.len = snaplen
    /\ \A b, c \in live : b.owner = c.owner => b = c

(* Every call returns or panics.                                           *)
EveryCompileEnds == <>(stage = "done")

-----------------------------------------------------------------------------
(* The inductive invariant, in parts.  Memory: the heap is well formed and  *)
(* the last block it handed out, if it can still be taken back, is in use  *)
(* and ends at the break.                                                  *)
LastIsHeld ==
  heap.last # 0 =>
    \E b \in live : b.at = heap.last /\ b.at + b.len = Top(heap)

MemorySound == WellFormed(heap) /\ live \subseteq Block /\ BlocksApart /\ LastIsHeld

(* Inside pcap_compile, and while a panic unwinds from it, failed is set   *)
(* and the message is in the pcap_t; outside it is in bpf.c's own buffer.  *)
Early == {"arena", "snapshot", "lexer", "scan", "link", "parse", "lookup",
          "abort", "optimize", "optimized", "fcode", "convert", "converted"}
Ending == {"cleanup", "close"}
Unwinding == {"unwind", "recover"}
Inside == Early \cup Ending \cup Unwinding
Silent == {"start", "open", "packet"} \cup (Early \ {"parse", "lookup", "abort"})

MessagesKept ==
  /\ pbuf # "" => pbuf \in told
  /\ gbuf # "" => gbuf \in told
  /\ errset => pbuf # ""
  /\ stage \in Inside => failed /\ gbuf = ""
  /\ failed => stage \in Inside \/ (stage = "done" /\ raised # "")

(* Who knows that something was reported: before and after parsing nothing *)
(* was; while parsing, error_set knows; at the end, the code returned.     *)
ReportsKnown ==
  /\ stage \in Silent => told = {}
  /\ stage \in {"parse", "lookup"} /\ told # {} => errset
  /\ stage = "abort" => pbuf # ""
  /\ stage \in Ending => IF rc = 0 THEN told = {} ELSE pbuf # ""
  /\ stage = "failure" => gbuf # ""

PanicsKnown ==
  /\ raised # "" => stage \in Unwinding \cup {"done"}
  /\ stage \in Unwinding => raised # ""
  /\ stage \in Unwinding /\ pbuf = "" => told = {} /\ raised # "unimplemented longjmp"
  /\ outcome.kind # "none" => stage \in {"deferred", "done"}
  /\ stage = "deferred" => outcome.kind \in {"program", "error"}

(* Which blocks a call that still succeeds may hold, and must.             *)
Succeeding ==
  \/ stage \in Silent \cup {"parse", "lookup"}
  \/ stage \in Ending /\ rc = 0
  \/ stage \in {"deferred", "done"} /\ outcome.kind = "program"

MayHold(s) ==
  CASE s = "start" -> {}
    [] s = "open" -> {"string"}
    [] s = "arena" -> {"string", "pcap"}
    [] s \in {"snapshot", "lexer"} -> {"string", "pcap", "arena"}
    [] s \in {"scan", "link", "optimize", "fcode"} ->
         {"string", "pcap", "arena", "lexer"}
    [] s \in {"parse", "lookup"} ->
         {"string", "pcap", "arena", "lexer", "parser", "names"}
    [] s = "optimized" -> {"string", "pcap", "arena", "lexer", "optimizer"}
    [] s \in {"convert", "converted", "cleanup"} ->
         {"string", "pcap", "arena", "lexer", "insns"}
    [] s = "close" -> {"string", "pcap", "insns"}
    [] s = "packet" -> {"string", "insns"}
    [] s = "deferred" -> {"string", "insns", "packet"}
    [] OTHER -> {"insns", "packet"}

MustHold(s) ==
  IF s \in {"convert", "converted", "packet"} \cup Ending THEN {"insns"}
  ELSE IF s \in {"deferred", "done"} THEN {"insns", "packet"} ELSE {}

Holdings ==
  /\ Succeeding => MustHold(stage) \subseteq Holders /\ Holders \subseteq MayHold(stage)
  /\ failed => "pcap" \in Holders

ResultUnique ==
  /\ \A b, c \in live :
       b.owner = c.owner /\ b.owner \in {"insns", "packet"} => b = c
  /\ \A b \in live : b.owner = "packet" => b.len = snaplen

(* At every stage of a call, failing or not: the heap is well formed and   *)
(* its blocks apart, each message is where bpf_errbuf will look for it,    *)
(* who must know of a report does, and the blocks in use are those that    *)
(* the stage accounts for.                                                 *)
CompileInv ==
  /\ TypeOK /\ MemorySound
  /\ MessagesKept /\ ReportsKnown /\ PanicsKnown
  /\ ErrorsAreTold /\ NoErrorIsLost
  /\ Holdings /\ ResultUnique
=============================================================================
