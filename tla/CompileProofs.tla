--------------------------- MODULE CompileProofs ---------------------------
(***************************************************************************)
(* Proofs about one call of Compile, for every size of the memory and of   *)
(* the blocks a call takes, and any number of parsing steps and retries.   *)
(***************************************************************************)
EXTENDS Compile, BumpLemmas

-----------------------------------------------------------------------------
(* Memory.  Everything the call does to its heap is one of six moves.      *)

LEMMA Heights ==
  ASSUME MemorySound
  PROVE  /\ heap.brk \in Address /\ heap.last \in Address
         /\ Top(heap) \in Nat /\ Top(heap) <= Word
         /\ Word \in Nat \ {0} /\ HeapBase \in Nat \ {0} /\ HeapBase <= Top(heap)
         /\ \A b \in live : /\ b \in Block /\ b.at \in Nat \ {0} /\ b.len \in Nat \ {0}
                            /\ HeapBase <= b.at /\ b.at + b.len <= Top(heap)
<1>1. WellFormed(heap) /\ live \subseteq Block
  BY DEF MemorySound
<1>2. /\ Top(heap) \in Nat /\ heap.mem \in Nat /\ heap.mem <= Word
      /\ Top(heap) <= heap.mem /\ HeapBase <= Top(heap)
      /\ heap.brk \in Address /\ heap.last \in Address
  BY <1>1, Room
<1>3. Word \in Nat \ {0} /\ HeapBase \in Nat \ {0}
  BY WordSize, HeapAssumption
<1>4. \A b \in live : b.at \in Nat \ {0} /\ b.len \in Nat \ {0}
  BY <1>1, <1>3 DEF Block, Address
<1> QED
  BY <1>1, <1>2, <1>3, <1>4 DEF MemorySound, BlocksApart

(* A block at the break, above all that are kept.                          *)
LEMMA Placed ==
  ASSUME MemorySound, NEW b \in Block, NEW kept \in SUBSET live,
         b.at = Top(heap), live' = kept \cup {b},
         WellFormed(heap'), heap'.last = b.at, Top(heap') = b.at + b.len
  PROVE  MemorySound'
<1>1. /\ Top(heap) \in Nat /\ HeapBase \in Nat /\ HeapBase <= Top(heap)
      /\ b.len \in Nat \ {0}
      /\ \A c \in kept : /\ c \in Block /\ c.at \in Nat /\ c.len \in Nat \ {0}
                         /\ HeapBase <= c.at /\ c.at + c.len <= Top(heap)
  BY Heights DEF Block
<1>2. live' \subseteq Block
  BY <1>1
<1>3. \A c \in live' : HeapBase <= c.at /\ c.at + c.len <= Top(heap')
  BY <1>1
<1>4. \A c, d \in live' : c # d => c.at + c.len <= d.at \/ d.at + d.len <= c.at
  <2>1. \A c, d \in kept : c # d => c.at + c.len <= d.at \/ d.at + d.len <= c.at
    BY DEF MemorySound, BlocksApart
  <2> QED
    BY <1>1, <2>1
<1>5. LastIsHeld'
  BY DEF LastIsHeld
<1> QED
  BY <1>2, <1>3, <1>4, <1>5 DEF MemorySound, BlocksApart

LEMMA Taken ==
  ASSUME MemorySound, NEW owner \in Owner, NEW n \in Int, Take(owner, n)
  PROVE  /\ MemorySound'
         /\ n > 0
         /\ \E b \in Block : b.owner = owner /\ b.len = n /\ live' = live \cup {b}
<1> DEFINE r == Calloc(heap, n)
           b == [owner |-> owner, at |-> r.ptr, len |-> n]
<1>1. r.ptr # 0 /\ heap' = r.heap /\ live' = live \cup {b}
  BY DEF Take
<1>2. /\ n > 0 /\ r.ptr = Top(heap) /\ r.ptr = heap.brk
      /\ WellFormed(r.heap) /\ r.heap.last = r.ptr /\ Top(r.heap) = Top(heap) + n
  BY <1>1, CallocSound DEF MemorySound
<1> HIDE DEF r
<1>3. b \in Block /\ b.owner = owner /\ b.at = r.ptr /\ b.len = n
  BY <1>1, <1>2, Heights DEF Block
<1> HIDE DEF b
<1>4. MemorySound'
  BY <1>1, <1>2, <1>3, Placed
<1> QED
  BY <1>1, <1>2, <1>3, <1>4

LEMMA SameMemory ==
  ASSUME MemorySound, heap' = heap, live' = live
  PROVE  MemorySound'
  BY DEF MemorySound, BlocksApart, LastIsHeld

LEMMA NotTaken ==
  ASSUME MemorySound, NEW n \in Int, Refused(n)
  PROVE  MemorySound' /\ live' = live
<1>1. heap' = heap /\ live' = live
  BY CallocSound DEF Refused, MemorySound
<1> QED
  BY <1>1, SameMemory

(* The last block that was handed out is above all others.                 *)
LEMMA LastAbove ==
  ASSUME MemorySound, heap.last # 0
  PROVE  /\ HeapBase <= heap.last /\ heap.last <= Top(heap)
         /\ \A c \in live : c.at # heap.last => c.at + c.len <= heap.last
<1>1. PICK d \in live : d.at = heap.last /\ d.at + d.len = Top(heap)
  BY DEF MemorySound, LastIsHeld
<1>2. \A c \in live : c # d => c.at + c.len <= d.at \/ d.at + d.len <= c.at
  BY DEF MemorySound, BlocksApart
<1> QED
  BY <1>1, <1>2, Heights

LEMMA Released ==
  ASSUME MemorySound, NEW owners, Release(owners)
  PROVE  MemorySound' /\ live' = live \ Owned(owners)
<1>1. /\ heap' = IF \E b \in Owned(owners) : b.at = heap.last
                 THEN Free(heap, heap.last) ELSE heap
      /\ live' = live \ Owned(owners)
      /\ live' \subseteq live /\ Owned(owners) \subseteq live
  BY DEF Release, Owned
<1>2. live' \subseteq Block /\ \A c, d \in live' : c # d => c.at + c.len <= d.at \/ d.at + d.len <= c.at
  BY <1>1 DEF MemorySound, BlocksApart
<1>3. CASE \E b \in Owned(owners) : b.at = heap.last
  <2>1. PICK b \in Owned(owners) : b.at = heap.last
    BY <1>3
  <2>2. b \in live /\ heap.last # 0
    BY <1>1, <2>1, Heights
  <2>3. WellFormed(heap') /\ Top(heap') = heap.last /\ heap'.last = 0
    <3>1. HeapBase <= heap.last /\ heap.last <= Top(heap) /\ WellFormed(heap)
      BY <2>2, LastAbove DEF MemorySound
    <3> QED
      BY <1>1, <1>3, <2>2, <3>1, FreeSound
  <2>4. \A c \in live' : HeapBase <= c.at /\ c.at + c.len <= Top(heap')
    <3>1. SUFFICES ASSUME NEW c \in live'
                   PROVE  HeapBase <= c.at /\ c.at + c.len <= heap.last
      BY <2>3
    <3>2. c \in live /\ c # b
      BY <1>1, <2>1
    <3>3. c.at # heap.last
      <4>1. c.at + c.len <= b.at \/ b.at + b.len <= c.at
        BY <2>2, <3>2 DEF MemorySound, BlocksApart
      <4> QED
        BY <2>1, <2>2, <3>2, <4>1, Heights
    <3> QED
      BY <2>2, <3>2, <3>3, LastAbove, Heights
  <2> QED
    BY <1>1, <1>2, <2>3, <2>4 DEF MemorySound, BlocksApart, LastIsHeld
<1>4. CASE ~ \E b \in Owned(owners) : b.at = heap.last
  <2>1. heap' = heap
    BY <1>1, <1>4
  <2>2. LastIsHeld'
    BY <1>1, <1>4, <2>1 DEF MemorySound, LastIsHeld
  <2> QED
    BY <1>1, <1>2, <2>1, <2>2 DEF MemorySound, BlocksApart
<1> QED
  BY <1>1, <1>3, <1>4

(* A block that is taken and freed leaves a gap at most.                   *)
LEMMA TakenAndFreed ==
  ASSUME MemorySound, NEW n \in Int, TakeAndFree(n)
  PROVE  MemorySound' /\ live' = live
<1> DEFINE r == Calloc(heap, n)
<1>1. r.ptr # 0 /\ heap' = Free(r.heap, r.ptr) /\ live' = live
  BY DEF TakeAndFree
<1>2. /\ n > 0 /\ r.ptr = Top(heap)
      /\ WellFormed(r.heap) /\ r.heap.last = r.ptr /\ Top(r.heap) = Top(heap) + n
  BY <1>1, CallocSound DEF MemorySound
<1>3. heap' = Free(r.heap, r.heap.last) /\ r.heap.last # 0
  BY <1>1, <1>2
<1> HIDE DEF r
<1>4. WellFormed(heap') /\ Top(heap') = Top(heap) /\ heap'.last = 0
  BY <1>2, <1>3, FreeSound, Heights
<1> QED
  BY <1>1, <1>4 DEF MemorySound, BlocksApart, LastIsHeld

(* Two blocks at the break, the second one upon the first.                 *)
LEMMA PlacedTwo ==
  ASSUME MemorySound, NEW b \in Block, NEW c \in Block,
         b.at = Top(heap), c.at = b.at + b.len, live' = live \cup {b, c},
         WellFormed(heap'), heap'.last = c.at, Top(heap') = c.at + c.len
  PROVE  MemorySound'
<1>1. /\ Top(heap) \in Nat /\ HeapBase \in Nat /\ HeapBase <= Top(heap)
      /\ b.len \in Nat \ {0} /\ c.len \in Nat \ {0}
      /\ \A d \in live : /\ d \in Block /\ d.at \in Nat /\ d.len \in Nat \ {0}
                         /\ HeapBase <= d.at /\ d.at + d.len <= Top(heap)
  BY Heights DEF Block
<1>2. live' \subseteq Block
  BY <1>1
<1>3. \A d \in live' : HeapBase <= d.at /\ d.at + d.len <= Top(heap')
  BY <1>1
<1>4. \A d, e \in live' : d # e => d.at + d.len <= e.at \/ e.at + e.len <= d.at
  <2>1. \A d, e \in live : d # e => d.at + d.len <= e.at \/ e.at + e.len <= d.at
    BY DEF MemorySound, BlocksApart
  <2> QED
    BY <1>1, <2>1
<1>5. LastIsHeld'
  BY DEF LastIsHeld
<1> QED
  BY <1>2, <1>3, <1>4, <1>5 DEF MemorySound, BlocksApart

(* An answer is kept whole or leaves nothing behind.                       *)
LEMMA Answered ==
  ASSUME MemorySound, NEW n \in Nat \ {0}, Answer(n)
  PROVE  MemorySound'
<1> DEFINE ai == Calloc(heap, 2)
           sin == Calloc(ai.heap, n)
           b == NameAt(ai.ptr, 2)
           c == NameAt(sin.ptr, n)
<1>1. \/ ai.ptr # 0 /\ sin.ptr # 0 /\ heap' = sin.heap /\ live' = live \cup {b, c}
      \/ /\ ai.ptr = 0 \/ sin.ptr = 0
         /\ heap' = Free(Free(sin.heap, ai.ptr), sin.ptr) /\ live' = live
  BY DEF Answer
<1>2. /\ ai.ptr = 0 => ai.heap = heap
      /\ ai.ptr # 0 => /\ ai.ptr = Top(heap) /\ ai.ptr = heap.brk
                       /\ WellFormed(ai.heap) /\ Top(ai.heap) = Top(heap) + 2
  BY CallocSound DEF MemorySound
<1>3. WellFormed(ai.heap)
  BY <1>2 DEF MemorySound
<1>4. /\ sin.ptr = 0 => sin.heap = ai.heap
      /\ sin.ptr # 0 => /\ sin.ptr = Top(ai.heap) /\ sin.ptr = ai.heap.brk
                        /\ WellFormed(sin.heap) /\ sin.heap.last = sin.ptr
                        /\ Top(sin.heap) = Top(ai.heap) + n
  BY <1>3, CallocSound
<1>5. \A h : Free(h, 0) = h
  BY DEF Free
<1>6. CASE ai.ptr # 0 /\ sin.ptr # 0
  <2>1. /\ b \in Block /\ b.at = ai.ptr /\ b.len = 2
        /\ c \in Block /\ c.at = sin.ptr /\ c.len = n
    <3>1. ai.ptr \in Address \ {0} /\ sin.ptr \in Address \ {0}
      BY <1>2, <1>3, <1>4, <1>6, Heights, Room
    <3> QED
      BY <3>1 DEF Block, NameAt, Owner
  <2>2. heap' = sin.heap /\ live' = live \cup {b, c}
    BY <1>1, <1>6
  <2> HIDE DEF ai, sin, b, c
  <2> QED
    BY <1>2, <1>4, <1>6, <2>1, <2>2, PlacedTwo
<1>7. CASE ai.ptr # 0 /\ sin.ptr = 0
  <2>1. TakeAndFree(2)
    BY <1>1, <1>4, <1>5, <1>7 DEF TakeAndFree
  <2> QED
    BY <2>1, TakenAndFreed
<1>8. CASE ai.ptr = 0 /\ sin.ptr # 0
  <2>1. TakeAndFree(n)
    BY <1>1, <1>2, <1>5, <1>8 DEF TakeAndFree
  <2> QED
    BY <2>1, TakenAndFreed
<1>9. CASE ai.ptr = 0 /\ sin.ptr = 0
  <2>1. heap' = heap /\ live' = live
    BY <1>1, <1>2, <1>4, <1>5, <1>9
  <2> QED
    BY <2>1, SameMemory
<1> QED
  BY <1>6, <1>7, <1>8, <1>9

-----------------------------------------------------------------------------
(* The heap, an action at a time.                                          *)

LEMMA Lengths ==
  /\ PcapLen \in Int /\ ArenaLen \in Int /\ LexerLen \in Int
  /\ StringLens \subseteq Int /\ Sizes \subseteq Int
  /\ \A n \in Sizes, k \in Nat : n + k \in Int
  /\ Snaplens \subseteq Int
  BY CompileAssumption

LEMMA MemoryStep ==
  ASSUME CompileInv, [Next]_vars
  PROVE  MemorySound'
<1> USE DEF memory, errors, Owner
<1>0. MemorySound /\ snaplen \in Int /\ long \in Nat
  <2>1. MemorySound /\ snaplen \in Snaplens /\ long \in 0 .. MaxLong
    BY DEF CompileInv, TypeOK
  <2> QED
    BY <2>1, CompileAssumption
<1>1. CASE MakeString
  BY <1>0, <1>1, Taken, NotTaken, Lengths, SameMemory DEF MakeString
<1>2. CASE OpenDummy
  BY <1>0, <1>2, Taken, NotTaken, Lengths, SameMemory DEF OpenDummy
<1>3. CASE FirstChunk
  BY <1>0, <1>3, Taken, NotTaken, Lengths, SameMemory DEF FirstChunk
<1>4. CASE Snapshot
  BY <1>0, <1>4, SameMemory DEF Snapshot
<1>5. CASE LexInit
  BY <1>0, <1>5, Taken, NotTaken, Lengths, SameMemory DEF LexInit
<1>6. CASE ScanString
  <2>1. \A b \in Owned({"string"}) : b.len \in Int
    BY <1>0, Heights DEF Owned
  <2> QED
    BY <1>0, <1>6, <2>1, Taken, NotTaken DEF ScanString
<1>7. CASE InitLinkType
  BY <1>0, <1>7, SameMemory DEF InitLinkType
<1>8. CASE NewChunk
  BY <1>0, <1>8, Taken, NotTaken, Lengths, SameMemory DEF NewChunk
<1>9. CASE GrowLexer
  BY <1>0, <1>9, Taken, NotTaken, Lengths, SameMemory DEF GrowLexer
<1>10. CASE GrowParser
  <2>1. PICK n \in Sizes : \/ /\ Malloc(heap, n).ptr # 0
                             /\ heap' = Malloc(heap, n).heap
                             /\ live' = (live \ Owned({"parser"})) \cup
                                  {[owner |-> "parser", at |-> Malloc(heap, n).ptr, len |-> n]}
                          \/ Refused(n)
    BY <1>10 DEF GrowParser
  <2>2. CASE Refused(n)
    BY <1>0, <2>1, <2>2, NotTaken, Lengths
  <2>3. CASE ~Refused(n)
    <3> DEFINE r == Malloc(heap, n)
               b == [owner |-> "parser", at |-> r.ptr, len |-> n]
    <3>1. /\ n > 0 /\ r.ptr = Top(heap) /\ r.ptr = heap.brk /\ r.ptr # 0
          /\ heap' = r.heap
          /\ WellFormed(r.heap) /\ r.heap.last = r.ptr /\ Top(r.heap) = Top(heap) + n
      BY <1>0, <2>1, <2>3, Lengths, MallocSound DEF MemorySound
    <3>2. live' = (live \ Owned({"parser"})) \cup {b} /\ n \in Int
      BY <2>1, <2>3, Lengths
    <3> HIDE DEF r
    <3>3. b \in Block /\ b.at = r.ptr /\ b.len = n
      BY <1>0, <3>1, <3>2, Heights DEF Block
    <3> QED
      BY <1>0, <3>1, <3>2, <3>3, Placed
  <2> QED
    BY <2>2, <2>3
<1>11. CASE Resolve \/ Resolve6
  <2>1. Answer(1) \/ Answer(2) \/ UNCHANGED memory
    BY <1>11 DEF Resolve, Resolve6
  <2>2. 1 \in Nat \ {0} /\ 2 \in Nat \ {0}
    OBVIOUS
  <2> QED
    BY <1>0, <2>1, <2>2, Answered, SameMemory
<1>32. CASE EtherHostton
  <2>1. TakeAndFree(1) \/ Refused(1) \/ UNCHANGED memory
    BY <1>32 DEF EtherHostton
  <2>2. 1 \in Int
    OBVIOUS
  <2> QED
    BY <1>0, <2>1, <2>2, TakenAndFreed, NotTaken, SameMemory
<1>12. CASE ReleaseNames
  BY <1>0, <1>12, Released, SameMemory DEF ReleaseNames
<1>13. CASE Report
  BY <1>0, <1>13, SameMemory DEF Report
<1>14. CASE BpfError
  BY <1>0, <1>14, SameMemory DEF BpfError
<1>15. CASE SyntaxError
  BY <1>0, <1>15, SameMemory DEF SyntaxError
<1>16. CASE ParseFails
  BY <1>0, <1>16, Released, SameMemory DEF ParseFails
<1>17. CASE ParseSucceeds
  BY <1>0, <1>17, Released, SameMemory DEF ParseSucceeds
<1>18. CASE Optimize
  BY <1>0, <1>18, Taken, NotTaken, Lengths, SameMemory DEF Optimize
<1>19. CASE Optimized
  BY <1>0, <1>19, Released, SameMemory DEF Optimized
<1>20. CASE CountInsns
  BY <1>0, <1>20, Taken, NotTaken, Lengths, SameMemory DEF CountInsns
<1>21. CASE Offsets
  BY <1>0, <1>21, TakenAndFreed, NotTaken, Lengths DEF Offsets
<1>22. CASE NoOffsets
  BY <1>0, <1>22, SameMemory DEF NoOffsets
<1>23. CASE LongJump
  BY <1>0, <1>23, Released, SameMemory DEF LongJump
<1>24. CASE Validate
  BY <1>0, <1>24, SameMemory DEF Validate
<1>25. CASE Cleanup
  BY <1>0, <1>25, Released, SameMemory DEF Cleanup
<1>26. CASE ClosePcap
  BY <1>0, <1>26, Released, SameMemory DEF ClosePcap
<1>27. CASE ReturnError
  BY <1>0, <1>27, SameMemory DEF ReturnError
<1>28. CASE PacketBuffer
  BY <1>0, <1>28, Taken, NotTaken, Lengths, SameMemory DEF PacketBuffer
<1>29. CASE FreeString
  BY <1>0, <1>29, Released, SameMemory DEF FreeString
<1>30. CASE Recover
  BY <1>0, <1>30, SameMemory DEF Recover
<1>31. CASE UNCHANGED vars
  BY <1>0, <1>31, SameMemory DEF vars
<1> QED
  BY <1>1, <1>2, <1>3, <1>4, <1>5, <1>6, <1>7, <1>8, <1>9, <1>10, <1>11,
     <1>12, <1>13, <1>14, <1>15, <1>16, <1>17, <1>18, <1>19, <1>20, <1>21,
     <1>22, <1>23, <1>24, <1>25, <1>26, <1>27, <1>28, <1>29, <1>30, <1>31,
     <1>32 DEF Next, Open, Parse, Generate, Return

-----------------------------------------------------------------------------
(* What the steps are made of, seen from outside.                          *)

Kinds == {"none", "program", "error", "panic"}

LEMMA Finished ==
  ASSUME NEW to, NEW kind, NEW text, Finish(to, kind, text)
  PROVE  /\ stage' = to /\ outcome'.kind = kind /\ outcome'.text = text
         /\ rc' = rc /\ raised' = raised
  BY DEF Finish, Returned

LEMMA FinishTyped ==
  ASSUME NEW to, NEW kind \in Kinds, NEW text \in Text, Finish(to, kind, text)
  PROVE  outcome' \in [kind : Kinds, text : Text]
  BY DEF Finish, Returned

LEMMA Given ==
  ASSUME GiveUp
  PROVE  stage' = "cleanup" /\ rc' # 0 /\ raised' = raised /\ outcome' = outcome
  BY DEF GiveUp

LEMMA SetKept ==
  ASSUME MessagesKept, NEW m, m # "", SetError(m)
  PROVE  pbuf' # "" /\ pbuf' \in told' /\ told \subseteq told'
<1>1. CASE errset
  BY <1>1 DEF MessagesKept, SetError
<1>2. CASE ~errset
  BY <1>2 DEF SetError
<1> QED
  BY <1>1, <1>2

LEMMA PutKept ==
  ASSUME NEW m, m # "", PutError(m)
  PROVE  pbuf' # "" /\ pbuf' \in told' /\ told \subseteq told'
  BY DEF PutError

LEMMA ParsingCounts ==
  ASSUME MaxSteps \in Nat, steps \in 0 .. MaxSteps, Parsing
  PROVE  steps' \in 0 .. MaxSteps
  BY DEF Parsing

LEMMA LongJumpCounts ==
  ASSUME MaxLong \in Nat, long \in 0 .. MaxLong, LongJump
  PROVE  long' \in 0 .. MaxLong
  BY DEF LongJump

-----------------------------------------------------------------------------
(* Types, a variable at a time.                                            *)

(* The messages that the code reports.                                     *)
AllMessages ==
  /\ "out of memory" \in Message /\ "out of wasm memory" \in Message
  /\ "snaplen rejects all" \in Message /\ "unsupported link type" \in Message
  /\ "syntax" \in Message /\ "cannot generate" \in Message
  /\ "rejects all packets" \in Message /\ "not valid" \in Message

LEMMA MessagesAre == AllMessages
BY DEF AllMessages, Message

LEMMA TypesStep ==
  ASSUME CompileInv, [Next]_vars
  PROVE  TypeOK'
<1> USE DEF Next, Open, Parse, Generate, Return,
            MakeString, OpenDummy, FirstChunk, Snapshot, LexInit, ScanString,
            InitLinkType, NewChunk, GrowLexer, GrowParser, Resolve,
            Resolve6, EtherHostton, ReleaseNames, Report, BpfError, SyntaxError, ParseFails,
            ParseSucceeds, Optimize, Optimized, CountInsns, Offsets, NoOffsets,
            Validate, Cleanup, ClosePcap, ReturnError, PacketBuffer,
            FreeString, Recover,
            GoTo, GiveUp, Panic, Longjmp, SetError, PutError,
            vars, input, memory, errors, globals, progress, result
<1>1. TypeOK /\ MaxSteps \in Nat /\ MaxLong \in Nat
  BY CompileAssumption DEF CompileInv
<1>2. stage' \in {"start", "open", "arena", "snapshot", "lexer", "scan", "link",
                  "parse", "lookup", "abort", "optimize", "optimized", "fcode",
                  "convert", "converted", "cleanup", "close", "failure", "packet",
                  "deferred", "unwind", "recover", "done"}
  BY <1>1 DEF TypeOK, LongJump, Finish
<1>3. snaplen' \in Snaplens
  BY <1>1 DEF TypeOK, LongJump
<1>4. optimize' \in BOOLEAN
  BY <1>1 DEF TypeOK, LongJump
<1>5. heap' \in Heap /\ live' \subseteq Block
  BY MemoryStep DEF MemorySound, WellFormed
<1>6. failed' \in BOOLEAN
  BY <1>1 DEF TypeOK, LongJump
<1>7. errset' \in BOOLEAN
  BY <1>1 DEF TypeOK, LongJump
<1>8. pbuf' \in Message \cup {""}
  <2>0. /\ pbuf \in Message \cup {""} /\ gbuf \in Message \cup {""}
        /\ AllMessages
    BY <1>1, MessagesAre DEF TypeOK
  <2> USE DEF AllMessages
  <2>1. CASE Open
    BY <2>1, <2>0 DEF LongJump
  <2>2. CASE Parse
    BY <2>2, <2>0 DEF LongJump
  <2>3. CASE Generate
    BY <2>3, <2>0 DEF LongJump
  <2>4. CASE Return
    BY <2>4, <2>0 DEF LongJump
  <2>5. CASE UNCHANGED vars
    BY <2>5, <2>0 DEF LongJump
  <2> HIDE DEF Open, Parse, Generate, Return
  <2> QED
    BY <2>1, <2>2, <2>3, <2>4, <2>5 DEF Next
<1>9. gbuf' \in Message \cup {""}
  <2>0. /\ pbuf \in Message \cup {""} /\ gbuf \in Message \cup {""}
        /\ AllMessages
    BY <1>1, MessagesAre DEF TypeOK
  <2> USE DEF AllMessages
  <2>1. CASE Open
    BY <2>1, <2>0 DEF LongJump
  <2>2. CASE Parse
    BY <2>2, <2>0 DEF LongJump
  <2>3. CASE Generate
    BY <2>3, <2>0 DEF LongJump
  <2>4. CASE Return
    BY <2>4, <2>0 DEF LongJump
  <2>5. CASE UNCHANGED vars
    BY <2>5, <2>0 DEF LongJump
  <2> HIDE DEF Open, Parse, Generate, Return
  <2> QED
    BY <2>1, <2>2, <2>3, <2>4, <2>5 DEF Next
<1>10. told' \subseteq Message
  BY <1>1 DEF TypeOK, LongJump, Message
<1>11. steps' \in 0 .. MaxSteps
  BY <1>1, ParsingCounts DEF TypeOK, LongJump
<1>12. long' \in 0 .. MaxLong
  BY <1>1, LongJumpCounts DEF TypeOK
<1>13. rc' \in {0, -1}
  BY <1>1 DEF TypeOK, LongJump, Finish
<1>14. raised' \in Raised
  BY <1>1 DEF TypeOK, LongJump, Finish, Raised
<1>15. outcome' \in [kind : Kinds, text : Text]
  BY <1>1, FinishTyped DEF TypeOK, LongJump, Errbuf, Message, Text, Raised, Kinds
<1> HIDE DEF Next
<1> QED
  BY <1>2, <1>3, <1>4, <1>5, <1>6, <1>7, <1>8, <1>9, <1>10, <1>11, <1>12, <1>13,
     <1>14, <1>15 DEF TypeOK, Kinds

-----------------------------------------------------------------------------
(* Reports: a conjunct at a time.                                          *)

ReportsInv ==
  /\ MessagesKept /\ ReportsKnown /\ PanicsKnown
  /\ ErrorsAreTold /\ NoErrorIsLost
  /\ rc \in {0, -1} /\ raised \in Raised

LEMMA ReportsStep ==
  ASSUME ReportsInv, [Next]_vars
  PROVE  MessagesKept' /\ ReportsKnown' /\ PanicsKnown'
<1> USE DEF Open, Parse, Generate, Return,
            MakeString, OpenDummy, FirstChunk, Snapshot, LexInit, ScanString,
            InitLinkType, NewChunk, GrowLexer, GrowParser, Resolve,
            Resolve6, EtherHostton, ReleaseNames, Report, BpfError, SyntaxError, ParseFails,
            ParseSucceeds, Optimize, Optimized, CountInsns, Offsets, NoOffsets,
            LongJump, Validate, Cleanup, ClosePcap, ReturnError, PacketBuffer,
            FreeString, Recover,
            Parsing, GoTo, Panic, Longjmp,
            vars, input, memory, errors, globals, progress, result,
            ReportsInv, MessagesKept, ReportsKnown, PanicsKnown,
            Silent, Early, Ending, Unwinding, Inside
<1>1. pbuf' # "" => pbuf' \in told'
  <2>1. pbuf' = pbuf \/ pbuf' \in told'
    BY SetKept, PutKept DEF Next, GiveUp, Finish
  <2>2. told \subseteq told'
    BY SetKept, PutKept DEF Next, GiveUp, Finish
  <2> QED
    BY <2>1, <2>2
<1>2. gbuf' # "" => gbuf' \in told'
  <2>1. gbuf' = gbuf \/ gbuf' = pbuf \/ gbuf' \in told'
    BY DEF Next, GiveUp, Finish, SetError, PutError
  <2>2. told \subseteq told'
    BY SetKept, PutKept DEF Next, GiveUp, Finish
  <2> QED
    BY <2>1, <2>2
<1>3. errset' => pbuf' # ""
  BY DEF Next, GiveUp, Finish, SetError, PutError
<1>4. stage' \in Inside => failed' /\ gbuf' = ""
  <2>1. CASE Open
    BY <2>1 DEF GiveUp, Finish
  <2>2. CASE Parse
    BY <2>2 DEF GiveUp, Finish
  <2>3. CASE Generate
    BY <2>3 DEF GiveUp, Finish
  <2>4. CASE Return
    BY <2>4 DEF GiveUp, Finish
  <2>5. CASE UNCHANGED vars
    BY <2>5 DEF GiveUp, Finish
  <2> HIDE DEF Open, Parse, Generate, Return
  <2> QED
    BY <2>1, <2>2, <2>3, <2>4, <2>5 DEF Next
<1>5. failed' => stage' \in Inside \/ (stage' = "done" /\ raised' # "")
  <2>1. CASE Open
    BY <2>1 DEF GiveUp, Finish
  <2>2. CASE Parse
    BY <2>2 DEF GiveUp, Finish
  <2>3. CASE Generate
    BY <2>3 DEF GiveUp, Finish
  <2>4. CASE Return
    BY <2>4 DEF GiveUp, Finish
  <2>5. CASE UNCHANGED vars
    BY <2>5 DEF GiveUp, Finish
  <2> HIDE DEF Open, Parse, Generate, Return
  <2> QED
    BY <2>1, <2>2, <2>3, <2>4, <2>5 DEF Next
<1>6. stage' \in Silent => told' = {}
  <2>1. CASE Open
    BY <2>1 DEF GiveUp, Finish
  <2>2. CASE Parse
    BY <2>2 DEF GiveUp, Finish
  <2>3. CASE Generate
    BY <2>3 DEF GiveUp, Finish
  <2>4. CASE Return
    BY <2>4 DEF GiveUp, Finish
  <2>5. CASE UNCHANGED vars
    BY <2>5 DEF GiveUp, Finish
  <2> HIDE DEF Open, Parse, Generate, Return
  <2> QED
    BY <2>1, <2>2, <2>3, <2>4, <2>5 DEF Next
<1>7. stage' \in {"parse", "lookup"} /\ told' # {} => errset'
  BY DEF Next, GiveUp, Finish, SetError, PutError
<1>8. stage' = "abort" => pbuf' # ""
  BY SetKept DEF Next, GiveUp, Finish
<1>9. stage' \in Ending => IF rc' = 0 THEN told' = {} ELSE pbuf' # ""
  <2>1. CASE Open
    BY <2>1, Given, SetKept, PutKept DEF Finish
  <2>2. CASE Parse
    BY <2>2, Given, SetKept, PutKept DEF Finish
  <2>3. CASE Generate
    BY <2>3, Given, SetKept, PutKept DEF Finish
  <2>4. CASE Return
    BY <2>4, Given, SetKept, PutKept DEF Finish
  <2>5. CASE UNCHANGED vars
    BY <2>5, Given, SetKept, PutKept DEF Finish
  <2> HIDE DEF Open, Parse, Generate, Return
  <2> QED
    BY <2>1, <2>2, <2>3, <2>4, <2>5 DEF Next
<1>10. stage' = "failure" => gbuf' # ""
  <2>1. CASE Open
    BY <2>1 DEF GiveUp, Finish
  <2>2. CASE Parse
    BY <2>2 DEF GiveUp, Finish
  <2>3. CASE Generate
    BY <2>3 DEF GiveUp, Finish
  <2>4. CASE Return
    BY <2>4 DEF GiveUp, Finish
  <2>5. CASE UNCHANGED vars
    BY <2>5 DEF GiveUp, Finish
  <2> HIDE DEF Open, Parse, Generate, Return
  <2> QED
    BY <2>1, <2>2, <2>3, <2>4, <2>5 DEF Next
<1>11. raised' # "" => stage' \in Unwinding \cup {"done"}
  <2>1. CASE Open
    BY <2>1 DEF GiveUp, Finish
  <2>2. CASE Parse
    BY <2>2 DEF GiveUp, Finish
  <2>3. CASE Generate
    BY <2>3 DEF GiveUp, Finish
  <2>4. CASE Return
    BY <2>4 DEF GiveUp, Finish
  <2>5. CASE UNCHANGED vars
    BY <2>5 DEF GiveUp, Finish
  <2> HIDE DEF Open, Parse, Generate, Return
  <2> QED
    BY <2>1, <2>2, <2>3, <2>4, <2>5 DEF Next
<1>12. stage' \in Unwinding => raised' # ""
  <2>1. CASE Open
    BY <2>1 DEF GiveUp, Finish
  <2>2. CASE Parse
    BY <2>2 DEF GiveUp, Finish
  <2>3. CASE Generate
    BY <2>3 DEF GiveUp, Finish
  <2>4. CASE Return
    BY <2>4 DEF GiveUp, Finish
  <2>5. CASE UNCHANGED vars
    BY <2>5 DEF GiveUp, Finish
  <2> HIDE DEF Open, Parse, Generate, Return
  <2> QED
    BY <2>1, <2>2, <2>3, <2>4, <2>5 DEF Next
<1>13. stage' \in Unwinding /\ pbuf' = "" => told' = {} /\ raised' # "unimplemented longjmp"
  <2>1. CASE Open
    BY <2>1, SetKept, PutKept DEF GiveUp, Finish
  <2>2. CASE Parse
    BY <2>2, SetKept, PutKept DEF GiveUp, Finish
  <2>3. CASE Generate
    BY <2>3, SetKept, PutKept DEF GiveUp, Finish
  <2>4. CASE Return
    BY <2>4, SetKept, PutKept DEF GiveUp, Finish
  <2>5. CASE UNCHANGED vars
    BY <2>5, SetKept, PutKept DEF GiveUp, Finish
  <2> HIDE DEF Open, Parse, Generate, Return
  <2> QED
    BY <2>1, <2>2, <2>3, <2>4, <2>5 DEF Next
<1>14. outcome'.kind # "none" => stage' \in {"deferred", "done"}
  <2>1. CASE Open
    BY <2>1, Finished DEF GiveUp
  <2>2. CASE Parse
    BY <2>2, Finished DEF GiveUp
  <2>3. CASE Generate
    BY <2>3, Finished DEF GiveUp
  <2>4. CASE Return
    BY <2>4, Finished DEF GiveUp
  <2>5. CASE UNCHANGED vars
    BY <2>5, Finished DEF GiveUp
  <2> HIDE DEF Open, Parse, Generate, Return
  <2> QED
    BY <2>1, <2>2, <2>3, <2>4, <2>5 DEF Next
<1>15. stage' = "deferred" => outcome'.kind \in {"program", "error"}
  <2>1. CASE Open
    BY <2>1, Finished DEF GiveUp
  <2>2. CASE Parse
    BY <2>2, Finished DEF GiveUp
  <2>3. CASE Generate
    BY <2>3, Finished DEF GiveUp
  <2>4. CASE Return
    BY <2>4, Finished DEF GiveUp
  <2>5. CASE UNCHANGED vars
    BY <2>5, Finished DEF GiveUp
  <2> HIDE DEF Open, Parse, Generate, Return
  <2> QED
    BY <2>1, <2>2, <2>3, <2>4, <2>5 DEF Next
<1> QED
  BY <1>1, <1>2, <1>3, <1>4, <1>5, <1>6, <1>7, <1>8, <1>9, <1>10, <1>11, <1>12,
     <1>13, <1>14, <1>15

(* Where an outcome is made.                                               *)
LEMMA MakeStringTells ==
  ASSUME ReportsInv, MakeString
  PROVE  ErrorsAreTold' /\ NoErrorIsLost'
<1>1. stage = "start" /\ raised = "" /\ outcome.kind = "none"
  BY DEF ReportsInv, PanicsKnown, MakeString, Unwinding
<1>2. CASE outcome' = outcome /\ raised' = raised
  BY <1>1, <1>2 DEF ErrorsAreTold, NoErrorIsLost
<1>3. CASE /\ told' = told \cup {"out of wasm memory"}
           /\ Finish("done", "error", "out of wasm memory")
  <2>1. /\ outcome'.kind = "error" /\ outcome'.text = "out of wasm memory"
        /\ raised' = ""
    BY <1>1, <1>3, Finished
  <2>2. outcome'.text \in told'
    BY <1>3, <2>1
  <2> QED
    BY <2>1, <2>2 DEF ErrorsAreTold, NoErrorIsLost
<1> QED
  BY <1>2, <1>3 DEF MakeString, GoTo, result

LEMMA ReturnErrorTells ==
  ASSUME ReportsInv, ReturnError
  PROVE  ErrorsAreTold' /\ NoErrorIsLost'
<1>1. stage = "failure" /\ raised = "" /\ ~failed /\ gbuf \in told /\ told' = told
  BY DEF ReportsInv, MessagesKept, ReportsKnown, PanicsKnown, ReturnError, Unwinding,
         Inside, Early, Ending, errors
<1>2. outcome'.kind = "error" /\ outcome'.text = gbuf /\ raised' = ""
  BY <1>1, Finished DEF ReturnError, Errbuf
<1> QED
  BY <1>1, <1>2 DEF ErrorsAreTold, NoErrorIsLost

LEMMA PacketBufferTells ==
  ASSUME ReportsInv, PacketBuffer
  PROVE  ErrorsAreTold' /\ NoErrorIsLost'
<1>1. stage = "packet" /\ raised = "" /\ told = {}
  BY DEF ReportsInv, ReportsKnown, PanicsKnown, PacketBuffer, Unwinding, Silent
<1>2. CASE Finish("deferred", "program", "") /\ told' = told
  <2>1. outcome'.kind = "program" /\ raised' = "" /\ stage' = "deferred"
    BY <1>1, <1>2, Finished
  <2> QED
    BY <1>1, <1>2, <2>1 DEF ErrorsAreTold, NoErrorIsLost
<1>3. CASE /\ told' = told \cup {"out of wasm memory"}
           /\ Finish("deferred", "error", "out of wasm memory")
  <2>1. /\ outcome'.kind = "error" /\ outcome'.text = "out of wasm memory"
        /\ raised' = ""
    BY <1>1, <1>3, Finished
  <2>2. outcome'.text \in told'
    BY <1>3, <2>1
  <2> QED
    BY <2>1, <2>2 DEF ErrorsAreTold, NoErrorIsLost
<1> QED
  BY <1>2, <1>3 DEF PacketBuffer

LEMMA RecoverTells ==
  ASSUME ReportsInv, Recover
  PROVE  ErrorsAreTold' /\ NoErrorIsLost'
<1>1. /\ stage = "recover" /\ raised # "" /\ failed /\ gbuf = "" /\ told' = told
      /\ pbuf = "" => told = {} /\ raised # "unimplemented longjmp"
      /\ pbuf # "" => pbuf \in told
  BY DEF ReportsInv, MessagesKept, PanicsKnown, Recover, Unwinding, Inside, errors
<1>2. CASE raised = "user" /\ Finish("done", "panic", "")
  <2>1. outcome'.kind = "panic" /\ raised' = "user" /\ stage' = "done"
    BY <1>2, Finished
  <2> QED
    BY <2>1 DEF ErrorsAreTold, NoErrorIsLost
<1>3. CASE raised # "user" /\ Finish("done", "error", IF Errbuf = "" THEN raised ELSE Errbuf)
  <2>1. /\ outcome'.kind = "error" /\ raised' = raised
        /\ outcome'.text = IF pbuf = "" THEN raised ELSE pbuf
    BY <1>1, <1>3, Finished DEF Errbuf
  <2>2. CASE pbuf # ""
    BY <1>1, <1>3, <2>1, <2>2 DEF ErrorsAreTold, NoErrorIsLost
  <2>3. CASE pbuf = ""
    <3>1. raised = "unexpected exit" /\ told' = {}
      BY <1>1, <1>3, <2>3 DEF ReportsInv, Raised
    <3> QED
      BY <1>3, <2>1, <2>3, <3>1 DEF ErrorsAreTold, NoErrorIsLost
  <2> QED
    BY <2>2, <2>3
<1> QED
  BY <1>2, <1>3 DEF Recover

LEMMA OutcomeStep ==
  ASSUME ReportsInv, [Next]_vars
  PROVE  ErrorsAreTold' /\ NoErrorIsLost'
<1>1. CASE MakeString \/ ReturnError \/ PacketBuffer \/ Recover
  BY <1>1, MakeStringTells, ReturnErrorTells, PacketBufferTells, RecoverTells
<1>2. CASE FreeString
  <2>1. /\ outcome' = outcome /\ raised' = raised /\ told' = told
        /\ stage = "unwind" => stage' = "recover"
        /\ stage = "deferred" => stage' = "done"
        /\ stage \in {"unwind", "deferred"}
    BY <1>2 DEF FreeString, GoTo, result, errors
  <2>2. stage = "deferred" => raised = "" /\ outcome.kind \in {"program", "error"}
    BY DEF ReportsInv, PanicsKnown, Unwinding
  <2>3. stage = "unwind" => outcome.kind = "none"
    BY DEF ReportsInv, PanicsKnown
  <2> QED
    BY <2>1, <2>2, <2>3 DEF ReportsInv, ErrorsAreTold, NoErrorIsLost
<1>3. CASE UNCHANGED vars
  BY <1>3 DEF ReportsInv, ErrorsAreTold, NoErrorIsLost, vars, result, errors
<1>4. ASSUME Next, ~(MakeString \/ ReturnError \/ PacketBuffer \/ Recover), ~FreeString
      PROVE  ErrorsAreTold' /\ NoErrorIsLost'
  <2>1. stage' # "done" /\ stage \notin {"deferred", "done"} /\ outcome' = outcome
    BY <1>4 DEF Next, Open, Parse, Generate, Return,
                OpenDummy, FirstChunk, Snapshot, LexInit, ScanString,
                InitLinkType, NewChunk, GrowLexer, GrowParser, Resolve,
                Resolve6, EtherHostton, ReleaseNames, Report, BpfError, SyntaxError, ParseFails,
                ParseSucceeds, Optimize, Optimized, CountInsns, Offsets, NoOffsets,
                LongJump, Validate, Cleanup, ClosePcap,
                Parsing, GoTo, GiveUp, Panic, Longjmp, result
  <2>2. outcome'.kind = "none"
    BY <2>1 DEF ReportsInv, PanicsKnown
  <2> QED
    BY <2>1, <2>2 DEF ErrorsAreTold, NoErrorIsLost
<1> QED
  BY <1>1, <1>2, <1>3, <1>4

-----------------------------------------------------------------------------
(* Holdings.  A step inside pcap_compile moves on with some blocks, or      *)
(* fails without giving up the pcap_t.                                     *)

LEMMA Added ==
  ASSUME NEW o, NEW n, Take(o, n)
  PROVE  Holders' = Holders \cup {o}
<1> DEFINE b == [owner |-> o, at |-> Calloc(heap, n).ptr, len |-> n]
<1>1. live' = live \cup {b}
  BY DEF Take
<1>2. b.owner = o
  OBVIOUS
<1> HIDE DEF b
<1> QED
  BY <1>1, <1>2 DEF Holders

LEMMA Dropped ==
  ASSUME NEW owners, Release(owners)
  PROVE  Holders' = Holders \ owners
  BY DEF Release, Owned, Holders

LEMMA Same ==
  ASSUME live' = live \/ \E n : Refused(n)
  PROVE  Holders' = Holders
  BY DEF Refused, Holders

LEMMA Kept ==
  ASSUME NEW n, Answer(n) \/ UNCHANGED memory
  PROVE  Holders' = Holders \/ Holders' = Holders \cup {"names"}
<1>1. CASE live' = live
  BY <1>1 DEF Holders
<1>2. CASE live' # live
  <2>1. PICK p, q : live' = live \cup {NameAt(p, 2), NameAt(q, n)}
    BY <1>2 DEF Answer, memory
  <2>2. NameAt(p, 2).owner = "names" /\ NameAt(q, n).owner = "names"
    BY DEF NameAt
  <2> HIDE DEF NameAt
  <2> QED
    BY <2>1, <2>2 DEF Holders
<1> QED
  BY <1>1, <1>2

LEMMA NamesGone ==
  ASSUME Owned({"names"}) = {}
  PROVE  "names" \notin Holders
  BY DEF Holders, Owned

Move(to, held) ==
  /\ stage' = to /\ Holders' = held
  /\ failed' = failed /\ outcome' = outcome

Fail ==
  /\ stage' = "unwind" \/ (stage' = "cleanup" /\ rc' # 0)
  /\ "pcap" \in Holders => "pcap" \in Holders'
  /\ failed' = failed /\ outcome' = outcome

LEMMA GrowParserMoves ==
  ASSUME GrowParser
  PROVE  Move("parse", Holders \cup {"parser"}) \/ Move("abort", Holders)
<1>1. PICK n \in Sizes :
        \/ /\ live' = (live \ Owned({"parser"})) \cup
                {[owner |-> "parser", at |-> Malloc(heap, n).ptr, len |-> n]}
           /\ GoTo("parse")
        \/ Refused(n) /\ GoTo("abort")
  BY DEF GrowParser
<1>2. failed' = failed
  BY DEF GrowParser, globals
<1>3. CASE Refused(n) /\ GoTo("abort")
  BY <1>2, <1>3, Same DEF Move, GoTo, result
<1>4. CASE ~(Refused(n) /\ GoTo("abort"))
  <2> DEFINE b == [owner |-> "parser", at |-> Malloc(heap, n).ptr, len |-> n]
  <2>1. live' = (live \ Owned({"parser"})) \cup {b} /\ b.owner = "parser" /\ GoTo("parse")
    BY <1>1, <1>4
  <2> HIDE DEF b
  <2>2. Holders' = Holders \cup {"parser"}
    BY <2>1 DEF Holders, Owned
  <2> QED
    BY <1>2, <2>1, <2>2 DEF Move, GoTo, result
<1> QED
  BY <1>3, <1>4

HoldingsInv ==
  Holdings /\ MessagesKept /\ ReportsKnown /\ PanicsKnown /\ rc \in {0, -1}

LEMMA OnCourse ==
  ASSUME HoldingsInv, stage \in Early \ {"abort"}
  PROVE  MustHold(stage) \subseteq Holders /\ Holders \subseteq MayHold(stage)
  BY DEF HoldingsInv, Holdings, Succeeding, Silent, Early

LEMMA FailKeeps ==
  ASSUME HoldingsInv, stage \in Early, Fail
  PROVE  Holdings'
<1>1. outcome'.kind = "none" /\ ~Succeeding'
  BY DEF HoldingsInv, PanicsKnown, Fail, Early, Succeeding, Silent, Ending
<1>2. failed' => "pcap" \in Holders'
  BY DEF HoldingsInv, Holdings, Fail
<1> QED
  BY <1>1, <1>2 DEF Holdings

LEMMA MoveKeeps ==
  ASSUME HoldingsInv, stage \in Early, NEW to \in Early \cup {"cleanup"}, NEW held,
         Move(to, held), "pcap" \in Holders => "pcap" \in held,
         to # "abort" => MustHold(to) \subseteq held /\ held \subseteq MayHold(to)
  PROVE  Holdings'
<1>1. outcome'.kind = "none" /\ stage' = to /\ Holders' = held /\ failed' = failed
  BY DEF HoldingsInv, PanicsKnown, Move, Early
<1>2. failed' => "pcap" \in Holders'
  BY <1>1 DEF HoldingsInv, Holdings
<1>3. Succeeding' => to # "abort"
  BY <1>1 DEF Succeeding, Silent, Ending, Early
<1> QED
  BY <1>1, <1>2, <1>3 DEF Holdings

LEMMA EarlyHoldings ==
  ASSUME HoldingsInv
  PROVE  /\ FirstChunk \/ Snapshot \/ LexInit \/ ScanString \/ InitLinkType => Holdings'
         /\ Parse \/ Generate => Holdings'
<1> USE FailKeeps, MoveKeeps, OnCourse DEF Early, MayHold, MustHold, Ending
<1>1. ASSUME FirstChunk PROVE Holdings'
  <2>1. stage = "arena" /\ (Move("snapshot", Holders \cup {"arena"}) \/ Fail)
    BY <1>1, Given, Added, Same DEF FirstChunk, Move, Fail, GoTo, result,
       globals, memory
  <2> QED
    BY <2>1
<1>2. ASSUME Snapshot PROVE Holdings'
  <2>1. stage = "snapshot" /\ (Move("lexer", Holders) \/ Fail)
    BY <1>2, Given, Same DEF Snapshot, Move, Fail, GoTo, result, globals,
       memory
  <2> QED
    BY <2>1
<1>3. ASSUME LexInit PROVE Holdings'
  <2>1. stage = "lexer" /\ (Move("scan", Holders \cup {"lexer"}) \/ Fail)
    BY <1>3, Given, Added, Same DEF LexInit, Move, Fail, GoTo, result,
       globals, memory
  <2> QED
    BY <2>1
<1>4. ASSUME ScanString PROVE Holdings'
  <2>1. stage = "scan" /\ (Move("link", Holders \cup {"lexer"}) \/ Fail)
    BY <1>4, Added, Same DEF ScanString, Move, Fail, GoTo, Panic, result,
       globals
  <2> QED
    BY <2>1
<1>5. ASSUME InitLinkType PROVE Holdings'
  <2>1. stage = "link" /\ (Move("parse", Holders) \/ Fail)
    BY <1>5, Given, Same DEF InitLinkType, Move, Fail, GoTo, result,
       globals, memory
  <2> QED
    BY <2>1
<1>6. ASSUME NewChunk PROVE Holdings'
  <2>1. stage = "parse" /\ (\/ Move("parse", Holders \cup {"arena"})
                              \/ Move("parse", Holders)
                              \/ Fail)
    BY <1>6, Added, Same DEF NewChunk, Move, Fail, Parsing, GoTo, Panic,
       Longjmp, result, globals, memory
  <2> QED
    BY <2>1
<1>7. ASSUME GrowLexer PROVE Holdings'
  <2>1. stage = "parse" /\ (Move("parse", Holders \cup {"lexer"}) \/ Fail)
    BY <1>7, Added, Same DEF GrowLexer, Move, Fail, Parsing, GoTo, Panic,
       result, globals
  <2> QED
    BY <2>1
<1>8. ASSUME GrowParser PROVE Holdings'
  <2>1. stage = "parse"
    BY <1>8 DEF GrowParser, Parsing
  <2> QED
    BY <1>8, <2>1, GrowParserMoves
<1>9. ASSUME Resolve PROVE Holdings'
  <2>1. stage = "parse" /\ (\/ Move("lookup", Holders)
                              \/ Move("lookup", Holders \cup {"names"})
                              \/ Fail)
    BY <1>9, Kept, Same DEF Resolve, Move, Fail, Parsing, GoTo, Panic, result,
       globals, memory
  <2> QED
    BY <2>1
<1>23. ASSUME Resolve6 PROVE Holdings'
  <2>1. stage = "lookup" /\ (\/ Move("parse", Holders)
                               \/ Move("parse", Holders \cup {"names"})
                               \/ Fail)
    BY <1>23, Kept, Same DEF Resolve6, Move, Fail, GoTo, Panic, Longjmp, result,
       globals, memory
  <2> QED
    BY <2>1
<1>24. ASSUME EtherHostton PROVE Holdings'
  <2>1. stage = "parse" /\ (Move("parse", Holders) \/ Fail)
    BY <1>24, Same DEF EtherHostton, TakeAndFree, Move, Fail, Parsing, GoTo,
       Panic, Longjmp, result, globals, memory
  <2> QED
    BY <2>1
<1>10. ASSUME ReleaseNames PROVE Holdings'
  <2>1. stage = "parse" /\ (Move("parse", Holders \ {"names"}))
    BY <1>10, Dropped, Same DEF ReleaseNames, Move, GoTo, result, globals
  <2> QED
    BY <2>1
<1>11. ASSUME Report PROVE Holdings'
  <2>1. stage = "parse" /\ (Move("parse", Holders))
    BY <1>11, Same DEF Report, Move, Parsing, GoTo, result, globals, memory
  <2> QED
    BY <2>1
<1>12. ASSUME BpfError PROVE Holdings'
  <2>1. stage = "parse" /\ (Fail)
    BY <1>12, Same DEF BpfError, Fail, Panic, Longjmp, result, globals,
       memory
  <2> QED
    BY <2>1
<1>13. ASSUME SyntaxError PROVE Holdings'
  <2>1. stage = "parse" /\ (Move("abort", Holders))
    BY <1>13, Same DEF SyntaxError, Move, GoTo, result, globals, memory
  <2> QED
    BY <2>1
<1>14. ASSUME ParseFails PROVE Holdings'
  <2>1. stage = "abort" /\ (Fail)
    BY <1>14, Given, Dropped, Same DEF ParseFails, Fail, result, globals
  <2> QED
    BY <2>1
<1>15. ASSUME ParseSucceeds PROVE Holdings'
  <2>1. stage = "parse" /\ (\/ Move("optimize", Holders \ {"parser", "names"})
                              \/ Move("fcode", Holders \ {"parser", "names"}))
    BY <1>15, NamesGone, Dropped, Same DEF ParseSucceeds, Move, GoTo,
       result, globals
  <2> QED
    BY <2>1
<1>16. ASSUME Optimize PROVE Holdings'
  <2>1. stage = "optimize" /\ (Move("optimized", Holders \cup {"optimizer"}) \/ Fail)
    BY <1>16, Added, Same DEF Optimize, Move, Fail, GoTo, Panic, Longjmp,
       result, globals, memory
  <2> QED
    BY <2>1
<1>17. ASSUME Optimized PROVE Holdings'
  <2>1. stage = "optimized" /\ failed' = failed
    BY <1>17 DEF Optimized, globals
  <2>2. CASE Release({"optimizer"})
    <3>1. Holders' = Holders \ {"optimizer"} /\ ("pcap" \in Holders => "pcap" \in Holders')
      BY <2>2, Dropped
    <3>2. Move("fcode", Holders \ {"optimizer"}) \/ Fail
      BY <1>17, <2>1, <3>1, Given DEF Optimized, Move, Fail, GoTo, Panic, Longjmp, result
    <3> QED
      BY <2>1, <3>2
  <2>3. CASE ~Release({"optimizer"})
    <3>1. Fail
      BY <1>17, <2>1, <2>3, Same DEF Optimized, Fail, Panic, Longjmp, memory
    <3> QED
      BY <2>1, <3>1
  <2> QED
    BY <2>2, <2>3
<1>18. ASSUME CountInsns PROVE Holdings'
  <2>1. stage = "fcode" /\ (Move("convert", Holders \cup {"insns"}) \/ Fail)
    BY <1>18, Given, Added, Same DEF CountInsns, Move, Fail, GoTo, result,
       globals, memory
  <2> QED
    BY <2>1
<1>19. ASSUME Offsets PROVE Holdings'
  <2>1. stage = "convert" /\ (Move("converted", Holders) \/ Fail)
    BY <1>19, Same DEF Offsets, TakeAndFree, Move, Fail, GoTo, Panic, Longjmp, result,
       globals, memory
  <2> QED
    BY <2>1
<1>20. ASSUME NoOffsets PROVE Holdings'
  <2>1. stage = "convert" /\ (Move("converted", Holders))
    BY <1>20, Same DEF NoOffsets, Move, GoTo, result, globals, memory
  <2> QED
    BY <2>1
<1>21. ASSUME LongJump PROVE Holdings'
  <2>1. stage = "converted" /\ (Move("fcode", Holders \ {"insns"}))
    BY <1>21, Dropped, Same DEF LongJump, Move, GoTo, result, globals
  <2> QED
    BY <2>1
<1>22. ASSUME Validate PROVE Holdings'
  <2>1. stage = "converted" /\ (Move("cleanup", Holders) \/ Fail)
    BY <1>22, Given, Same DEF Validate, Move, Fail, Panic, Longjmp, result,
       globals, memory
  <2> QED
    BY <2>1
<1> QED
  BY <1>1, <1>2, <1>3, <1>4, <1>5, <1>6, <1>7, <1>8, <1>9, <1>10, <1>11,
     <1>12, <1>13, <1>14, <1>15, <1>16, <1>17, <1>18, <1>19, <1>20, <1>21,
     <1>22, <1>23, <1>24 DEF Parse, Generate

LEMMA HoldingsStep ==
  ASSUME HoldingsInv, [Next]_vars
  PROVE  Holdings'
<1>1. ASSUME MakeString PROVE Holdings'
  <2>1. stage = "start" /\ ~failed /\ failed' = failed /\ outcome.kind = "none"
    BY <1>1 DEF MakeString, HoldingsInv, MessagesKept, PanicsKnown, Inside, Early, Ending,
                Unwinding, globals
  <2>2. Holders = {}
    BY <2>1 DEF HoldingsInv, Holdings, Succeeding, Silent, MayHold
  <2>3. \/ stage' = "open" /\ Holders' = {"string"}
        \/ stage' = "done" /\ outcome'.kind = "error"
    BY <1>1, <2>2, Added, Finished DEF MakeString, GoTo
  <2> QED
    BY <2>1, <2>3 DEF Holdings, Succeeding, Silent, Early, Ending, MayHold, MustHold
<1>2. ASSUME OpenDummy PROVE Holdings'
  <2>1. stage = "open" /\ ~failed /\ outcome.kind = "none" /\ outcome' = outcome
    BY <1>2 DEF OpenDummy, HoldingsInv, MessagesKept, PanicsKnown, Inside, Early, Ending,
                Unwinding, GoTo, result
  <2>2. Holders \subseteq {"string"}
    BY <2>1 DEF HoldingsInv, Holdings, Succeeding, Silent, MayHold
  <2>3. \/ stage' = "arena" /\ Holders' = Holders \cup {"pcap"}
        \/ stage' = "failure" /\ failed' = failed
    BY <1>2, Added DEF OpenDummy, GoTo
  <2> QED
    BY <2>1, <2>2, <2>3 DEF Holdings, Succeeding, Silent, Early, Ending, MayHold, MustHold
<1>3. ASSUME FirstChunk \/ Snapshot \/ LexInit \/ ScanString \/ InitLinkType PROVE Holdings'
  BY <1>3, EarlyHoldings
<1>4. ASSUME Parse \/ Generate PROVE Holdings'
  BY <1>4, EarlyHoldings
<1>5. ASSUME Cleanup PROVE Holdings'
  <2>1. /\ stage = "cleanup" /\ stage' = "close" /\ rc' = rc /\ failed' = failed
        /\ outcome' = outcome /\ outcome.kind = "none"
        /\ Holders' = Holders \ {"lexer", "arena"}
    BY <1>5, Dropped DEF Cleanup, GoTo, result, globals, HoldingsInv, PanicsKnown
  <2>2. rc = 0 => "insns" \in Holders /\ Holders \subseteq {"string", "pcap", "arena", "lexer", "insns"}
    BY <2>1 DEF HoldingsInv, Holdings, Succeeding, Ending, MayHold, MustHold
  <2>3. rc = 0 => "insns" \in Holders' /\ Holders' \subseteq {"string", "pcap", "insns"}
    BY <2>1, <2>2
  <2>4. failed' => "pcap" \in Holders'
    BY <2>1 DEF HoldingsInv, Holdings
  <2> QED
    BY <2>1, <2>3, <2>4 DEF Holdings, Succeeding, Silent, Early, Ending, MayHold, MustHold
<1>6. ASSUME ClosePcap PROVE Holdings'
  <2>1. /\ stage = "close" /\ stage' = IF rc = 0 THEN "packet" ELSE "failure"
        /\ ~failed' /\ rc' = rc /\ outcome' = outcome /\ outcome.kind = "none"
        /\ Holders' = Holders \ {"pcap"}
    BY <1>6, Dropped DEF ClosePcap, GoTo, result, HoldingsInv, PanicsKnown
  <2>2. rc = 0 => "insns" \in Holders /\ Holders \subseteq {"string", "pcap", "insns"}
    BY <2>1 DEF HoldingsInv, Holdings, Succeeding, Ending, MayHold, MustHold
  <2>3. rc = 0 => "insns" \in Holders' /\ Holders' \subseteq {"string", "insns"}
    BY <2>1, <2>2
  <2> QED
    BY <2>1, <2>3 DEF Holdings, Succeeding, Silent, Early, Ending, MayHold, MustHold
<1>7. ASSUME ReturnError PROVE Holdings'
  <2>1. stage' = "deferred" /\ outcome'.kind = "error"
    BY <1>7, Finished DEF ReturnError
  <2>2. failed' = failed /\ Holders' = Holders
    BY <1>7, Same DEF ReturnError, globals, memory
  <2> QED
    BY <2>1, <2>2 DEF HoldingsInv, Holdings, Succeeding, Silent, Early, Ending
<1>8. ASSUME PacketBuffer PROVE Holdings'
  <2>1. stage = "packet" /\ failed' = failed /\ ~failed
    BY <1>8 DEF PacketBuffer, globals, HoldingsInv, MessagesKept, Inside, Early, Ending,
                Unwinding
  <2>2. "insns" \in Holders /\ Holders \subseteq {"string", "insns"}
    BY <2>1 DEF HoldingsInv, Holdings, Succeeding, Silent, MayHold, MustHold
  <2>3. /\ stage' = "deferred"
        /\ \/ outcome'.kind = "error"
           \/ outcome'.kind = "program" /\ Holders' = Holders \cup {"packet"}
    BY <1>8, Finished, Added DEF PacketBuffer
  <2> QED
    BY <2>1, <2>2, <2>3 DEF Holdings, Succeeding, Silent, Early, Ending, MayHold, MustHold
<1>9. ASSUME FreeString PROVE Holdings'
  <2>1. /\ stage \in {"deferred", "unwind"}
        /\ stage' = IF stage = "unwind" THEN "recover" ELSE "done"
        /\ outcome' = outcome /\ failed' = failed
        /\ Holders' = Holders \ {"string"}
    BY <1>9, Dropped DEF FreeString, GoTo, result, globals
  <2>2. stage = "deferred" /\ outcome.kind = "program" =>
          {"insns", "packet"} \subseteq Holders /\ Holders \subseteq {"string", "insns", "packet"}
    BY <2>1 DEF HoldingsInv, Holdings, Succeeding, Ending, MayHold, MustHold
  <2>3. failed' => "pcap" \in Holders'
    BY <2>1 DEF HoldingsInv, Holdings
  <2>4. Succeeding' => stage = "deferred" /\ outcome.kind = "program" /\ stage' = "done"
    BY <2>1 DEF Succeeding, Silent, Early, Ending
  <2>5. Succeeding' => {"insns", "packet"} \subseteq Holders' /\ Holders' \subseteq {"insns", "packet"}
    BY <2>1, <2>2, <2>4
  <2> QED
    BY <2>3, <2>4, <2>5 DEF Holdings, Ending, MayHold, MustHold
<1>10. ASSUME Recover PROVE Holdings'
  <2>1. stage' = "done" /\ outcome'.kind \in {"error", "panic"}
    BY <1>10, Finished DEF Recover
  <2>2. failed' = failed /\ Holders' = Holders
    BY <1>10, Same DEF Recover, globals, memory
  <2> QED
    BY <2>1, <2>2 DEF HoldingsInv, Holdings, Succeeding, Silent, Early, Ending
<1>11. CASE UNCHANGED vars
  <2>1. /\ Holders' = Holders /\ stage' = stage /\ rc' = rc
        /\ outcome' = outcome /\ failed' = failed
    BY <1>11, Same DEF vars, memory, globals, result
  <2> QED
    BY <2>1 DEF HoldingsInv, Holdings, Succeeding
<1> QED
  BY <1>1, <1>2, <1>3, <1>4, <1>5, <1>6, <1>7, <1>8, <1>9, <1>10, <1>11
  DEF Next, Open, Return

-----------------------------------------------------------------------------
(* The result: one array of instructions and one packet buffer.            *)

LEMMA UniqueKept ==
  ASSUME ResultUnique, live' \subseteq live, snaplen' = snaplen
  PROVE  ResultUnique'
  BY DEF ResultUnique

LEMMA UniquePlaced ==
  ASSUME ResultUnique, snaplen' = snaplen, NEW b, NEW kept \in SUBSET live,
         live' = kept \cup {b},
         b.owner \in {"insns", "packet"} => b.owner \notin Holders,
         b.owner = "packet" => b.len = snaplen
  PROVE  ResultUnique'
<1>1. \A c \in kept : c \in live /\ c.owner \in Holders
  BY DEF Holders
<1>2. \A c, d \in live' : c.owner = d.owner /\ c.owner \in {"insns", "packet"} => c = d
  BY <1>1 DEF ResultUnique
<1>3. \A c \in live' : c.owner = "packet" => c.len = snaplen'
  BY DEF ResultUnique
<1> QED
  BY <1>2, <1>3 DEF ResultUnique

LEMMA UniqueTaken ==
  ASSUME ResultUnique, snaplen' = snaplen, NEW o, NEW n, Take(o, n),
         o \in {"insns", "packet"} => o \notin Holders,
         o = "packet" => n = snaplen
  PROVE  ResultUnique'
<1> DEFINE b == [owner |-> o, at |-> Calloc(heap, n).ptr, len |-> n]
<1>1. live' = live \cup {b}
  BY DEF Take
<1>2. b.owner = o /\ b.len = n
  OBVIOUS
<1> HIDE DEF b
<1> QED
  BY <1>1, <1>2, UniquePlaced

LEMMA UniqueGrown ==
  ASSUME ResultUnique, GrowParser
  PROVE  ResultUnique'
<1>1. PICK n \in Sizes :
        \/ live' = (live \ Owned({"parser"})) \cup
             {[owner |-> "parser", at |-> Malloc(heap, n).ptr, len |-> n]}
        \/ live' = live
  BY DEF GrowParser, Refused
<1>2. snaplen' = snaplen
  BY DEF GrowParser, input
<1>3. CASE live' = live
  BY <1>2, <1>3, UniqueKept
<1>4. CASE live' # live
  <2> DEFINE b == [owner |-> "parser", at |-> Malloc(heap, n).ptr, len |-> n]
  <2>1. live' = (live \ Owned({"parser"})) \cup {b} /\ b.owner = "parser"
    BY <1>1, <1>4
  <2> HIDE DEF b
  <2> QED
    BY <1>2, <2>1, UniquePlaced
<1> QED
  BY <1>3, <1>4

LEMMA UniqueAnswered ==
  ASSUME ResultUnique, snaplen' = snaplen, NEW n, Answer(n)
  PROVE  ResultUnique'
<1>1. CASE live' = live
  BY <1>1, UniqueKept
<1>2. CASE live' # live
  <2>1. PICK p, q : live' = live \cup {NameAt(p, 2), NameAt(q, n)}
    BY <1>2 DEF Answer
  <2>2. NameAt(p, 2).owner = "names" /\ NameAt(q, n).owner = "names"
    BY DEF NameAt
  <2> HIDE DEF NameAt
  <2> QED
    BY <2>1, <2>2 DEF ResultUnique
<1> QED
  BY <1>1, <1>2

LEMMA UniqueStep ==
  ASSUME ResultUnique, HoldingsInv, [Next]_vars
  PROVE  ResultUnique'
<1>1. \A n : Refused(n) => live' = live
  BY DEF Refused
<1>2. \A owners : Release(owners) => live' \subseteq live
  BY DEF Release
<1>3. CASE CountInsns
  <2>1. stage = "fcode" /\ snaplen' = snaplen
    BY <1>3 DEF CountInsns, input
  <2>2. "insns" \notin Holders
    BY <2>1, OnCourse DEF Early, MayHold
  <2> QED
    BY <1>1, <1>3, <2>1, <2>2, UniqueTaken, UniqueKept DEF CountInsns
<1>4. CASE PacketBuffer
  <2>1. stage = "packet" /\ snaplen' = snaplen
    BY <1>4 DEF PacketBuffer, input
  <2>2. "packet" \notin Holders
    BY <2>1 DEF HoldingsInv, Holdings, Succeeding, Silent, MayHold
  <2> QED
    BY <1>1, <1>4, <2>1, <2>2, UniqueTaken, UniqueKept DEF PacketBuffer
<1>5. CASE GrowParser
  BY <1>5, UniqueGrown
<1>6. CASE MakeString \/ OpenDummy \/ FirstChunk \/ LexInit \/ ScanString
  BY <1>1, <1>6, UniqueTaken, UniqueKept
  DEF MakeString, OpenDummy, FirstChunk, LexInit, ScanString, input
<1>7. CASE NewChunk \/ GrowLexer \/ Optimize
  BY <1>1, <1>7, UniqueTaken, UniqueKept
  DEF NewChunk, GrowLexer, Optimize, input, memory
<1>11. CASE Resolve \/ Resolve6
  BY <1>11, UniqueAnswered, UniqueKept DEF Resolve, Resolve6, input, memory
<1>8. CASE ReleaseNames \/ ParseFails \/ ParseSucceeds \/ Optimized \/ LongJump
             \/ Cleanup \/ ClosePcap \/ FreeString
  BY <1>2, <1>8, UniqueKept
  DEF ReleaseNames, ParseFails, ParseSucceeds, Optimized, LongJump, Cleanup,
      ClosePcap, FreeString, input, memory
<1>9. CASE Snapshot \/ InitLinkType \/ Report \/ BpfError \/ SyntaxError
             \/ EtherHostton \/ Offsets \/ NoOffsets \/ Validate \/ ReturnError
             \/ Recover
  BY <1>1, <1>9, UniqueKept
  DEF Snapshot, InitLinkType, Report, BpfError, SyntaxError, EtherHostton,
      TakeAndFree, Offsets, NoOffsets, Validate, ReturnError, Recover, input, memory
<1>10. CASE UNCHANGED vars
  BY <1>10, UniqueKept DEF vars, input, memory
<1> QED
  BY <1>3, <1>4, <1>5, <1>6, <1>7, <1>8, <1>9, <1>10,
     <1>11 DEF Next, Open, Parse, Generate, Return

-----------------------------------------------------------------------------
(* The theorems.                                                           *)

LEMMA InitInv == Init => CompileInv
<1> SUFFICES ASSUME Init PROVE CompileInv
  OBVIOUS
<1>1. WellFormed(heap) /\ heap.last = 0 /\ live = {}
  BY NewHeapSound DEF Init
<1>2. MemorySound
  BY <1>1 DEF MemorySound, BlocksApart, LastIsHeld
<1>3. TypeOK
  <2>1. outcome \in [kind : Kinds, text : Text]
    BY DEF Init, Returned, Kinds, Text
  <2>2. heap \in Heap /\ live \subseteq Block /\ 0 \in 0 .. MaxSteps /\ 0 \in 0 .. MaxLong
    BY <1>1, CompileAssumption DEF WellFormed
  <2>3. failed \in BOOLEAN /\ errset \in BOOLEAN /\ optimize \in BOOLEAN
    BY DEF Init
  <2> QED
    BY <2>1, <2>2, <2>3 DEF Init, TypeOK, Raised, Kinds
<1>4. MessagesKept /\ ReportsKnown /\ PanicsKnown /\ ErrorsAreTold /\ NoErrorIsLost
  BY DEF Init, MessagesKept, ReportsKnown, PanicsKnown, ErrorsAreTold, NoErrorIsLost,
         Returned, Inside, Early, Ending, Unwinding, Silent
<1>5. Holders = {}
  BY <1>1 DEF Holders
<1>6. Holdings /\ ResultUnique
  BY <1>1, <1>5 DEF Init, Holdings, ResultUnique, MustHold, Ending
<1> QED
  BY <1>2, <1>3, <1>4, <1>6 DEF CompileInv

LEMMA NextInv == CompileInv /\ [Next]_vars => CompileInv'
<1> SUFFICES ASSUME CompileInv, [Next]_vars PROVE CompileInv'
  OBVIOUS
<1>1. ReportsInv /\ HoldingsInv /\ ResultUnique
  BY DEF CompileInv, TypeOK, ReportsInv, HoldingsInv
<1> QED
  BY <1>1, TypesStep, MemoryStep, ReportsStep, OutcomeStep, HoldingsStep, UniqueStep
  DEF CompileInv

(* The inductive invariant: what is known of the memory, of the reports and *)
(* of the blocks held at each stage of a call holds at every step of it.   *)
THEOREM CompileSafety == Spec => []CompileInv
<1> QED
  BY InitInv, NextInv, PTL DEF Spec

(* Each part of the state keeps the shape the code gives it, on every path *)
(* through Compile, bpf_compile and pcap_compile.                          *)
THEOREM CompileTypes == Spec => []TypeOK
<1>1. CompileInv => TypeOK
  BY DEF CompileInv
<1> QED
  BY <1>1, CompileSafety, PTL

(* An error that Compile returns was reported on the way, whichever of the *)
(* functions that write an errbuf or panic ended the call.                 *)
THEOREM ErrorsWereTold == Spec => []ErrorsAreTold
<1>1. CompileInv => ErrorsAreTold
  BY DEF CompileInv
<1> QED
  BY <1>1, CompileSafety, PTL

(* A program is returned only if nothing was reported, and only a panic of *)
(* the caller's own lookup functions leaves Compile.                       *)
THEOREM NothingIsLost == Spec => []NoErrorIsLost
<1>1. CompileInv => NoErrorIsLost
  BY DEF CompileInv
<1> QED
  BY <1>1, CompileSafety, PTL

(* While bpf.c's failed is set, the pcap_t it points to is in use, also    *)
(* when a panic has passed bpf_compile.                                    *)
THEOREM FailedStaysOpen == Spec => []FailedIsOpen
<1>1. CompileInv => FailedIsOpen
  BY DEF CompileInv, Holdings, FailedIsOpen, Holders, Owned
<1> QED
  BY <1>1, CompileSafety, PTL

(* The blocks a call holds never share memory: not the string with the     *)
(* arena, not the instructions of a retry with the packet buffer.          *)
THEOREM CallBlocksApart == Spec => []BlocksApart
<1>1. CompileInv => BlocksApart
  BY DEF CompileInv, MemorySound
<1> QED
  BY <1>1, CompileSafety, PTL

(* A program that is handed over owns its instructions and one packet      *)
(* buffer of snaplen bytes; all else was given back.                       *)
THEOREM ResultRemains == Spec => []OnlyTheResultRemains
<1>1. CompileInv => OnlyTheResultRemains
  <2>1. SUFFICES ASSUME CompileInv, stage = "done", outcome.kind = "program"
                 PROVE  /\ Holders = {"insns", "packet"}
                        /\ \A b \in live : b.owner = "packet" => b.len = snaplen
                        /\ \A b, c \in live : b.owner = c.owner => b = c
    BY DEF OnlyTheResultRemains
  <2>2. Holders = {"insns", "packet"}
    BY <2>1 DEF CompileInv, Holdings, Succeeding, MayHold, MustHold, Ending
  <2>3. \A b \in live : b.owner \in {"insns", "packet"}
    BY <2>2 DEF Holders
  <2>4. ResultUnique
    BY <2>1 DEF CompileInv
  <2> QED
    BY <2>2, <2>3, <2>4 DEF ResultUnique
<1> QED
  BY <1>1, CompileSafety, PTL
=============================================================================
