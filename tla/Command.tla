------------------------------ MODULE Command ------------------------------
(***************************************************************************)
(* pcap-compile-filter (cmd/pcap-compile-filter/main.go): from the flags   *)
(* to the exit status, with the part of Compile (filter.go) that turns its *)
(* options into the arguments of bpf_compile, and what the compiler does   *)
(* with them where the flags matter: the snapshot length, the link type,   *)
(* host names, ether names and "ip broadcast".                             *)
(*                                                                         *)
(* The text of a flag is abstracted to what its parser finds in it, and an *)
(* expression to what it asks for on the way. Calls that the flag package  *)
(* itself refuses or answers (-h) are left out.                            *)
(***************************************************************************)
EXTENDS Integers, Sequences, FiniteSets

CONSTANTS
  MaskBits,   \* bits of an IPv4 address and of a C int (32)
  Types,      \* numbers -t may give, by a name of the table or in digits
  Supported,  \* link types the compiler knows
  Snaplens,   \* numbers -s may give
  MaskFlags,  \* [form, v4, value]: what -n may be
  Names,      \* names of an ethers file
  Asked,      \* the name in "ether host" expressions
  Files,      \* contents of ethers files: sequences of lines
  DefaultLinkType, DefaultSnaplen,  \* DLT_EN10MB and 65535
  BitAnd(_, _)                      \* of two words

Pow2[k \in 0 .. MaskBits] == IF k = 0 THEN 1 ELSE 2 * Pow2[k - 1]

Words == Pow2[MaskBits]
Word == 0 .. Words - 1
Ints == -(Words \div 2) .. Words \div 2 - 1
Unknown == Words - 1                \* PCAP_NETMASK_UNKNOWN
Need == {"host", "ether host", "ip broadcast"}
Skip == "blank, comment, too short, or no address"
Mac == [octets : {6, 8}, id : {1, 2}]
Line == [name : Names, mac : Mac] \cup {[name |-> Skip]}

ASSUME CommandAssumption ==
  /\ MaskBits \in Nat \ {0}
  /\ Types \subseteq Int /\ Supported \subseteq Int /\ Snaplens \subseteq Int
  /\ \A m \in MaskFlags :
       /\ m.form = "prefix" => m.value \in 0 .. MaskBits
       /\ m.form = "addr" => m.value \in Word
  /\ {DefaultLinkType, DefaultSnaplen} \subseteq Ints
  /\ Asked \in Names /\ Skip \notin Names
  /\ \A f \in Files : f \in Seq(Line)

(* Bit by bit, from the lowest. *)
ASSUME BitAndAssumption ==
  \A a, b \in Word :
    /\ BitAnd(a, b) \in Nat
    /\ BitAnd(a, b) = (a % 2) * (b % 2) + 2 * BitAnd(a \div 2, b \div 2)

VARIABLES
  flag,      \* the flags of the call
  expr,      \* what the expression asks for, << >> if there is none
  stage,
  line,      \* the next line of the ethers file
  table,     \* the ethers map
  mask,      \* the Netmask option: << >> or << word >>
  arg,       \* the arguments of bpf_compile: << >> or << record >>
  met,       \* what has been parsed of it
  ether,     \* the addresses of "ether host" in the filter
  stdout, stderr, exit

vars == <<flag, expr, stage, line, table, mask, arg, met, ether, stdout, stderr, exit>>

Maybe(S) == {<< >>} \cup {<<x>> : x \in S}

(* type is << >> if -t is neither a name nor a number, and file without -e. *)
Flag == [raw : BOOLEAN, type : Maybe(Types), snaplen : Snaplens,
         resolver : BOOLEAN, file : Maybe(Files), mask : MaskFlags]

NotListed == [octets |-> 0, id |-> 0]

Init ==
  /\ flag \in Flag
  /\ expr \in Maybe(SUBSET Need)
  /\ stage = "flags" /\ line = 1
  /\ table = [n \in Names |-> NotListed]
  /\ mask = << >> /\ arg = << >> /\ met = {} /\ ether = {}
  /\ stdout = << >> /\ stderr = FALSE /\ exit = -1

(* os.Exit, after a message on standard error unless the status is 0.      *)
Exits(status) ==
  stage' = "exit" /\ exit' = status /\ stderr' = (status # 0)

GoTo(to) == stage' = to /\ UNCHANGED <<exit, stderr>>

(***************************************************************************)
(* The flags, one after the other as main takes them.                      *)
(***************************************************************************)
CheckArgs ==
  /\ stage = "flags"
  /\ IF expr = << >> THEN Exits(2) ELSE GoTo("type")
  /\ UNCHANGED <<flag, expr, line, table, mask, arg, met, ether, stdout>>

ParseType ==
  /\ stage = "type"
  /\ IF flag.type = << >> THEN Exits(2) ELSE GoTo("ethers")
  /\ UNCHANGED <<flag, expr, line, table, mask, arg, met, ether, stdout>>

OpenEthers ==
  /\ stage = "ethers"
  /\ \/ flag.file = << >> /\ GoTo("mask")
     \/ flag.file # << >> /\ (GoTo("scan") \/ Exits(2))
  /\ UNCHANGED <<flag, expr, line, table, mask, arg, met, ether, stdout>>

(* Mutant: the first line of a name counts. *)
ScanLineFirst ==
  /\ stage = "scan" /\ line <= Len(flag.file[1])
  /\ line' = line + 1
  /\ LET l == flag.file[1][line]
     IN  table' = IF l.name = Skip \/ table[l.name] # NotListed THEN table
                  ELSE [table EXCEPT ![l.name] = l.mac]
  /\ GoTo("scan")
  /\ UNCHANGED <<flag, expr, mask, arg, met, ether, stdout>>

ScanLine ==
  /\ stage = "scan" /\ line <= Len(flag.file[1])
  /\ line' = line + 1
  /\ LET l == flag.file[1][line]
     IN  table' = IF l.name = Skip THEN table ELSE [table EXCEPT ![l.name] = l.mac]
  /\ GoTo("scan")
  /\ UNCHANGED <<flag, expr, mask, arg, met, ether, stdout>>

(* The scanner stops at the end of the file, or at an error before it.     *)
ScanEnds ==
  /\ stage = "scan"
  /\ \/ line > Len(flag.file[1]) /\ GoTo("mask")
     \/ Exits(2)
  /\ UNCHANGED <<flag, expr, line, table, mask, arg, met, ether, stdout>>

(* bitsToMask, and the test for a mask without holes. *)
BitsToMask(bits) == ((Words - 1) * Pow2[MaskBits - bits]) % Words

(* Mutant: the complement is tested without its carry. *)
ContiguousAny(w) ==
  LET inv == Words - 1 - w IN BitAnd(inv, (inv + 2) % Words) = 0

Contiguous(w) ==
  LET inv == Words - 1 - w IN BitAnd(inv, (inv + 1) % Words) = 0

(* The forms are tried in this order: a prefix, an address, a length.      *)
ParseMask ==
  /\ stage = "mask"
  /\ LET m == flag.mask
     IN  \/ m.form = "none" /\ mask' = << >> /\ GoTo("compile")
         \/ /\ m.form = "prefix" /\ m.v4
            /\ mask' = <<BitsToMask(m.value)>> /\ GoTo("compile")
         \/ /\ m.form = "addr" /\ m.v4 /\ Contiguous(m.value)
            /\ mask' = <<m.value>> /\ GoTo("compile")
         \/ /\ m.form = "length" /\ m.value \in 0 .. MaskBits
            /\ mask' = <<BitsToMask(m.value)>> /\ GoTo("compile")
         \/ /\ \/ m.form = "bad"
               \/ m.form \in {"prefix", "addr"} /\ ~m.v4
               \/ m.form = "addr" /\ ~Contiguous(m.value)
               \/ m.form = "length" /\ m.value \notin 0 .. MaskBits
            /\ UNCHANGED mask /\ Exits(2)
  /\ UNCHANGED <<flag, expr, line, table, arg, met, ether, stdout>>

(***************************************************************************)
(* Compile: the options become C ints, and zero means the default.         *)
(***************************************************************************)
Int32(v) ==
  LET w == v % Words IN IF w >= Words \div 2 THEN w - Words ELSE w

(* Mutant: the number keeps its size. *)
OrDefaultWide(v, default) == IF v = 0 THEN default ELSE v

OrDefault(v, default) == IF v = 0 THEN default ELSE Int32(v)

Compile ==
  /\ stage = "compile"
  /\ \/ /\ arg' = <<[link |-> OrDefault(flag.type[1], DefaultLinkType),
                     snaplen |-> OrDefault(flag.snaplen, DefaultSnaplen),
                     netmask |-> IF mask = << >> THEN Unknown ELSE mask[1]]>>
        /\ GoTo("check")
     \/ UNCHANGED arg /\ Exits(1)      \* no memory for the expression
  /\ UNCHANGED <<flag, expr, line, table, mask, met, ether, stdout>>

CheckOptions ==
  /\ stage = "check"
  /\ IF arg[1].snaplen = 0 \/ arg[1].link \notin Supported
     THEN Exits(1) ELSE GoTo("parse")
  /\ UNCHANGED <<flag, expr, line, table, mask, arg, met, ether, stdout>>

(* What the expression asks for is met in any order.                       *)
Meets(need) ==
  stage = "parse" /\ need \in expr[1] \ met /\ met' = met \cup {need}

(* getaddrinfo asks once for each family, and newLookup asks the resolver  *)
(* and prints its answer before it looks whether there is one.             *)
HostName ==
  /\ Meets("host")
  /\ stdout' = stdout \o <<"lookup", "lookup">>
  /\ \/ flag.resolver /\ GoTo("parse")
     \/ Exits(1)
  /\ UNCHANGED <<flag, expr, line, table, mask, arg, ether>>

(* Xether_hostton takes addresses of six octets only. *)
EtherName ==
  /\ Meets("ether host")
  /\ \/ /\ table[Asked].octets = 6
        /\ ether' = ether \cup {table[Asked]} /\ GoTo("parse")
     \/ table[Asked].octets # 6 /\ UNCHANGED ether /\ Exits(1)
  /\ UNCHANGED <<flag, expr, line, table, mask, arg, stdout>>

(* Mutant: the mask is taken as known whenever there is one. *)
BroadcastAny ==
  /\ Meets("ip broadcast")
  /\ IF mask = << >> THEN Exits(1) ELSE GoTo("parse")
  /\ UNCHANGED <<flag, expr, line, table, mask, arg, ether, stdout>>

(* gen_broadcast, for the IP layer.                                        *)
Broadcast ==
  /\ Meets("ip broadcast")
  /\ IF arg[1].netmask = Unknown THEN Exits(1) ELSE GoTo("parse")
  /\ UNCHANGED <<flag, expr, line, table, mask, arg, ether, stdout>>

(* Mutant: an error of the compiler does not end the command. *)
ParsedAnyway ==
  /\ stage = "parse"
  /\ GoTo("write")
  /\ UNCHANGED <<flag, expr, line, table, mask, arg, met, ether, stdout>>

(* The expression is compiled, or has another error.                       *)
Parsed ==
  /\ stage = "parse"
  /\ \/ met = expr[1] /\ GoTo("write")
     \/ Exits(1)
  /\ UNCHANGED <<flag, expr, line, table, mask, arg, met, ether, stdout>>

Write ==
  /\ stage = "write"
  /\ \/ /\ stdout' = Append(stdout, IF flag.raw THEN "bytes" ELSE "disassembly")
        /\ Exits(0)
     \/ Exits(1) /\ UNCHANGED stdout
  /\ UNCHANGED <<flag, expr, line, table, mask, arg, met, ether>>

Next ==
  \/ CheckArgs \/ ParseType \/ OpenEthers \/ ScanLine \/ ScanEnds \/ ParseMask
  \/ Compile \/ CheckOptions \/ HostName \/ EtherName \/ Broadcast \/ Parsed
  \/ Write

Spec == Init /\ [][Next]_vars

(***************************************************************************)
(* Properties.                                                             *)
(***************************************************************************)

(* The types: the arguments of bpf_compile are C ints and an unsigned      *)
(* word, whatever the size of the numbers in the flags (filter.go 126-147).*)
TypeOK ==
  /\ flag \in Flag
  /\ \A n \in Names : table[n] \in Mac \cup {NotListed}
  /\ mask # << >> => mask[1] \in Word
  /\ arg # << >> => /\ {arg[1].link, arg[1].snaplen} \subseteq Ints
                    /\ arg[1].netmask \in Word
  /\ ether \subseteq Mac
  /\ exit \in {-1, 0, 1, 2} /\ stderr \in BOOLEAN

(* The exit status tells what came out: 0 only with the whole expression   *)
(* compiled and the filter, in the form asked for and nothing else of it,  *)
(* last on standard output; 2 only before the compiler was called; and     *)
(* every other status with a message and no filter (main.go 37-86).        *)
ExitTells ==
  LET filters == {i \in 1 .. Len(stdout) : stdout[i] # "lookup"}
      form == IF flag.raw THEN "bytes" ELSE "disassembly"
  IN  /\ exit = 0 => /\ met = expr[1] /\ ~stderr
                     /\ filters = {Len(stdout)} /\ stdout[Len(stdout)] = form
      /\ exit # 0 => filters = {}
      /\ exit = 2 => stdout = << >> /\ arg = << >>
      /\ exit > 0 => stderr

(* A netmask that reaches the compiler is a block of ones followed by      *)
(* zeroes, the one of the length the flag gave if it gave a length; the    *)
(* three forms of -n agree (main.go 89-117).                               *)
MaskIsALength ==
  mask # << >> =>
    \E bits \in 0 .. MaskBits :
      /\ mask[1] = (Words - Pow2[MaskBits - bits]) % Words
      /\ flag.mask.form \in {"prefix", "length"} => flag.mask.value = bits

(* The address "ether host" compiles in is the one on the last line of the *)
(* file that names the host, and it has six octets: main.go overwrites a   *)
(* name listed twice, and filter.go 273 refuses longer addresses, whose    *)
(* first six octets would otherwise be taken.                              *)
EtherAsListed ==
  ether # {} =>
    LET lines == {i \in 1 .. Len(flag.file[1]) : flag.file[1][i].name = Asked}
    IN  \E i \in lines : /\ \A j \in lines : j <= i
                         /\ ether = {flag.file[1][i].mac}
                         /\ flag.file[1][i].mac.octets = 6

(* "ip broadcast" is only compiled with a netmask from the flags that      *)
(* leaves room for hosts: a netmask of all ones is the number that stands  *)
(* for no netmask (filter.go 141-145, _gen_broadcast in bpf.go).      *)
BroadcastHasHosts ==
  exit = 0 /\ "ip broadcast" \in expr[1] => mask # << >> /\ mask[1] < Unknown

(* main.go 21: with -r the command is to "output raw bytes instead of      *)
(* disassembly"; newLookup's Println puts text before them.                *)
RawIsOnlyBytes == exit = 0 /\ flag.raw => stdout = <<"bytes">>

(* main.go 23: -t is a "link-layer type name (e.g. EN10MB, DLT_LINUX_SLL)  *)
(* or numeric value", so the filter is for the type that was named; 0,     *)
(* which is DLT_NULL, becomes the default, and larger numbers lose bits.   *)
LinkTypeAsGiven == exit = 0 => arg[1].link = flag.type[1]

(* filter.go 59-60: "If zero, broadcast checks are skipped", so that a     *)
(* missing netmask alone is no reason to fail; gen_broadcast fails.        *)
BroadcastSkipped ==
  [][Broadcast /\ mask = << >> => stage' # "exit"]_vars
=============================================================================
