----------------------------- MODULE LinkLayer -----------------------------
(***************************************************************************)
(* Where a filter looks for the layers of a packet, and how it tells what  *)
(* the link layer carries (init_linktype, gen_load_a and gen_linktype with *)
(* its variants for LLC, Linux cooked captures and PPP, internal/bpf.go).  *)
(*                                                                         *)
(* The compiler keeps the offsets in its state; part of an offset may be   *)
(* in a register that the program fills for each packet, so an offset is   *)
(* that of one packet here.  An operator named after a function of the     *)
(* code generator is the verdict of the test it generates on packet f, a   *)
(* sequence of bytes.                                                      *)
(***************************************************************************)
EXTENDS Octets, Verdicts

ByteOf(f, at) == f[at + 1]
Beyond == 100000                 \* outside every packet
Clipped(f, at, n) == at + n > Len(f)

(* Loads of the bytes at a place, compared with v. *)
Cmp(f, at, v) ==
  IF Clipped(f, at, Len(v)) THEN "reject" ELSE Truth(SubSeq(f, at + 1, at + Len(v)) = v)
(* Mutant: what was not captured reads as zero. *)
MCmpPadded(f, at, mask, v) ==
  Truth(\A j \in 1 .. Len(v) :
          BitAnd[IF Clipped(f, at + j - 1, 1) THEN 0 ELSE ByteOf(f, at + j - 1)][mask[j]] = v[j])

(* With no bit to compare nothing is loaded: the block is constant. *)
MCmp(f, at, mask, v) ==
  IF mask = Zeros(Len(mask)) THEN Truth(v = mask)
  ELSE IF Clipped(f, at, Len(v)) THEN "reject"
  ELSE Truth(\A j \in 1 .. Len(v) : BitAnd[ByteOf(f, at + j - 1)][mask[j]] = v[j])
HasBits(f, at, bits) ==
  IF Clipped(f, at, 1) THEN "reject" ELSE Truth(BitAnd[ByteOf(f, at)][bits] # 0)
HalfAt(f, at) == 256 * ByteOf(f, at) + ByteOf(f, at + 1)
HalfAbove(f, at, v) == IF Clipped(f, at, 2) THEN "reject" ELSE Truth(HalfAt(f, at) > v)

(* A longer string is compared four bytes at a time, the last ones first. *)
BCmp(f, at, v) ==
  LET n == Len(v)
      From(k) == IF 4 * k <= n THEN n - 4 * k ELSE 0
  IN  All3([k \in 1 .. (n + 3) \div 4 |->
              Cmp(f, at + From(k), SubSeq(v, From(k) + 1, From(k - 1)))])

-----------------------------------------------------------------------------
(* The compiler's state before anything is said, for a link type. *)
DataBit == 8
CtlBit == 4
QosBit == 128
(* The length of an 802.11 header, worked out before the first test. *)
WlanHeader(f) ==
  IF Clipped(f, 0, 1) THEN Beyond
  ELSE LET b == ByteOf(f, 0)
       IN  IF BitAnd[b][DataBit + CtlBit + QosBit] = DataBit + QosBit THEN 26 ELSE 24

Types ==
  [EN10MB |-> 12, LINUX_SLL |-> 14, C_HDLC |-> 2, RAW |-> Beyond, IEEE802_11 |-> Beyond]
Payloads == [EN10MB |-> 14, LINUX_SLL |-> 16, C_HDLC |-> 4, RAW |-> 0]

InitLinkType(link, f) ==
  [link |-> link, encap |-> FALSE, mpls |-> 0, vlan |-> 0, hdr |-> 0, type |-> Types[link],
   pl |-> IF link = "IEEE802_11" THEN WlanHeader(f) ELSE Payloads[link],
   nl |-> IF link = "IEEE802_11" THEN 8 ELSE 0,
   nosnap |-> IF link \in {"EN10MB", "IEEE802_11"} THEN 3 ELSE 0]

(* gen_load_a: the places a load may be relative to. *)
Link(st, f)    == st.hdr
LinkT(st, f)   == st.type
Payload(st, f) == st.pl
Net(st, f)     == st.pl + st.nl
NoSnap(st, f)  == st.pl + st.nosnap
Label(st, f)   == st.pl + st.nl - 4
Tran4(st, f) ==
  IF Clipped(f, Net(st, f), 1) THEN Beyond ELSE Net(st, f) + 4 * (ByteOf(f, Net(st, f)) % 16)
Tran6(st, f)   == Net(st, f) + 40

(* What may stand in front: Geneve may carry something without a link layer. *)
PrevLinkHdrCheck(st, f) == Truth(~st.encap \/ st.hdr # st.pl)

-----------------------------------------------------------------------------
IP == 2048
ARP == 2054
RARP == 32821
IPV6 == 34525
DECNET == 24579
AARP == 33011
ATALK == 32923
IPX == 224
ISO == 254
VLAN == 33024
MPLS == 34887
PPPOED == 34915
PPPOES == 34916
SapIP == 6
STP == 66
NETBEUI == 240

(* IPX came before types, and in several ways. *)
IpxType == 33079
Snap(org, type) == << 170, 170, 3 >> \o org \o Half(type)
NoOrg == << 0, 0, 0 >>
Apple == << 8, 0, 7 >>
SnapOf(proto) == Snap(IF proto = ATALK THEN Apple ELSE NoOrg, proto)

IpVersion(st, at, v, f) == MCmp(f, at, << 240 >>, << 16 * v >>)

(* What MPLS carries has no type: the version of IP is looked at behind    *)
(* the last label.                                                         *)
BottomBit == 1
JustAfterMplsStack(st, f) == HasBits(f, Label(st, f) + 2, BottomBit)
MplsPayload(st, proto, f) ==
  And3(JustAfterMplsStack(st, f), IpVersion(st, Net(st, f), IF proto = IP THEN 4 ELSE 6, f))

(* IEEE 802.2 behind a length, or a type. *)
EtherMTU == 1500
HasLength(st, f) == Not3(HalfAbove(f, LinkT(st, f), EtherMTU))
BothSaps(st, proto, f) == Cmp(f, Payload(st, f), << proto, proto >>)
EtherType(st, proto, f) == Cmp(f, LinkT(st, f), Half(proto))
SapPair(st, proto, f) == And3(HasLength(st, f), BothSaps(st, proto, f))
IpxSaps(st, f) ==
  Or3(Cmp(f, Payload(st, f), << IPX >>), Cmp(f, Payload(st, f), << 255, 255 >>))
IpxSnap(st, f) == Or3(BCmp(f, Payload(st, f), Snap(NoOrg, IpxType)), IpxSaps(st, f))
EtherIpxLength(st, f) == And3(HasLength(st, f), IpxSnap(st, f))
EtherIpx(st, f) == Or3(EtherType(st, IpxType, f), EtherIpxLength(st, f))
AppleSnap(st, proto, f) == And3(HasLength(st, f), BCmp(f, Payload(st, f), SnapOf(proto)))
AppleType(st, proto, f) == Or3(EtherType(st, proto, f), AppleSnap(st, proto, f))
OneSap(st, proto, f) == And3(HasLength(st, f), Cmp(f, LinkT(st, f) + 2, << proto >>))

EtherLinkType(st, proto, f) ==
  IF proto \in {ISO, SapIP, NETBEUI} THEN SapPair(st, proto, f)
  ELSE IF proto = IPX THEN EtherIpx(st, f)
  ELSE IF proto \in {ATALK, AARP} THEN AppleType(st, proto, f)
  ELSE IF proto <= EtherMTU THEN OneSap(st, proto, f)
  ELSE EtherType(st, proto, f)

(* A link layer that always carries IEEE 802.2. *)
LLCLinkType(st, proto, f) ==
  IF proto \in {ISO, SapIP, NETBEUI} THEN BothSaps(st, proto, f)
  ELSE IF proto = IPX THEN Cmp(f, Payload(st, f), << IPX >>)
  ELSE IF proto = ATALK THEN BCmp(f, Payload(st, f), SnapOf(ATALK))
  ELSE IF proto <= EtherMTU THEN Cmp(f, Payload(st, f), << proto >>)
  ELSE Cmp(f, Payload(st, f) + 6, Half(proto))

DataFrame(st, f) == MCmp(f, Link(st, f), << 12 >>, << DataBit >>)
WlanLinkType(st, proto, f) == And3(DataFrame(st, f), LLCLinkType(st, proto, f))

(* Linux cooked captures: two of the types are not Ethernet types. *)
Sll8022 == 4
Sll8023 == 1
Is8022(st, f) == Cmp(f, LinkT(st, f), Half(Sll8022))
SllSapPair(st, proto, f) == And3(Is8022(st, f), BothSaps(st, proto, f))
SllIpxLLC(st, f) ==
  Or3(Cmp(f, Payload(st, f), << IPX >>), BCmp(f, Payload(st, f), Snap(NoOrg, IpxType)))
SllIpx8022(st, f) == And3(Is8022(st, f), SllIpxLLC(st, f))
SllIpxRaw(st, f) == Or3(Cmp(f, LinkT(st, f), Half(Sll8023)), SllIpx8022(st, f))
SllIpx(st, f) == Or3(EtherType(st, IpxType, f), SllIpxRaw(st, f))
SllSnap(st, proto, f) == And3(Is8022(st, f), BCmp(f, Payload(st, f), SnapOf(proto)))
SllApple(st, proto, f) == Or3(EtherType(st, proto, f), SllSnap(st, proto, f))
SllSap(st, proto, f) == And3(Is8022(st, f), Cmp(f, Payload(st, f), << proto >>))

LinuxSllLinkType(st, proto, f) ==
  IF proto \in {ISO, SapIP, NETBEUI} THEN SllSapPair(st, proto, f)
  ELSE IF proto = IPX THEN SllIpx(st, f)
  ELSE IF proto \in {ATALK, AARP} THEN SllApple(st, proto, f)
  ELSE IF proto <= EtherMTU THEN SllSap(st, proto, f)
  ELSE EtherType(st, proto, f)

(* PPP has numbers of its own. *)
EthertypeToPppType(proto) ==
  CASE proto = IP -> 33 [] proto = IPV6 -> 87 [] proto = DECNET -> 39
    [] proto = ATALK -> 41 [] proto = ISO -> 35 [] proto = STP -> 49
    [] proto = IPX -> 43 [] OTHER -> proto
PppLinkType(st, proto, f) == Cmp(f, LinkT(st, f), Half(EthertypeToPppType(proto)))

HdlcISO == 65278
HdlcLinkType(st, proto, f) ==
  Cmp(f, LinkT(st, f), Half(IF proto = ISO THEN HdlcISO ELSE proto))

(* Nothing in front: the packet is IP. *)
RawLinkType(st, proto, f) ==
  CASE proto = IP -> IpVersion(st, Link(st, f), 4, f)
    [] proto = IPV6 -> IpVersion(st, Link(st, f), 6, f)
    [] OTHER -> "no"

(* Behind MPLS only IP can be told. *)
LinkTypeAllowed(st, proto) == st.mpls = 0 \/ proto \in {IP, IPV6}

LinkType(st, proto, f) ==
  CASE st.mpls > 0 -> MplsPayload(st, proto, f)
    [] st.mpls = 0 /\ st.link = "EN10MB" -> EtherLinkType(st, proto, f)
    [] st.mpls = 0 /\ st.link = "IEEE802_11" -> WlanLinkType(st, proto, f)
    [] st.mpls = 0 /\ st.link = "LINUX_SLL" -> LinuxSllLinkType(st, proto, f)
    [] st.mpls = 0 /\ st.link = "C_HDLC" -> HdlcLinkType(st, proto, f)
    [] st.mpls = 0 /\ st.link = "PPP" -> PppLinkType(st, proto, f)
    [] st.mpls = 0 /\ st.link = "RAW" -> RawLinkType(st, proto, f)
=============================================================================
