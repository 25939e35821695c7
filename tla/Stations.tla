----------------------------- MODULE Stations -----------------------------
(***************************************************************************)
(* Tests of link-layer addresses and headers: hosts, broadcast and         *)
(* multicast, 802.11 addresses, types and directions, LLC, and DECnet hosts*)
(* (gen_mac48host, gen_wlanhostop, gen_broadcast, gen_multicast, gen_llc   *)
(* and their variants, gen_p80211_..., gen_dnhostop in internal/bpf.go).   *)
(***************************************************************************)
EXTENDS Network

(* The frame control of 802.11. *)
ToDsBit == 1
FromDsBit == 2
Control(st, f) == HasBits(f, Link(st, f), CtlBit)
Data(st, f)    == HasBits(f, Link(st, f), DataBit)
ToDs(st, f)    == HasBits(f, Link(st, f) + 1, ToDsBit)
FromDs(st, f)  == HasBits(f, Link(st, f) + 1, FromDsBit)
P80211Type(st, v, mask, f) == MCmp(f, Link(st, f), << mask >>, << v >>)
P80211FcDir(st, v, f) == MCmp(f, Link(st, f) + 1, << 3 >>, << v >>)

WlanAt(st, at, a, f) == BCmp(f, Link(st, f) + at, a)

(* The source: which address it is depends on the way the frame goes. *)
SrcToBoth(st, a, f)  == And3(ToDs(st, f), WlanAt(st, 24, a, f))
SrcFromDs(st, a, f)  == And3(Not3(ToDs(st, f)), WlanAt(st, 16, a, f))
SrcBehindDs(st, a, f) == Or3(SrcFromDs(st, a, f), SrcToBoth(st, a, f))
SrcDs(st, a, f)      == And3(FromDs(st, f), SrcBehindDs(st, a, f))
SrcOnAir(st, a, f)   == And3(Not3(FromDs(st, f)), WlanAt(st, 10, a, f))
SrcAnyWay(st, a, f)  == Or3(SrcOnAir(st, a, f), SrcDs(st, a, f))
SrcData(st, a, f)    == And3(Data(st, f), SrcAnyWay(st, a, f))
SrcManaged(st, a, f) == And3(Not3(Data(st, f)), WlanAt(st, 10, a, f))
SrcKnown(st, a, f)   == Or3(SrcManaged(st, a, f), SrcData(st, a, f))
WlanSrc(st, a, f)    == And3(Not3(Control(st, f)), SrcKnown(st, a, f))

(* The destination. *)
DstToDs(st, a, f)    == And3(ToDs(st, f), WlanAt(st, 16, a, f))
DstOnAir(st, a, f)   == And3(Not3(ToDs(st, f)), WlanAt(st, 4, a, f))
DstAnyWay(st, a, f)  == Or3(DstOnAir(st, a, f), DstToDs(st, a, f))
DstData(st, a, f)    == And3(Data(st, f), DstAnyWay(st, a, f))
DstManaged(st, a, f) == And3(Not3(Data(st, f)), WlanAt(st, 4, a, f))
DstKnown(st, a, f)   == Or3(DstManaged(st, a, f), DstData(st, a, f))
WlanDst(st, a, f)    == And3(Not3(Control(st, f)), DstKnown(st, a, f))

(* The addresses by number.  CTS and ACK have only the first. *)
CtlType == 4
CtsType == 192
AckType == 208
NotControl(st, f) == Not3(P80211Type(st, CtlType, 12, f))
NotCts(st, f) == Not3(P80211Type(st, CtsType, 240, f))
NotAck(st, f) == Not3(P80211Type(st, AckType, 240, f))
NeitherAnswer(st, f)  == And3(NotCts(st, f), NotAck(st, f))
HasAddr2(st, f)       == Or3(NotControl(st, f), NeitherAnswer(st, f))
Addr1(st, a, f) == WlanAt(st, 4, a, f)
Addr2(st, a, f) == And3(HasAddr2(st, f), WlanAt(st, 10, a, f))
Addr3(st, a, f) == And3(NotControl(st, f), WlanAt(st, 16, a, f))
Addr4(st, a, f) == And3(P80211FcDir(st, 3, f), WlanAt(st, 24, a, f))
RecvAddr(st, a, f) == And3(Data(st, f), WlanAt(st, 4, a, f))
SendAddr(st, a, f) == And3(And3(Data(st, f), HasAddr2(st, f)), WlanAt(st, 10, a, f))

WlanHostOp(st, p, f) ==
  CASE p.dir \in {"src", "dst", "and", "or"} ->
         Direction(p.dir, WlanSrc(st, p.addr, f), WlanDst(st, p.addr, f))
    [] p.dir = "addr1" -> Addr1(st, p.addr, f) [] p.dir = "addr2" -> Addr2(st, p.addr, f)
    [] p.dir = "addr3" -> Addr3(st, p.addr, f) [] p.dir = "addr4" -> Addr4(st, p.addr, f)
    [] p.dir = "ra" -> RecvAddr(st, p.addr, f) [] p.dir = "ta" -> SendAddr(st, p.addr, f)

-----------------------------------------------------------------------------
(* Stations of Ethernet. *)
EtherAddress(st, p, f) ==
  Direction(p.dir, BCmp(f, Link(st, f) + 6, p.addr), BCmp(f, Link(st, f), p.addr))
(* Mutant: what Geneve carries is taken for Ethernet. *)
EtherHostUnchecked(st, p, f) == EtherAddress(st, p, f)

EtherHost(st, p, f) == And3(PrevLinkHdrCheck(st, f), EtherAddress(st, p, f))

Mac48Allowed(st) == st.link \in {"EN10MB", "IEEE802_11"}
Mac48Host(st, p, f) ==
  IF st.link = "IEEE802_11" THEN WlanHostOp(st, p, f) ELSE EtherHost(st, p, f)

BroadcastAddr == << 255, 255, 255, 255, 255, 255 >>
(* The host part is all ones or, as once was the custom, all zeros. *)
HostAllOnes(st, mask, f)  == MCmp(f, Net(st, f) + 16, mask, mask)
HostAllZeros(st, mask, f) == MCmp(f, Net(st, f) + 16, mask, Zeros(4))
HostPart(st, mask, f) == Or3(HostAllZeros(st, mask, f), HostAllOnes(st, mask, f))
IpBroadcast(st, mask, f) == And3(LinkType(st, IP, f), HostPart(st, mask, f))
Broadcast(st, family, hostmask, f) ==
  IF family = "ip" THEN IpBroadcast(st, hostmask, f)
  ELSE Mac48Host(st, [dir |-> "dst", addr |-> BroadcastAddr], f)

(* Group addresses. *)
MacMulticast(st, at, f) == HasBits(f, Link(st, f) + at, 1)
EtherMulticast(st, f) == And3(PrevLinkHdrCheck(st, f), MacMulticast(st, 0, f))
McToDs(st, f)    == And3(ToDs(st, f), MacMulticast(st, 16, f))
McOnAir(st, f)   == And3(Not3(ToDs(st, f)), MacMulticast(st, 4, f))
McAnyWay(st, f)  == Or3(McOnAir(st, f), McToDs(st, f))
McData(st, f)    == And3(Data(st, f), McAnyWay(st, f))
McManaged(st, f) == And3(Not3(Data(st, f)), MacMulticast(st, 4, f))
McKnown(st, f)   == Or3(McManaged(st, f), McData(st, f))
WlanMulticast(st, f) == And3(Not3(Control(st, f)), McKnown(st, f))
IpMulticast(st, f) ==
  And3(LinkType(st, IP, f), MCmp(f, Net(st, f) + 16, << 240 >>, << 224 >>))
Ip6Multicast(st, f) == And3(LinkType(st, IPV6, f), Cmp(f, Net(st, f) + 24, << 255 >>))
Multicast(st, family, f) ==
  CASE family = "ip" -> IpMulticast(st, f) [] family = "ip6" -> Ip6Multicast(st, f)
    [] family = "link" -> IF st.link = "IEEE802_11" THEN WlanMulticast(st, f)
                          ELSE EtherMulticast(st, f)

-----------------------------------------------------------------------------
(* IEEE 802.2: Ethernet carries it behind a length, unless it is IPX's way; *)
(* 802.11 in data frames.                                                  *)
NotNovell(st, f) == Not3(Cmp(f, Payload(st, f), << 255, 255 >>))
EtherLlc(st, f) == And3(HasLength(st, f), NotNovell(st, f))
Llc(st, f) ==
  IF st.link = "IEEE802_11" THEN DataFrame(st, f) ELSE EtherLlc(st, f)
ControlAt(st, f) == Payload(st, f) + 2
ControlIs(st, mask, v, f) == MCmp(f, ControlAt(st, f), << mask >>, << v >>)
LlcI(st, f) == ControlIs(st, 1, 0, f)
LlcS(st, f) == ControlIs(st, 3, 1, f)
LlcU(st, f) == ControlIs(st, 3, 3, f)
LlcSSubtype(st, v, f) == ControlIs(st, 15, v, f)
LlcUSubtype(st, v, f) == ControlIs(st, 239, v, f)
LlcTest(st, p, f) ==
  And3(Llc(st, f),
       CASE p.kind = "llc" -> "yes" [] p.kind = "i" -> LlcI(st, f)
         [] p.kind = "s" -> LlcS(st, f) [] p.kind = "u" -> LlcU(st, f)
         [] p.kind = "s_sub" -> LlcSSubtype(st, p.v, f)
         [] p.kind = "u_sub" -> LlcUSubtype(st, p.v, f))

-----------------------------------------------------------------------------
(* DECnet hosts: long and short headers, each with and without a byte of   *)
(* padding before the flags; addresses have their low byte first.          *)
PadByte == 129
LongFlag == 6
ShortFlag == 2
DnPadLong(st, at, a, f) ==
  And3(MCmp(f, Payload(st, f) + 2, << 255, 7 >>, << PadByte, LongFlag >>),
       Cmp(f, Payload(st, f) + 3 + at, a))
DnLong(st, at, a, f) ==
  And3(MCmp(f, Payload(st, f) + 2, << 7 >>, << LongFlag >>), Cmp(f, Payload(st, f) + 2 + at, a))
DnPadShort(st, at, a, f) ==
  And3(MCmp(f, Payload(st, f) + 2, << 255, 7 >>, << PadByte, ShortFlag >>),
       Cmp(f, Payload(st, f) + 3 + at, a))
DnPadShortDst(st, a, f) ==
  MCmp(f, Payload(st, f) + 2, << 255, 7, 255, 255 >>, << PadByte, ShortFlag >> \o a)
DnShort(st, at, a, f) ==
  And3(MCmp(f, Payload(st, f) + 2, << 7 >>, << ShortFlag >>), Cmp(f, Payload(st, f) + 2 + at, a))
DnShortDst(st, a, f) ==
  MCmp(f, Payload(st, f) + 2, << 7, 255, 255, 0 >>, << ShortFlag >> \o a \o << 0 >>)

DnAnyLong(st, at, a, f) == Or3(DnLong(st, at, a, f), DnPadLong(st, at, a, f))
DnOrPadShort(st, dir, a, f) ==
  IF dir = "dst" THEN Or3(DnPadShortDst(st, a, f), DnAnyLong(st, 7, a, f))
  ELSE Or3(DnPadShort(st, 3, a, f), DnAnyLong(st, 15, a, f))
DnAddress(st, dir, a, f) ==
  IF dir = "dst" THEN Or3(DnShortDst(st, a, f), DnOrPadShort(st, "dst", a, f))
  ELSE Or3(DnShort(st, 3, a, f), DnOrPadShort(st, "src", a, f))
DnHostOp(st, p, f) ==
  Direction(p.dir, DnAddress(st, "src", p.addr, f), DnAddress(st, "dst", p.addr, f))
DecnetHost(st, p, f) == And3(LinkType(st, DECNET, f), DnHostOp(st, p, f))
=============================================================================
