--------------------------- MODULE Encapsulation ---------------------------
(***************************************************************************)
(* Primitives that move the offsets: what comes after "vlan", "mpls",      *)
(* "pppoes", "geneve" or "vxlan" in an expression is about what these      *)
(* carry (gen_vlan, gen_mpls, gen_pppoes, gen_geneve and gen_vxlan in      *)
(* internal/bpf.go).  Each has a test and a new compiler state.  An        *)
(* identifier is NoId when the expression gives none.                       *)
(***************************************************************************)
EXTENDS Stations

NoId == -1

-----------------------------------------------------------------------------
(* A tag is four bytes: its type was the link layer's, the next one stands *)
(* behind it.                                                              *)
QinQ == 34984
OldQinQ == 37120
VlanAllowed(st) == st.mpls = 0 /\ st.link \in {"EN10MB", "IEEE802_11"}
VlanTypes == << VLAN, QinQ, OldQinQ >>
VlanType(st, f) == Any3([i \in DOMAIN VlanTypes |-> LinkType(st, VlanTypes[i], f)])
VlanId(st, id, f) == MCmp(f, Net(st, f), << 15, 255 >>, Half(id))
WithId(id, type, same) == IF id = NoId THEN type ELSE And3(type, same)
Vlan(st, id, f) == WithId(id, VlanType(st, f), VlanId(st, id, f))
PastTag(st) ==
  [st EXCEPT !.pl = @ + 4, !.type = @ + 4, !.vlan = @ + 1]

(* Labels are stacked: one follows the other until one has the bottom bit. *)
PppMpls == 641
MplsAllowed(st) == st.mpls > 0 \/ st.link \in {"EN10MB", "C_HDLC", "PPP"}
MplsType(st, f) ==
  IF st.mpls > 0 THEN Not3(JustAfterMplsStack(st, f))
  ELSE LinkType(st, IF st.link = "PPP" THEN PppMpls ELSE MPLS, f)
MplsLabel(st, id, f) ==
  MCmp(f, Net(st, f), << 255, 255, 240, 0 >>, Three(id * 16) \o << 0 >>)
Mpls(st, id, f) == WithId(id, MplsType(st, f), MplsLabel(st, id, f))
PastLabel(st) == [st EXCEPT !.nl = @ + 4, !.nosnap = @ + 4, !.mpls = @ + 1]

(* A PPPoE session: two bytes of PPP protocol behind six of header. *)
PppoesSession(st, id, f) == Cmp(f, Net(st, f) + 2, Half(id))
Pppoes(st, id, f) == WithId(id, LinkType(st, PPPOES, f), PppoesSession(st, id, f))
PppoesOffsets(st, at) ==
  [st EXCEPT !.link = "PPP", !.encap = FALSE, !.hdr = at, !.type = at,
             !.pl = at + 2, !.nl = 0, !.nosnap = 0]
IntoPppoes(st) == PppoesOffsets(st, st.pl + st.nl + 6)

-----------------------------------------------------------------------------
(* Geneve and VXLAN are carried by UDP, over either version of IP.         *)
GenevePort == 6081
VxlanPort == 4789
ToUdpPort(port) == [dir |-> "dst", ipproto |-> UDP, lo |-> port, hi |-> port]

VersionZero(f, at) == MCmp(f, at + 8, << 192 >>, << 0 >>)
Vni(f, at, id) == MCmp(f, at + 12, << 255, 255, 255, 0 >>, Three(id) \o << 0 >>)
GeneveCheck(f, port, at, id) == WithId(id, And3(port, VersionZero(f, at)), Vni(f, at, id))
Geneve4(st, id, f) == GeneveCheck(f, Port(st, ToUdpPort(GenevePort), f), Tran4(st, f), id)
Geneve6(st, id, f) == GeneveCheck(f, Port6(st, ToUdpPort(GenevePort), f), Tran6(st, f), id)
GeneveEither(st, id, f) == Or3(Geneve4(st, id, f), Geneve6(st, id, f))

FlagsByte == 8
VxlanFlags(f, at) == Cmp(f, at + 8, << FlagsByte >>)
VxlanCheck(f, port, at, id) == WithId(id, And3(port, VxlanFlags(f, at)), Vni(f, at, id))
Vxlan4(st, id, f) == VxlanCheck(f, Port(st, ToUdpPort(VxlanPort), f), Tran4(st, f), id)
Vxlan6(st, id, f) == VxlanCheck(f, Port6(st, ToUdpPort(VxlanPort), f), Tran6(st, f), id)
VxlanEither(st, id, f) == Or3(Vxlan4(st, id, f), Vxlan6(st, id, f))

(* The block for the version of IP that is there leaves the header's place *)
(* behind, in a register.                                                  *)
HeaderAt(st, v4, v6, f) ==
  (CASE v4 = "yes" -> Tran4(st, f) [] v4 # "yes" /\ v6 = "yes" -> Tran6(st, f)
     [] OTHER -> Beyond) + 8
GeneveAt(st, f) == HeaderAt(st, Geneve4(st, NoId, f), Geneve6(st, NoId, f), f)
VxlanAt(st, f)  == HeaderAt(st, Vxlan4(st, NoId, f), Vxlan6(st, NoId, f), f)

(* What Geneve carries is Ethernet, or something without a link layer whose *)
(* type is in the header; options make the header longer.                  *)
EtherInside == 25944
(* Mutant: options are not skipped. *)
GeneveLinkPlain(at, f) == at + 8

GeneveLink(at, f) == IF Clipped(f, at, 1) THEN Beyond ELSE at + 8 + 4 * (ByteOf(f, at) % 64)
CarriesEther(at, f) == Cmp(f, at + 2, Half(EtherInside)) = "yes"
GeneveType(at, f) == IF CarriesEther(at, f) THEN GeneveLink(at, f) + 12 ELSE at + 2
GenevePayload(at, f) == GeneveLink(at, f) + (IF CarriesEther(at, f) THEN 14 ELSE 0)

GeneveOffsets(st, at, f) ==
  [st EXCEPT !.link = "EN10MB", !.encap = TRUE, !.nl = 0, !.hdr = GeneveLink(at, f),
             !.type = GeneveType(at, f), !.pl = GenevePayload(at, f)]
IntoGeneve(st, f) == GeneveOffsets(st, GeneveAt(st, f), f)

VxlanLink(st, f) == VxlanAt(st, f) + 8
VxlanOffsets(st, at) ==
  [st EXCEPT !.link = "EN10MB", !.encap = TRUE, !.nl = 0, !.hdr = at,
             !.type = at + 12, !.pl = at + 14]
IntoVxlan(st, f) == VxlanOffsets(st, VxlanLink(st, f))
=============================================================================
