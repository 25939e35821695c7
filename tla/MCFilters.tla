----------------------------- MODULE MCFilters -----------------------------
EXTENDS Filters
LOCAL INSTANCE Bitwise

MCBitAnd == [a \in Octet |-> [m \in Octet |-> a & m]]

MacA == << 2, 0, 0, 0, 0, 10 >>
MacB == << 2, 0, 0, 0, 0, 11 >>
MacC == << 2, 0, 0, 0, 1, 10 >>
MacD == << 2, 0, 0, 0, 0, 13 >>
MacLikeIp == << 69, 0, 0, 0, 0, 0 >>        \* as an IPv4 header begins
MacGroup == << 1, 0, 94, 0, 0, 1 >>
Ip4A == << 10, 1, 2, 3 >>
Ip4B == << 10, 1, 3, 3 >>
Ip4All == << 10, 1, 3, 255 >>
Ip4Group == << 224, 0, 0, 1 >>
Ip6A == << 32, 1, 0, 0, 0, 0, 0, 0, 0, 0, 0, 0, 0, 0, 0, 10 >>
Ip6B == << 32, 1, 0, 0, 0, 0, 0, 0, 0, 0, 0, 1, 0, 0, 0, 10 >>
Mapped == Zeros(10) \o << 255, 255 >> \o Ip4A      \* Ip4A in its IPv6 form
Ip6Group == << 255, 2, 0, 0, 0, 0, 0, 0, 0, 0, 0, 0, 0, 0, 0, 1 >>
DnA == << 1, 4 >>
DnB == << 2, 4 >>

Eth(src, dst) == [l |-> "eth", src |-> src, dst |-> dst]
EthAB == Eth(MacA, MacB)
EthBA == Eth(MacB, MacA)
VlanTag(id) == [l |-> "vlan", tpid |-> 33024, id |-> id]
QinQTag(id) == [l |-> "vlan", tpid |-> 34984, id |-> id]
MplsTag(id) == [l |-> "mpls", id |-> id]
Ip4(src, dst, opts, frag) ==
  [l |-> "ip", src |-> src, dst |-> dst, opts |-> opts, frag |-> frag]
IpAB == Ip4(Ip4A, Ip4B, 0, 0)
Ip6(src, dst) == [l |-> "ip6", src |-> src, dst |-> dst]
Frag6 == [l |-> "frag6"]
Udp(s, d) == [l |-> "udp", sport |-> s, dport |-> d]
Tcp(s, d) == [l |-> "tcp", sport |-> s, dport |-> d]
Sctp(s, d) == [l |-> "sctp", sport |-> s, dport |-> d]
Over(proto) == [l |-> "data", proto |-> proto, etype |-> 0, size |-> 8]
Typed(etype) == [l |-> "data", etype |-> etype, proto |-> 0, size |-> 10]
Sap(sap, ctl) == [l |-> "sap", sap |-> sap, ctl |-> ctl]
SnapTo(org) == [l |-> "snap", org |-> org]
Novell == [l |-> "novell"]
Osi(nlpid, pdu) == [l |-> "osi", nlpid |-> nlpid, pdu |-> pdu]
Geneve(id, opts) == [l |-> "geneve", id |-> id, opts |-> opts]
Vxlan(id) == [l |-> "vxlan", id |-> id]
Pppoe(id) == << [l |-> "pppoe", id |-> id], [l |-> "ppp"] >>
Dn(long, pad, src, dst) ==
  [l |-> "decnet", long |-> long, pad |-> pad, src |-> src, dst |-> dst]
ArpLayer(name, src, dst) == [l |-> name, src |-> src, dst |-> dst]
Pad == [l |-> "data", etype |-> 0, proto |-> 0, size |-> 12]

Wlan(kind, sub, to, from, a) ==
  [l |-> "wlan", kind |-> kind, sub |-> sub, to |-> to, from |-> from, a |-> a]
ABC == << MacA, MacB, MacC >>
IpInWlan == << SnapTo(NoOrg), IpAB, Udp(53, 80) >>

EthFrames ==
  << << EthAB, IpAB, Tcp(80, 1000) >>,
     << EthBA, Ip4(Ip4B, Ip4A, 1, 0), Udp(1000, 80) >>,
     << Eth(MacA, BroadcastAddr), Ip4(Ip4A, Ip4All, 0, 0), Sctp(53, 53) >>,
     << Eth(MacC, MacGroup), Ip4(Ip4A, Ip4Group, 0, 100), Tcp(80, 80) >>,
     << EthAB, Ip4(Ip4A, Ip4A, 0, 8192), Tcp(80, 80) >>,
     << EthAB, IpAB, Over(1) >>,
     << EthAB, IpAB, Over(112) >>,
     << EthAB, Ip6(Ip6A, Ip6B), Tcp(1000, 80) >>,
     << EthAB, Ip6(Ip6B, Ip6Group), Frag6, Udp(80, 53) >>,
     << EthAB, Ip6(Ip6A, Ip6A), Over(58) >>,
     << EthAB, Ip6(Mapped, Ip6B), Udp(53, 80) >>,
     << EthAB, ArpLayer("arp", Ip4A, Ip4B) >>,
     << EthAB, ArpLayer("rarp", Ip4B, Ip4A) >>,
     << EthAB, Typed(ATALK) >>,
     << EthAB, SnapTo(Apple), Typed(ATALK) >>,
     << EthAB, SnapTo(NoOrg), Typed(AARP) >>,
     << EthAB, Sap(ISO, << 3 >>), Osi(129, 0), Pad >>,
     << EthAB, Sap(ISO, << 3 >>), Osi(ISIS, 15), Pad >>,
     << EthAB, Sap(ISO, << 3 >>), Osi(ISIS, 27), Pad >>,
     << EthAB, Sap(STP, << 3 >>), Pad >>,
     << EthAB, Sap(NETBEUI, << 5, 0 >>), Pad >>,
     << EthAB, Sap(IPX, << 0, 0 >>), Pad >>,
     << EthAB, SnapTo(NoOrg), Typed(IpxType) >>,
     << EthAB, Typed(IpxType) >>,
     << EthAB, Novell >>,
     << EthAB, Dn(TRUE, FALSE, DnA, DnB) >>,
     << EthAB, Dn(TRUE, TRUE, DnB, DnA) >>,
     << EthAB, Dn(FALSE, FALSE, DnA, DnB) >>,
     << EthAB, Dn(FALSE, TRUE, DnB, DnB) >>,
     << EthAB, Typed(PPPOED) >>,
     << EthAB, VlanTag(5), IpAB, Tcp(80, 1000) >>,
     << EthAB, VlanTag(5), Sap(ISO, << 3 >>), Osi(ISIS, 18), Pad >>,
     << EthBA, QinQTag(6), VlanTag(5), Ip6(Ip6A, Ip6B), Udp(80, 53) >>,
     << EthAB, MplsTag(70000), IpAB, Udp(1000, 80) >>,
     << EthAB, MplsTag(7), MplsTag(70000), Ip6(Ip6B, Ip6A), Tcp(80, 53) >>,
     << EthAB, VlanTag(6), MplsTag(7), Ip4(Ip4B, Ip4A, 1, 0), Tcp(53, 80) >>,
     << EthAB >> \o Pppoe(9) \o << IpAB, Tcp(80, 53) >>,
     << EthAB, VlanTag(5) >> \o Pppoe(8) \o << Ip6(Ip6A, Ip6B), Udp(53, 80) >>,
     << EthAB >> \o Pppoe(9) \o << MplsTag(7), Ip4(Ip4B, Ip4B, 0, 0), Tcp(80, 80) >>,
     << EthAB, IpAB, Udp(5000, GenevePort), Geneve(3, 0), EthBA, Ip4(Ip4B, Ip4A, 0, 0),
        Tcp(80, 53) >>,
     << EthAB, Ip6(Ip6A, Ip6B), Udp(5000, GenevePort), Geneve(4, 2), EthBA, VlanTag(5),
        Ip6(Ip6B, Ip6A), Udp(53, 53) >>,
     << EthAB, Ip4(Ip4A, Ip4B, 2, 0), Udp(5000, GenevePort), Geneve(4, 1), Ip4(Ip4B, Ip4B, 0, 0),
        Udp(53, 80) >>,
     << EthAB, IpAB, Udp(5000, VxlanPort), Vxlan(3), EthBA, ArpLayer("arp", Ip4B, Ip4A) >>,
     << EthAB, VlanTag(5), Ip6(Ip6A, Ip6B), Udp(5000, VxlanPort), Vxlan(4), EthBA, MplsTag(7),
        IpAB, Tcp(80, 80) >> >>

OtherFrames ==
  << [link |-> "RAW", layers |-> << Ip4(Ip4A, Ip4B, 1, 0), Tcp(80, 53) >>],
     [link |-> "RAW", layers |-> << Ip6(Ip6A, Ip6B), Udp(53, 80) >>],
     [link |-> "RAW", layers |-> << IpAB, Udp(80, GenevePort), Geneve(3, 1), EthAB, IpAB,
                                    Tcp(80, 53) >>],
     [link |-> "LINUX_SLL", layers |-> << [l |-> "sll"], IpAB, Tcp(80, 53) >>],
     [link |-> "LINUX_SLL", layers |-> << [l |-> "sll"], ArpLayer("arp", Ip4A, Ip4B) >>],
     [link |-> "LINUX_SLL", layers |-> << [l |-> "sll"], Sap(STP, << 3 >>), Pad >>],
     [link |-> "LINUX_SLL", layers |-> << [l |-> "sll"], Sap(NETBEUI, << 3 >>), Pad >>],
     [link |-> "LINUX_SLL", layers |-> << [l |-> "sll"], Sap(IPX, << 3 >>), Pad >>],
     [link |-> "LINUX_SLL", layers |-> << [l |-> "sll"], SnapTo(NoOrg), Typed(IpxType) >>],
     [link |-> "LINUX_SLL", layers |-> << [l |-> "sll"], Novell >>],
     [link |-> "LINUX_SLL", layers |-> << [l |-> "sll"], Typed(IpxType) >>],
     [link |-> "LINUX_SLL", layers |-> << [l |-> "sll"], SnapTo(Apple), Typed(ATALK) >>],
     [link |-> "LINUX_SLL", layers |-> << [l |-> "sll"], Typed(AARP) >>],
     [link |-> "LINUX_SLL", layers |-> << [l |-> "sll"] >> \o Pppoe(9) \o << IpAB, Over(1) >>],
     [link |-> "C_HDLC", layers |-> << [l |-> "hdlc"], IpAB, Tcp(80, 53) >>],
     [link |-> "C_HDLC", layers |-> << [l |-> "hdlc"], Osi(ISIS, 16), Pad >>],
     [link |-> "C_HDLC", layers |-> << [l |-> "hdlc"], Osi(130, 0), Pad >>],
     [link |-> "C_HDLC", layers |-> << [l |-> "hdlc"], MplsTag(7), Ip6(Ip6A, Ip6B), Over(58) >>],
     [link |-> "IEEE802_11", layers |-> << Wlan("data", 0, FALSE, FALSE, ABC) >> \o IpInWlan],
     [link |-> "IEEE802_11", layers |-> << Wlan("data", 8, TRUE, FALSE, ABC) >> \o IpInWlan],
     [link |-> "IEEE802_11", layers |-> << Wlan("data", 0, FALSE, TRUE, ABC), SnapTo(NoOrg),
                                           ArpLayer("arp", Ip4A, Ip4B) >>],
     [link |-> "IEEE802_11", layers |-> << Wlan("data", 0, TRUE, TRUE,
                                                << MacA, MacB, MacC, MacD >>) >> \o IpInWlan],
     [link |-> "IEEE802_11", layers |-> << Wlan("data", 0, FALSE, TRUE, << MacGroup, MacB, MacA >>),
                                           Sap(STP, << 3 >>), Pad >>],
     [link |-> "IEEE802_11", layers |-> << Wlan("data", 0, TRUE, FALSE, << MacB, MacC, BroadcastAddr >>),
                                           Sap(ISO, << 3 >>), Osi(ISIS, 24), Pad >>],
     [link |-> "IEEE802_11", layers |-> << Wlan("data", 4, TRUE, FALSE, ABC) >>],
     [link |-> "IEEE802_11", layers |-> << Wlan("mgt", 8, FALSE, FALSE, << BroadcastAddr, MacA, MacB >>), Pad >>],
     [link |-> "IEEE802_11", layers |-> << Wlan("mgt", 4, FALSE, FALSE, << MacB, MacA, MacB >>), Pad >>],
     [link |-> "IEEE802_11", layers |-> << Wlan("ctl", 11, FALSE, FALSE, << MacA, MacB >>) >>],
     [link |-> "IEEE802_11", layers |-> << Wlan("ctl", 12, FALSE, FALSE, << MacA >>), Pad >>],
     [link |-> "IEEE802_11", layers |-> << Wlan("ctl", 13, FALSE, FALSE, << MacB >>), Pad >>],
     [link |-> "IEEE802_11", layers |-> << Wlan("data", 0, FALSE, FALSE, ABC), SnapTo(NoOrg), VlanTag(5),
                                           IpAB, Tcp(80, 53) >>] >>

(* The same frames cut short: in the addresses, in a tag or behind it, and *)
(* in the ports.                                                           *)
Clip(link, layers, n) == [link |-> link, layers |-> layers, cut |-> n]
Clippings ==
  << Clip("EN10MB", << EthAB, VlanTag(5), IpAB >>, 23),
     Clip("EN10MB", << EthAB, IpAB, Tcp(80, 1000) >>, 7),
     Clip("EN10MB", << EthAB, IpAB, Udp(1000, 80) >>, 12),
     Clip("EN10MB", << EthAB, MplsTag(7), IpAB >>, 22),
     Clip("EN10MB", << EthAB, Ip6(Ip6A, Ip6B) >>, 20),
     Clip("IEEE802_11", << Wlan("data", 0, FALSE, FALSE, ABC) >> \o IpInWlan, 50),
     Clip("RAW", << IpAB, Tcp(80, 53) >>, 16) >>

MCFrames ==
  [f \in DOMAIN EthFrames |-> [link |-> "EN10MB", layers |-> EthFrames[f], cut |-> 0]]
    \o [f \in DOMAIN OtherFrames |->
          [link |-> OtherFrames[f].link, layers |-> OtherFrames[f].layers, cut |-> 0]]
    \o Clippings

-----------------------------------------------------------------------------
Dirs == {"src", "dst", "and", "or"}
FullMask(n) == [i \in 1 .. n |-> 255]

MCNames ==
  {"ip", "ip6", "arp", "rarp", "tcp", "udp", "sctp", "icmp", "icmp6", "vrrp", "esp", "atalk", "aarp", "decnet",
   "iso", "clnp", "esis", "isis", "stp", "ipx", "netbeui",
   "l1", "l2", "iih", "lsp", "snp", "csnp", "psnp"}
Number(family, v) == [prim |-> "number", family |-> family, v |-> v]
MCNumbers ==
  {Number("default", 58), Number("ip", 17), Number("ip6", 6), Number("ip6", 17), Number("iso", 129), Number("isis", 18)}

HostTest(proto, dir, addr, mask) ==
  [prim |-> "host", proto |-> proto, dir |-> dir, addr |-> addr, mask |-> mask]
MCHosts ==
  {HostTest(proto, dir, Ip4A, FullMask(4)) : proto \in {"default", "ip", "arp", "rarp"}, dir \in Dirs}
    \cup {HostTest("default", "src", << 10, 1, 2, 0 >>, << 255, 255, 254, 0 >>),
          HostTest("default", "and", << 10, 1, 2, 0 >>, << 255, 255, 254, 0 >>),
          HostTest("default", "and", Zeros(4), Zeros(4))}
MCHosts6 ==
  {[prim |-> "host6", proto |-> "ip6", dir |-> dir, addr |-> Ip6A, mask |-> FullMask(16)] : dir \in Dirs}
    \cup {[prim |-> "host6", proto |-> "ip6", dir |-> dir, addr |-> SubSeq(Ip6A, 1, 8) \o Zeros(8),
           mask |-> FullMask(8) \o Zeros(8)] : dir \in {"src", "and"}}
PortTest(dir, ipproto, lo, hi) ==
  [prim |-> "port", dir |-> dir, ipproto |-> ipproto, lo |-> lo, hi |-> hi]
MCPorts ==
  {PortTest(dir, Undef, 80, 80) : dir \in Dirs}
    \cup {PortTest("dst", TCP, 80, 80), PortTest("or", UDP, 80, 80), PortTest("or", SCTP, 50, 53),
          PortTest("src", Undef, 53, 80), PortTest("and", Undef, 1000, 80)}
Station(dir, addr) == [prim |-> "station", dir |-> dir, addr |-> addr]
MCStations ==
  {Station(dir, MacA) : dir \in Dirs \cup {"addr1", "addr2", "addr3", "addr4", "ra", "ta"}}
    \cup {Station(dir, MacD) : dir \in {"src", "addr4"}}
    \cup {Station("or", MacB), Station("dst", MacC), Station("dst", MacLikeIp), Station("addr2", MacB)}
HostName(proto, dir, first, second) ==
  [prim |-> "named", proto |-> proto, dir |-> dir, first |-> first, second |-> second]
Everything == << Ip6B, Ip4A, Ip6A, Ip4B >>
MCNamedHosts ==
  {HostName(proto, "or", Everything, Everything) : proto \in {"default", "ip", "ip6", "arp"}}
    \cup {HostName("default", dir, << Ip4B >>, << Ip6A, Ip4A >>) : dir \in {"src", "dst"}}
    \cup {HostName("default", "src", Everything, << >>), HostName("default", "src", << >>, Everything),
          HostName("ip", "src", << >>, Everything), HostName("default", "or", << >>, << >>),
          HostName("default", "src", << Mapped >>, << Mapped >>)}
MCNamedStations == {Station("src", MacA), Station("or", MacB), Station("src", << 2, 0, 0, 0, 0, 10, 0, 0 >>)}
GatewayName(proto, addr, answer) ==
  [prim |-> "gateway", proto |-> proto, dir |-> "or", addr |-> addr, first |-> answer, second |-> << >>]
MCGateways ==
  {GatewayName("default", MacA, << Ip4A >>), GatewayName("default", MacB, << Ip6A, Ip4B, Ip4A >>),
   GatewayName("ip", MacB, << Ip4A >>), GatewayName("default", MacA, << Ip6A >>), GatewayName("default", << >>, << Ip4A >>)}
MCGroups ==
  {[prim |-> "multicast", family |-> family] : family \in {"link", "ip", "ip6"}}
    \cup {[prim |-> "broadcast", family |-> "link", mask |-> << >>],
          [prim |-> "broadcast", family |-> "ip", mask |-> << 0, 0, 0, 255 >>]}
LlcKind(kind, v) == [prim |-> "llc", kind |-> kind, v |-> v]
MCLlc ==
  {LlcKind("llc", 0), LlcKind("i", 0), LlcKind("s", 0), LlcKind("u", 0), LlcKind("s_sub", 5), LlcKind("s_sub", 1), LlcKind("u_sub", 3)}
MCWlan ==
  {[prim |-> "type", v |-> v, mask |-> 12] : v \in {0, 4, 8}}
    \cup {[prim |-> "type", v |-> 128, mask |-> 252], [prim |-> "type", v |-> 192, mask |-> 240]}
    \cup {[prim |-> "way", v |-> v] : v \in 0 .. 3}
MCDecnet == {[prim |-> "decnet", proto |-> "decnet", dir |-> dir, addr |-> DnB, mask |-> FullMask(2)] : dir \in Dirs}
MCIds ==
  [vlan |-> {NoId, 5, 0}, mpls |-> {NoId, 7, 70000}, pppoes |-> {NoId, 9}, geneve |-> {NoId, 4},
   vxlan |-> {NoId, 4}]
=============================================================================
