------------------------------ MODULE Network ------------------------------
(***************************************************************************)
(* Tests of what the link layer carries: protocols, hosts and nets, ports  *)
(* (gen_proto, gen_proto_abbrev, gen_host, gen_host6, gen_port and         *)
(* gen_portrange with their parts, internal/bpf.go).                       *)
(***************************************************************************)
EXTENDS LinkLayer

-----------------------------------------------------------------------------
(* Protocols. *)
ICMP == 1
TCP == 6
UDP == 17
ICMP6 == 58
SCTP == 132
FRAGMENT == 44

IpProto(st, v, f)  == Cmp(f, Net(st, f) + 9, << v >>)
Ip6Proto(st, v, f) == Cmp(f, Net(st, f) + 6, << v >>)
ProtoOfIp(st, v, f) == And3(LinkType(st, IP, f), IpProto(st, v, f))
(* An IPv6 packet may have a fragment header before the protocol. *)
BehindFragment(st, v, f) ==
  And3(Ip6Proto(st, FRAGMENT, f), Cmp(f, Net(st, f) + 40, << v >>))
AnyIp6Proto(st, v, f) == Or3(Ip6Proto(st, v, f), BehindFragment(st, v, f))
ProtoOfIp6(st, v, f) == And3(LinkType(st, IPV6, f), AnyIp6Proto(st, v, f))
ProtoOfVersion(family, ip, ip6) ==
  CASE family = "ip" -> ip [] family = "ip6" -> ip6 [] family = "default" -> Or3(ip, ip6)

(* OSI: on Cisco HDLC a byte of padding comes first. *)
OsiType(st) == IF st.link = "C_HDLC" THEN HdlcISO ELSE ISO
OsiPad(st)  == IF st.link = "C_HDLC" THEN 1 ELSE 0
OsiProto(st, v, f) ==
  And3(LinkType(st, OsiType(st), f), Cmp(f, NoSnap(st, f) + OsiPad(st), << v >>))

ISIS == 131
IsisType(st, v, f) ==
  And3(OsiProto(st, ISIS, f), MCmp(f, NoSnap(st, f) + 4 + OsiPad(st), << 31 >>, << v >>))

Proto(st, family, v, f) ==
  CASE family \in {"default", "ip", "ip6"} ->
         ProtoOfVersion(family, ProtoOfIp(st, v, f), ProtoOfIp6(st, v, f))
    [] family = "iso" -> OsiProto(st, v, f)
    [] family = "isis" -> IsisType(st, v, f)
    [] family = "link" -> LinkType(st, v, f)

(* The abbreviations, by the number they stand for. *)
LinkTypeNames ==
  [ip |-> IP, ip6 |-> IPV6, arp |-> ARP, rarp |-> RARP, atalk |-> ATALK, aarp |-> AARP,
   decnet |-> DECNET, lat |-> 24580, sca |-> 24583, moprc |-> 24578, mopdl |-> 24577,
   iso |-> ISO, stp |-> STP, ipx |-> IPX, netbeui |-> NETBEUI]
IpNames == [icmp |-> ICMP, igmp |-> 2, igrp |-> 9, vrrp |-> 112, carp |-> 112]
EitherNames == [tcp |-> TCP, udp |-> UDP, sctp |-> SCTP, pim |-> 103, ah |-> 51, esp |-> 50]
OsiNames == [esis |-> 130, isis |-> ISIS, clnp |-> 129]

(* The kinds of IS-IS packet, tested from the last one named to the first. *)
Level1 == << 26, 24, 18, 15, 17 >>
Level2 == << 27, 25, 20, 16, 17 >>
Hello == << 17, 15, 16 >>
Lsp == << 18, 20 >>
Snp == << 27, 26, 24, 25 >>
Csnp == << 24, 25 >>
Psnp == << 26, 27 >>
IsisNames ==
  [l1 |-> Level1, l2 |-> Level2, iih |-> Hello, lsp |-> Lsp, snp |-> Snp, csnp |-> Csnp,
   psnp |-> Psnp]

FamilyOf(name) ==
  CASE name \in DOMAIN LinkTypeNames -> "link" [] name \in DOMAIN IpNames -> "ip"
    [] name \in DOMAIN EitherNames -> "default" [] name \in DOMAIN OsiNames -> "iso"
    [] name \in DOMAIN IsisNames -> "isis" [] name = "icmp6" -> "ip6"
Meanings(name) ==
  CASE name \in DOMAIN LinkTypeNames -> << LinkTypeNames[name] >>
    [] name \in DOMAIN IpNames -> << IpNames[name] >>
    [] name \in DOMAIN EitherNames -> << EitherNames[name] >>
    [] name \in DOMAIN OsiNames -> << OsiNames[name] >>
    [] name \in DOMAIN IsisNames -> IsisNames[name]
    [] name = "icmp6" -> << ICMP6 >>
ProtoAbbrev(st, name, f) ==
  Any3([i \in DOMAIN Meanings(name) |-> Proto(st, FamilyOf(name), Meanings(name)[i], f)])

-----------------------------------------------------------------------------
(* Hosts and nets of IPv4: a masked comparison at the place of the source, *)
(* of the destination, or of both; ARP and RARP have them elsewhere.       *)
HostOp(st, src, dst, p, f) ==
  Direction(p.dir, MCmp(f, Net(st, f) + src, p.mask, p.addr),
            MCmp(f, Net(st, f) + dst, p.mask, p.addr))
IpHost(st, p, f) == HostOp(st, 12, 16, p, f)
ArpHost(st, p, f) == HostOp(st, 14, 24, p, f)
HostOf(st, proto, p, f) ==
  And3(LinkType(st, LinkTypeNames[proto], f),
       IF proto = "ip" THEN IpHost(st, p, f) ELSE ArpHost(st, p, f))
(* Without a protocol: any that has addresses of IPv4. *)
HostProtos(st, proto) ==
  IF proto # "default" THEN << proto >>
  ELSE IF st.mpls > 0 THEN << "ip" >> ELSE << "ip", "arp", "rarp" >>
Host(st, p, f) ==
  Any3([i \in DOMAIN HostProtos(st, p.proto) |-> HostOf(st, HostProtos(st, p.proto)[i], p, f)])

(* An IPv6 address is compared word by word. *)
WordsAt(st, at, p, f) ==
  All3([i \in 1 .. 4 |->
          MCmp(f, Net(st, f) + at + 4 * (i - 1), SubSeq(p.mask, 4 * i - 3, 4 * i),
               SubSeq(p.addr, 4 * i - 3, 4 * i))])
SrcWords(st, p, f) == WordsAt(st, 8, p, f)
DstWords(st, p, f) == WordsAt(st, 24, p, f)
HostOp6(st, p, f) == Direction(p.dir, SrcWords(st, p, f), DstWords(st, p, f))
Host6(st, p, f) == And3(LinkType(st, IPV6, f), HostOp6(st, p, f))

-----------------------------------------------------------------------------
(* Ports: only the first fragment of a packet has them. *)
IpFrag(st, f) ==
  LET at == Net(st, f) + 6
  IN  Not3(IF Clipped(f, at, 2) THEN "reject" ELSE Truth(HalfAt(f, at) % 8192 # 0))

Undef == -1
Transports == << TCP, UDP, SCTP >>
AnyTransport(st, f)  == Any3([i \in DOMAIN Transports |-> IpProto(st, Transports[i], f)])
AnyTransport6(st, f) == Any3([i \in DOMAIN Transports |-> Ip6Proto(st, Transports[i], f)])
PortProto(st, p, f) ==
  IF p.ipproto = Undef THEN AnyTransport(st, f) ELSE IpProto(st, p.ipproto, f)
Unfragmented(st, p, f) == And3(PortProto(st, p, f), IpFrag(st, f))
PortCommon(st, p, port, f) ==
  And3(LinkType(st, IP, f), And3(Unfragmented(st, p, f), port))
Port6Proto(st, p, f) ==
  IF p.ipproto = Undef THEN AnyTransport6(st, f) ELSE Ip6Proto(st, p.ipproto, f)
Port6Common(st, p, port, f) ==
  And3(LinkType(st, IPV6, f), And3(Port6Proto(st, p, f), port))

HalfIn(f, at, lo, hi) ==
  And3(HalfAbove(f, at, lo - 1), Not3(HalfAbove(f, at, hi)))
PortAtom(f, at, v)  == Cmp(f, at, Half(v))
PortRangeAtom(f, at, p) ==
  IF p.lo = p.hi THEN PortAtom(f, at, p.lo)
  ELSE HalfIn(f, at, IF p.lo > p.hi THEN p.hi ELSE p.lo, IF p.lo > p.hi THEN p.lo ELSE p.hi)
PortOp(f, at, p) == Direction(p.dir, PortRangeAtom(f, at, p), PortRangeAtom(f, at + 2, p))

Port(st, p, f)  == PortCommon(st, p, PortOp(f, Tran4(st, f), p), f)
Port6(st, p, f) == Port6Common(st, p, PortOp(f, Tran6(st, f), p), f)
(* IPv6 first, as gen_scode and gen_ncode join them. *)
PortOfEither(st, p, f) == Or3(Port6(st, p, f), Port(st, p, f))
=============================================================================
