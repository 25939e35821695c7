------------------------------- MODULE Frames -------------------------------
(***************************************************************************)
(* What a filter expression means for a frame, said in terms of the        *)
(* frame's layers: the reference the generated tests are compared with.    *)
(*                                                                         *)
(* A frame is a sequence of layers, records with the layer's name l and    *)
(* its fields; Encode gives its bytes.  While an expression is followed,   *)
(* at is the layer whose payload it speaks of: the link layer to begin     *)
(* with, and after "vlan" the tag, after "mpls" the label, and so on.      *)
(* Nothing here is translated from the code.                               *)
(***************************************************************************)
EXTENDS Octets, SequencesExt

CONSTANT Frames                  \* records: the link type, and the layers

Lost == -1
Absent == [l |-> "absent"]
Layer(F, i) == IF i \in DOMAIN F THEN F[i] ELSE Absent

-----------------------------------------------------------------------------
(* The numbers of what may follow a header. *)
NumberOf(c) ==
  CASE c.l = "ip" -> 2048 [] c.l = "ip6" -> 34525 [] c.l = "arp" -> 2054
    [] c.l = "rarp" -> 32821 [] c.l = "vlan" -> c.tpid [] c.l = "mpls" -> 34887
    [] c.l = "pppoe" -> 34916 [] c.l = "decnet" -> 24579 [] c.l = "eth" -> 25944
    [] c.l = "osi" -> 65278 [] c.l = "data" -> c.etype [] OTHER -> 0
PppNumberOf(c) ==
  CASE c.l = "ip" -> 33 [] c.l = "ip6" -> 87 [] c.l = "mpls" -> 641 [] c.l = "osi" -> 35
    [] OTHER -> 0
IpNumberOf(c) ==
  CASE c.l = "udp" -> 17 [] c.l = "tcp" -> 6 [] c.l = "sctp" -> 132 [] c.l = "frag6" -> 44
    [] c.l = "data" -> c.proto [] OTHER -> 59
Has8022(c) == c.l \in {"sap", "snap", "novell"}
WlanType(w) == CASE w.kind = "mgt" -> 0 [] w.kind = "ctl" -> 4 [] w.kind = "data" -> 8

Head1(x, c, prev) ==
  CASE x.l = "eth" -> x.dst \o x.src \o (IF Has8022(c) THEN Half(60) ELSE Half(NumberOf(c)))
    [] x.l = "wlan" -> << WlanType(x) + 16 * x.sub,
                          (IF x.to THEN 1 ELSE 0) + (IF x.from THEN 2 ELSE 0), 0, 0 >>
                       \o FlattenSeq(SubSeq(x.a, 1, IF Len(x.a) = 4 THEN 3 ELSE Len(x.a)))
                       \o (IF Len(x.a) >= 3 THEN << 0, 0 >> ELSE << >>)
                       \o (IF Len(x.a) = 4 THEN x.a[4] ELSE << >>)
                       \o (IF x.kind = "data" /\ x.sub >= 8 THEN << 0, 0 >> ELSE << >>)
    [] x.l = "sll" -> Zeros(14) \o (IF c.l = "novell" THEN Half(1)
                                    ELSE IF Has8022(c) THEN Half(4) ELSE Half(NumberOf(c)))
    [] x.l = "hdlc" -> << 15, 0 >> \o Half(NumberOf(c))
    [] x.l = "ppp" -> Half(PppNumberOf(c))
    [] x.l = "sap" -> << x.sap, x.sap >> \o x.ctl
    [] x.l = "novell" -> << 255, 255 >> \o Zeros(8)
    [] x.l = "snap" -> << 170, 170, 3 >> \o x.org \o Half(NumberOf(c))
    [] x.l = "vlan" -> Half(4096 + x.id) \o (IF Has8022(c) THEN Half(60) ELSE Half(NumberOf(c)))
    [] x.l = "mpls" -> << x.id \div 4096, (x.id \div 16) % 256,
                          16 * (x.id % 16) + (IF c.l = "mpls" THEN 0 ELSE 1), 64 >>
    [] x.l = "pppoe" -> << 17, 0 >> \o Half(x.id) \o << 0, 0 >>
    [] x.l = "ip" -> << 69 + x.opts, 0, 0, 0, 0, 0 >> \o Half(x.frag) \o << 64, IpNumberOf(c), 0, 0 >>
                     \o x.src \o x.dst \o Zeros(4 * x.opts)
    [] x.l = "ip6" -> << 96, 0, 0, 0, 0, 0, IpNumberOf(c), 64 >> \o x.src \o x.dst
    [] x.l = "frag6" -> << IpNumberOf(c) >> \o Zeros(7)
    [] x.l \in {"udp", "tcp", "sctp"} -> Half(x.sport) \o Half(x.dport) \o Zeros(4)
    [] x.l = "geneve" -> << x.opts, 0 >> \o Half(NumberOf(c))
                         \o << 0 >> \o Half(x.id) \o << 0 >> \o Zeros(4 * x.opts)
    [] x.l = "vxlan" -> << 8, 0, 0, 0, 0 >> \o Half(x.id) \o << 0 >>
    [] x.l \in {"arp", "rarp"} -> << 0, 1, 8, 0, 6, 4, 0, 1, 2, 2, 2, 2, 2, 2 >> \o x.src
                                  \o Zeros(6) \o x.dst
    [] x.l = "osi" -> (IF prev.l = "hdlc" THEN << 0 >> ELSE << >>)
                      \o << x.nlpid, 27, 1, 0, x.pdu, 1 >>
    [] x.l = "decnet" -> << 40, 0 >> \o (IF x.pad THEN << 129 >> ELSE << >>)
                         \o (IF x.long THEN << 6, 0, 0, 170, 0, 4, 0 >> \o x.dst
                                            \o << 0, 0, 170, 0, 4, 0 >> \o x.src \o Zeros(4)
                             ELSE << 2 >> \o x.dst \o x.src \o << 0 >>)
    [] x.l = "data" -> Zeros(x.size)

Encode(F) ==
  FoldLeft(LAMBDA s, i : s \o Head1(F[i], Layer(F, i + 1), Layer(F, i - 1)), << >>,
           [i \in DOMAIN F |-> i])
StartOf(F, i) == Len(Encode(F)) - Len(FoldLeft(LAMBDA s, j : s \o Head1(F[j], Layer(F, j + 1), Layer(F, j - 1)),
                                              << >>, [k \in 1 .. Len(F) - i + 1 |-> i + k - 1]))

-----------------------------------------------------------------------------
(* What the payload of layer at is.  IEEE 802.2 with a SNAP header is      *)
(* looked through on 802.11; elsewhere only what AppleTalk and IPX need.   *)
Apples == {32923, 33011, 33079}
ContentAt(F, at) ==
  LET above == Layer(F, at + 2)
  IN  IF Layer(F, at + 1).l = "snap"
         /\ (F[1].l = "wlan" \/ (above.l = "data" /\ above.etype \in Apples))
      THEN at + 2 ELSE at + 1
Content(F, at) ==
  LET c == Layer(F, ContentAt(F, at))
  IN  IF Layer(F, at).l = "mpls" /\ c.l \notin {"ip", "ip6"} THEN Absent ELSE c

(* The link layer of layer at: the last one that begins a frame. *)
LinkKinds == {"eth", "wlan", "sll", "hdlc", "ppp", "geneve"}
LinkAt(F, at) ==
  LET begins == {i \in 1 .. at : F[i].l \in LinkKinds}
  IN  IF begins = {} THEN Absent ELSE F[CHOOSE i \in begins : \A j \in begins : j <= i]

Masks(a, p) == \A i \in DOMAIN a : BitAnd[a[i]][p.mask[i]] = p.addr[i]
Directed(dir, src, dst) ==
  CASE dir = "src" -> src [] dir = "dst" -> dst
    [] dir = "and" -> src /\ dst [] dir = "or" -> src \/ dst

-----------------------------------------------------------------------------
(* Protocols.  c is what the payload is, n what follows it, and t what     *)
(* follows when a fragment header is looked through.                       *)
CarriesIp(c, n, v) == c.l = "ip" /\ IpNumberOf(n) = v
CarriesIp6(c, n, t, v) == c.l = "ip6" /\ v \in {IpNumberOf(n), IpNumberOf(t)}

OsiOf(c, n) == IF c.l = "sap" /\ c.sap = 254 THEN n ELSE IF c.l = "osi" THEN c ELSE Absent
IsOsi(o, nlpids) == o.l = "osi" /\ o.nlpid \in nlpids
IsIsis(o, pdus) == IsOsi(o, {131}) /\ o.pdu \in pdus

EtherNumbers ==
  [atalk |-> 32923, aarp |-> 33011, lat |-> 24580, sca |-> 24583, moprc |-> 24578, mopdl |-> 24577]
SapNumbers == [iso |-> 254, stp |-> 66, ipx |-> 224, netbeui |-> 240]
OverIp == [icmp |-> 1, igmp |-> 2, igrp |-> 9, vrrp |-> 112, carp |-> 112]
OverEither == [tcp |-> 6, udp |-> 17, sctp |-> 132, pim |-> 103, ah |-> 51, esp |-> 50]
OverOsi == [esis |-> 130, isis |-> 131, clnp |-> 129]
IsisPdus ==
  [l1 |-> {15, 17, 18, 24, 26}, l2 |-> {16, 17, 20, 25, 27}, iih |-> {15, 16, 17},
   lsp |-> {18, 20}, snp |-> {24, 25, 26, 27}, csnp |-> {24, 25}, psnp |-> {26, 27}]

IsSap(c, sap) ==
  \/ c.l = "sap" /\ c.sap = sap
  \/ sap = 224 /\ (c.l = "novell" \/ (c.l = "data" /\ c.etype = 33079))
  \/ sap = 254 /\ c.l = "osi"

IsNamed(c, n, t, name) ==
  CASE name \in {"ip", "ip6", "arp", "rarp", "decnet"} -> c.l = name
    [] name \in DOMAIN EtherNumbers -> c.l = "data" /\ c.etype = EtherNumbers[name]
    [] name \in DOMAIN SapNumbers -> IsSap(c, SapNumbers[name])
    [] name \in DOMAIN OverIp -> CarriesIp(c, n, OverIp[name])
    [] name \in DOMAIN OverEither -> \/ CarriesIp(c, n, OverEither[name])
                                     \/ CarriesIp6(c, n, t, OverEither[name])
    [] name \in DOMAIN OverOsi -> IsOsi(OsiOf(c, n), {OverOsi[name]})
    [] name \in DOMAIN IsisPdus -> IsIsis(OsiOf(c, n), IsisPdus[name])
    [] name = "icmp6" -> CarriesIp6(c, n, t, 58)

IsNumbered(c, n, t, p) ==
  CASE p.family \in {"ip", "ip6", "default"} -> \/ p.family # "ip6" /\ CarriesIp(c, n, p.v)
                                                \/ p.family # "ip" /\ CarriesIp6(c, n, t, p.v)
    [] p.family = "iso" -> IsOsi(OsiOf(c, n), {p.v})
    [] p.family = "isis" -> IsIsis(OsiOf(c, n), {p.v})

(* Hosts, nets and ports. *)
HasHost(c, p) ==
  /\ c.l \in IF p.proto = "default" THEN {"ip", "arp", "rarp"} ELSE {p.proto}
  /\ Directed(p.dir, Masks(c.src, p), Masks(c.dst, p))

(* Hosts by name: the first address of a family that the answer has.       *)
FirstOf(answer, n) ==
  {answer[i] : i \in {k \in DOMAIN answer : /\ Len(answer[k]) = n
                                          /\ \A j \in 1 .. k - 1 : Len(answer[j]) # n}}
IsHost(c, proto, dir, a) ==
  HasHost(c, [proto |-> proto, dir |-> dir, addr |-> a, mask |-> [i \in DOMAIN a |-> 255]])
Usable4(p) == IF p.proto = "ip6" THEN {} ELSE FirstOf(p.first, 4)
Usable6(p) == IF p.proto \in {"default", "ip6"} THEN FirstOf(p.second, 16) ELSE {}
HasNamed(c, p) ==
  \/ \E a \in Usable4(p) : IsHost(c, p.proto, p.dir, a)
  \/ \E a \in Usable6(p) : IsHost(c, "ip6", p.dir, a)

Between(v, p) == (p.lo <= v /\ v <= p.hi) \/ (p.hi <= v /\ v <= p.lo)
HasPort(c, n, p) ==
  /\ c.l \in {"ip", "ip6"}
  /\ c.l = "ip" => c.frag % 8192 = 0
  /\ n.l \in {"tcp", "udp", "sctp"}
  /\ p.ipproto \in {-1, IpNumberOf(n)}
  /\ Directed(p.dir, Between(n.sport, p), Between(n.dport, p))

(* Stations, for the link layer w.  In an 802.11 frame the roles of the    *)
(* addresses depend on where it comes from and where it goes; control      *)
(* frames have neither role.                                               *)
SourceOf(w) ==
  IF w.kind = "mgt" \/ ~w.from THEN w.a[2] ELSE IF w.to THEN w.a[4] ELSE w.a[3]
DestinationOf(w) == IF w.kind = "data" /\ w.to THEN w.a[3] ELSE w.a[1]

HasStation(w, p) ==
  \/ w.l = "eth" /\ Directed(p.dir, w.src = p.addr, w.dst = p.addr)
  \/ /\ w.l = "wlan"
     /\ CASE p.dir \in {"src", "dst", "and", "or"} ->
               /\ w.kind # "ctl"
               /\ Directed(p.dir, SourceOf(w) = p.addr, DestinationOf(w) = p.addr)
          [] p.dir = "addr1" -> w.a[1] = p.addr
          [] p.dir = "addr2" -> Len(w.a) >= 2 /\ w.a[2] = p.addr
          [] p.dir = "addr3" -> Len(w.a) >= 3 /\ w.a[3] = p.addr
          [] p.dir = "addr4" -> Len(w.a) = 4 /\ w.a[4] = p.addr
          [] p.dir = "ra" -> w.kind = "data" /\ w.a[1] = p.addr
          [] p.dir = "ta" -> w.kind = "data" /\ w.a[2] = p.addr

(* To or from the gateway's station, but not its own packet. *)
ByGateway(w, c, p) ==
  /\ HasStation(w, p)
  /\ c.l \in IF p.proto = "default" THEN {"ip", "arp", "rarp"} ELSE {p.proto}
  /\ \E a \in FirstOf(p.first, 4) : a \notin {c.src, c.dst}

ToGroup(w, c, family) ==
  CASE family = "ip" -> c.l = "ip" /\ c.dst[1] \div 16 = 14
    [] family = "ip6" -> c.l = "ip6" /\ c.dst[1] = 255
    [] family = "link" -> \/ w.l = "eth" /\ w.dst[1] % 2 = 1
                          \/ w.l = "wlan" /\ w.kind # "ctl" /\ DestinationOf(w)[1] % 2 = 1
HostPartIs(a, mask, full) ==
  \A i \in 1 .. 4 : BitAnd[a[i]][mask[i]] = IF full THEN mask[i] ELSE 0
ToAll(w, c, p) ==
  IF p.family = "link"
  THEN HasStation(w, [dir |-> "dst", addr |-> << 255, 255, 255, 255, 255, 255 >>])
  ELSE c.l = "ip" /\ \E full \in BOOLEAN : HostPartIs(c.dst, p.mask, full)

LlcControl(x) == IF x.l = "snap" THEN 3 ELSE IF x.l = "sap" THEN x.ctl[1] ELSE 0
IsLlc(w, x, p) ==
  /\ \/ w.l = "eth" /\ x.l \in {"sap", "snap"}
     \/ w.l = "wlan" /\ w.kind = "data"
  /\ p.kind # "llc" => x.l \in {"sap", "snap"}
  /\ CASE p.kind = "llc" -> TRUE [] p.kind = "i" -> LlcControl(x) % 2 = 0
       [] p.kind = "s" -> LlcControl(x) % 4 = 1 [] p.kind = "u" -> LlcControl(x) % 4 = 3
       [] p.kind = "s_sub" -> BitAnd[LlcControl(x)][15] = p.v
       [] p.kind = "u_sub" -> BitAnd[LlcControl(x)][239] = p.v

(* w is the link layer, x what follows layer at, c, n and t as above. *)
Fits(w, x, c, n, t, p) ==
  CASE p.prim = "name" -> IsNamed(c, n, t, p.name)
    [] p.prim = "number" -> IsNumbered(c, n, t, p)
    [] p.prim \in {"host", "host6", "decnet"} -> HasHost(c, p)
    [] p.prim = "port" -> HasPort(c, n, p)
    [] p.prim = "station" -> HasStation(w, p)
    [] p.prim = "named" -> HasNamed(c, p)
    [] p.prim = "gateway" -> ByGateway(w, c, p)
    [] p.prim = "multicast" -> ToGroup(w, c, p.family)
    [] p.prim = "broadcast" -> ToAll(w, c, p)
    [] p.prim = "llc" -> IsLlc(w, x, p)
    [] p.prim = "type" -> BitAnd[WlanType(w) + 16 * w.sub][p.mask] = p.v
    [] p.prim = "way" -> (p.v % 2 = 1) = w.to /\ (p.v >= 2) = w.from
    [] p.prim = "pppoed" -> c.l = "data" /\ c.etype = 34915

Satisfies(F, at, p) ==
  LET i == ContentAt(F, at) + 1
  IN  Fits(LinkAt(F, at), Layer(F, at + 1), Content(F, at), Layer(F, i),
           Layer(F, IF Layer(F, i).l = "frag6" THEN i + 1 ELSE i), p)

-----------------------------------------------------------------------------
(* Encapsulations: where the expression speaks from then on. *)
HasId(x, p) == p.id = -1 \/ x.id = p.id
(* c is at i, u and x are the next two. *)
Within(F, i, c, u, x, p) ==
  IF p.prim \in {"geneve", "vxlan"}
  THEN IF /\ c.l \in {"ip", "ip6"} /\ (c.l = "ip" => c.frag % 8192 = 0)
          /\ u.l = "udp" /\ x.l = p.prim /\ HasId(x, p)
       THEN IF Layer(F, i + 3).l = "eth" THEN i + 3 ELSE i + 2
       ELSE Lost
  ELSE IF c.l = (IF p.prim = "pppoes" THEN "pppoe" ELSE p.prim) /\ HasId(c, p)
  THEN IF p.prim = "pppoes" THEN i + 1 ELSE i
  ELSE Lost
Enter(F, at, p) ==
  LET i == ContentAt(F, at)
  IN  Within(F, i, IF Layer(F, at).l = "mpls" THEN Layer(F, at + 1) ELSE Content(F, at),
             Layer(F, i + 1), Layer(F, i + 2), p)

Encapsulations == {"vlan", "mpls", "pppoes", "geneve", "vxlan"}

(* Where the expression said ends up in frame F, which starts with n link  *)
(* layers; Lost when the frame does not match it.                          *)
Follow(F, n, said) ==
  FoldLeft(LAMBDA at, p : IF at = Lost THEN Lost
                          ELSE IF p.prim \in Encapsulations THEN Enter(F, at, p)
                          ELSE IF Satisfies(F, at, p) THEN at ELSE Lost,
           n, said)
=============================================================================
