------------------------------ MODULE Lookups ------------------------------
(***************************************************************************)
(* Hosts that an expression names.  The module asks the caller's functions *)
(* (Xresolve_host and Xether_hostton in filter.go) for addresses, and the  *)
(* code generator makes tests of those that it can use.                    *)
(*                                                                         *)
(* An address is the sequence of its octets, and an answer the sequence of *)
(* its addresses, empty for one that failed.  getaddrinfo asks once for    *)
(* each family, so a name p has two answers: p.first and p.second.         *)
(***************************************************************************)
EXTENDS Stations

(* An IPv4 address in its IPv6 form is one of IPv6. *)
Is4(a) == Len(a) = 4
Is6(a) == Len(a) = 16

(* Mutant: only the first address of the answer is looked at. *)
ResolveHostFirst(answer, family) ==
  SelectSeq(SubSeq(answer, 1, IF answer = << >> THEN 0 ELSE 1),
            LAMBDA a : IF family = 4 THEN Is4(a) ELSE Is6(a))

(* The first address of the family, if the answer has one. *)
ResolveHost(answer, family) ==
  LET fit == SelectSeq(answer, LAMBDA a : IF family = 4 THEN Is4(a) ELSE Is6(a))
  IN  SubSeq(fit, 1, IF fit = << >> THEN 0 ELSE 1)
GetAddrInfo(p) == ResolveHost(p.first, 4) \o ResolveHost(p.second, 6)

-----------------------------------------------------------------------------
(* "host": what the protocol leaves of the list, IPv4 before IPv6. *)
IpAddrs(p)  == IF p.proto = "ip6" THEN << >> ELSE SelectSeq(GetAddrInfo(p), Is4)
Ip6Addrs(p) ==
  IF p.proto \in {"ip", "arp", "rarp"} THEN << >> ELSE SelectSeq(GetAddrInfo(p), Is6)
HostKnown(p) == IpAddrs(p) \o Ip6Addrs(p) # << >>

Exactly(p, a) ==
  [proto |-> p.proto, dir |-> p.dir, addr |-> a, mask |-> [i \in DOMAIN a |-> 255]]
Host46ByName(st, p, f) ==
  Any3([i \in DOMAIN IpAddrs(p) |-> Host(st, Exactly(p, IpAddrs(p)[i]), f)]
         \o [i \in DOMAIN Ip6Addrs(p) |-> Host6(st, Exactly(p, Ip6Addrs(p)[i]), f)])

-----------------------------------------------------------------------------
(* "ether host": an answer that is not six octets long counts as none. *)
StationKnown(p) == Len(p.addr) = 6
StationAllowed(st, p) == Mac48Allowed(st) /\ StationKnown(p)

(* "gateway": to or from its station, but to or from another IPv4 host. *)
GatewayAllowed(st, p) == st.mpls = 0 /\ ~st.encap /\ StationAllowed(st, p) /\ IpAddrs(p) # << >>
NotHostOf(st, proto, p, f) ==
  And3(LinkType(st, LinkTypeNames[proto], f),
       Not3(IF proto = "ip" THEN IpHost(st, p, f) ELSE ArpHost(st, p, f)))
NotHost(st, p, f) ==
  Any3([i \in DOMAIN HostProtos(st, p.proto) |-> NotHostOf(st, HostProtos(st, p.proto)[i], p, f)])
Gateway(st, p, f) == And3(Mac48Host(st, p, f), NotHost(st, Exactly(p, IpAddrs(p)[1]), f))
=============================================================================
