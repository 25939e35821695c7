------------------------------ MODULE Filters ------------------------------
(***************************************************************************)
(* The meaning of an expression that is a conjunction of primitives, as    *)
(* the code generator makes it: each primitive adds the verdict of its     *)
(* test, with the offsets the earlier ones left (Encapsulation), and may   *)
(* move the offsets for those to come.  The compiler's state, the verdict  *)
(* so far and what was said are variables; the frame and its bytes, which  *)
(* do not change, are any of Frames.                                       *)
(*                                                                         *)
(* A primitive that moves nothing ends the expression, since what follows  *)
(* it is told from the same place, and so does one that the frame fails.   *)
(***************************************************************************)
EXTENDS Encapsulation, Lookups, Frames

CONSTANTS
  Names,          \* abbreviated protocols
  Numbers,        \* "proto" with a number
  Hosts, Hosts6,  \* hosts and nets, of IPv4 and of IPv6
  Ports,          \* ports and port ranges
  StationTests,   \* hosts of the link layer
  NamedHosts,     \* hosts by name, with the answers for each family
  NamedStations,  \* hosts of the link layer by name
  Gateways,       \* gateways, by the names of both
  Groups,         \* "multicast" and "broadcast"
  LlcTests,       \* "llc" and its kinds
  WlanTests,      \* types and directions of 802.11
  DecnetHosts,    \* hosts of DECnet
  Ids,            \* identifiers, or none, by encapsulation
  MaxSaid         \* primitives in an expression

VARIABLES
  frame,          \* which of Frames
  packet,         \* its bytes, as far as they were captured
  st,             \* the compiler's state
  got,            \* the verdict so far
  said,           \* the primitives so far
  phase           \* "more", "ended", or "error"

vars == << frame, packet, st, got, said, phase >>

BytesOf(F, cut) == SubSeq(Encode(F), 1, Len(Encode(F)) - cut)
Init ==
  /\ frame \in DOMAIN Frames
  /\ packet = BytesOf(Frames[frame].layers, Frames[frame].cut)
  /\ st = InitLinkType(Frames[frame].link, packet)
  /\ got = "yes"
  /\ said = << >>
  /\ phase = "more"

(* An error stops the compilation. *)
MoreToSay == phase = "more" /\ Len(said) < MaxSaid
Say(p, allowed, verdict, next) ==
  /\ said' = Append(said, p)
  /\ IF allowed
     THEN /\ got' = verdict
          /\ st' = next
          /\ phase' = IF p.prim \in Encapsulations /\ got' = "yes" THEN "more" ELSE "ended"
     ELSE /\ phase' = "error"
          /\ UNCHANGED << got, st >>
  /\ UNCHANGED << frame, packet >>

(* Protocols of IP; behind MPLS no other can be told. *)
OverIpOnly(family) == family \in {"default", "ip", "ip6"}

SayName ==
  /\ MoreToSay
  /\ \E name \in Names :
       Say([prim |-> "name", name |-> name],
           st.mpls = 0 \/ name \in {"ip", "ip6"} \/ OverIpOnly(FamilyOf(name)),
           ProtoAbbrev(st, name, packet), st)

SayNumber ==
  /\ MoreToSay
  /\ \E p \in Numbers :
       Say(p, st.mpls = 0 \/ OverIpOnly(p.family),
           Proto(st, p.family, p.v, packet), st)

SayHost ==
  /\ MoreToSay
  /\ \E p \in Hosts :
       Say(p, st.mpls = 0 \/ p.proto \in {"default", "ip"}, Host(st, p, packet), st)

SayHost6 ==
  /\ MoreToSay
  /\ \E p \in Hosts6 : Say(p, TRUE, Host6(st, p, packet), st)

SayPort ==
  /\ MoreToSay
  /\ \E p \in Ports : Say(p, TRUE, PortOfEither(st, p, packet), st)

SayStation ==
  /\ MoreToSay
  /\ \E p \in StationTests :
       /\ p.dir \notin {"src", "dst", "and", "or"} => st.link = "IEEE802_11"
       /\ Say(p, Mac48Allowed(st), Mac48Host(st, p, packet), st)

SayHostName ==
  /\ MoreToSay
  /\ \E p \in NamedHosts :
       Say(p, HostKnown(p) /\ (st.mpls > 0 => p.proto \in {"default", "ip", "ip6"}),
           Host46ByName(st, p, packet), st)

SayStationName ==
  /\ MoreToSay
  /\ \E p \in NamedStations : Say(p, StationAllowed(st, p), Mac48Host(st, p, packet), st)

SayGateway ==
  /\ MoreToSay
  /\ \E p \in Gateways : Say(p, GatewayAllowed(st, p), Gateway(st, p, packet), st)

SayGroup ==
  /\ MoreToSay
  /\ \E p \in Groups :
       Say(p, p.family = "link" => Mac48Allowed(st),
           IF p.prim = "multicast" THEN Multicast(st, p.family, packet)
                      ELSE Broadcast(st, p.family, p.mask, packet), st)

SayLlc ==
  /\ MoreToSay
  /\ \E p \in LlcTests : Say(p, Mac48Allowed(st), LlcTest(st, p, packet), st)

SayWlan ==
  /\ MoreToSay
  /\ \E p \in WlanTests :
       Say(p, st.link = "IEEE802_11",
           IF p.prim = "type" THEN P80211Type(st, p.v, p.mask, packet)
                      ELSE P80211FcDir(st, p.v, packet), st)

SayDecnet ==
  /\ MoreToSay
  /\ \E p \in DecnetHosts : Say(p, st.mpls = 0, DecnetHost(st, p, packet), st)

SayPppoed ==
  /\ MoreToSay
  /\ Say([prim |-> "pppoed"], st.mpls = 0, LinkType(st, PPPOED, packet), st)

SayVlan ==
  /\ MoreToSay
  /\ \E id \in Ids.vlan :
       Say([prim |-> "vlan", id |-> id], VlanAllowed(st), Vlan(st, id, packet), PastTag(st))

SayMpls ==
  /\ MoreToSay
  /\ \E id \in Ids.mpls :
       Say([prim |-> "mpls", id |-> id], MplsAllowed(st), Mpls(st, id, packet), PastLabel(st))

SayPppoes ==
  /\ MoreToSay
  /\ \E id \in Ids.pppoes :
       Say([prim |-> "pppoes", id |-> id], st.mpls = 0, Pppoes(st, id, packet),
           IntoPppoes(st))

SayGeneve ==
  /\ MoreToSay
  /\ \E id \in Ids.geneve :
       Say([prim |-> "geneve", id |-> id], TRUE, GeneveEither(st, id, packet),
           IntoGeneve(st, packet))

SayVxlan ==
  /\ MoreToSay
  /\ \E id \in Ids.vxlan :
       Say([prim |-> "vxlan", id |-> id], TRUE, VxlanEither(st, id, packet),
           IntoVxlan(st, packet))

Next ==
  \/ SayName \/ SayNumber \/ SayHost \/ SayHost6 \/ SayPort
  \/ SayHostName \/ SayStationName \/ SayGateway
  \/ SayStation \/ SayGroup \/ SayLlc \/ SayWlan \/ SayDecnet
  \/ SayPppoed \/ SayVlan \/ SayMpls \/ SayPppoes \/ SayGeneve \/ SayVxlan

Spec == Init /\ [][Next]_vars

-----------------------------------------------------------------------------
Layers == Frames[frame].layers
LinkLayers == IF Frames[frame].link = "RAW" THEN 0 ELSE 1
Where == Follow(Layers, LinkLayers, said)
Whole == Frames[frame].cut = 0

(* What the offsets cannot say.  The length of an 802.11 header is worked  *)
(* out from the frame's type and subtype alone: a frame with four          *)
(* addresses is taken to end its header six bytes too early.  A tag in an  *)
(* 802.11 frame is behind the LLC header, which is not found again.  And   *)
(* what is inside a tunnel is told as if it were labelled once a label was *)
(* seen outside: the depth of the stack is never reset.                    *)
OnWlan == Frames[frame].link = "IEEE802_11"
FourAddresses == OnWlan /\ Len(Layers[1].a) = 4
Says(prims) == \E i \in DOMAIN said : said[i].prim \in prims
OfTheHeader == {"station", "type", "way"}
LabelsForgotten == st.mpls > 0 /\ st.encap
Untold ==
  \/ LabelsForgotten
  \/ FourAddresses /\ \E i \in DOMAIN said : said[i].prim \notin OfTheHeader
  \/ OnWlan /\ Says({"vlan"}) /\ Says({"llc"})

(* The generated test accepts a frame captured whole exactly when its      *)
(* layers are those the expression names, in that order: whatever the      *)
(* encapsulations before it, a primitive looks at the right bytes, and its *)
(* order of checks never reads outside a frame it should accept.           *)
FilterMeansFrame ==
  phase # "error" /\ Whole /\ ~Untold => (got = "yes") = (Where # Lost)

(* For a frame that matches so far, the offsets the next primitive will    *)
(* use are those of the payload of the layer the expression has reached.   *)
OffsetsFollowTheLayers ==
  phase = "more" /\ (OnWlan => Layer(Layers, 2).l = "snap" /\ ~FourAddresses) =>
    \A at \in {Where} :
      at # Lost => Net(st, packet) = StartOf(Layers, IF OnWlan /\ at = 1 THEN 3 ELSE at + 1)

(* A frame of which only the beginning was captured is never accepted by   *)
(* mistake: what cannot be read is not taken for a match, nor for the      *)
(* opposite of one.                                                        *)
ClippedFramesAreNotMisread ==
  phase # "error" /\ ~Whole /\ ~Untold /\ got = "yes" => Where # Lost

(* A host name is refused exactly when the lookups gave no address that    *)
(* the protocol of the expression can use: an address of one family is     *)
(* enough, wherever in the answer it stands and whatever became of the     *)
(* lookup for the other family (behind MPLS a name may be refused for its  *)
(* protocol alone).                                                        *)
UnknownHostsAreRefused ==
  \A i \in DOMAIN said :
    said[i].prim = "named" /\ st.mpls = 0 =>
      (phase = "error") = (Usable4(said[i]) \cup Usable6(said[i]) = {})
=============================================================================
