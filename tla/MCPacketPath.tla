---------------------------- MODULE MCPacketPath ----------------------------
(* Values for TLC: a client a and a server s, whose replies may be trusted.               *)
EXTENDS PacketPath, TLC

Base == DefaultRule({"a", "s"}, PortRange(0, 3))

\* Accept web traffic at a rate, reject telnet and remember it, drop what the alias names.
Web == [Base EXCEPT !.protocol = "tcp", !.dstPort = PortRange(2, 2), !.action = "accept", !.rate = 1]
Telnet == [Base EXCEPT !.dstPort = PortRange(1, 1), !.action = "reject", !.blockSecs = 1,
                       !.threshold = 2, !.window = 1, !.log = TRUE]
Banned == [Base EXCEPT !.src = AliasRef("bad"), !.blockSecs = 1]

MCConfigFiles ==
    {[rules |-> <<Telnet, Web>>, aliases |-> <<>>, trusted |-> {"s"}, defaultPolicy |-> "drop"],
     [rules |-> <<Web, Banned>>, aliases |-> <<[name |-> "bad", hosts |-> {"s"}]>>, trusted |-> {},
      defaultPolicy |-> "accept"],
     [rules |-> <<Banned>>, aliases |-> <<>>, trusted |-> {}, defaultPolicy |-> "accept"]}

Pkt(src, proto, sport, dport, flags) ==
    [src |-> src, dst |-> "s", proto |-> proto, sport |-> sport, dport |-> dport, flags |-> flags]
Raw(pkt) == [ipHeader |-> TRUE, fragOffset |-> 0, parses |-> TRUE, pkt |-> pkt]

WorkerSymmetry == Permutations(Workers)

MCRaws ==
    {Raw(Pkt("a", "tcp", 3, 2, {"syn"})), Raw(Pkt("a", "udp", 3, 1, {"none"})),
     Raw(Pkt("a", "icmp", 0, 0, {"none"})),
     Raw([src |-> "s", dst |-> "a", proto |-> "tcp", sport |-> 2, dport |-> 3, flags |-> {"syn", "ack"}]),
     [Raw(Pkt("a", "other", 0, 0, {"none"})) EXCEPT !.fragOffset = 1],
     [Raw(Pkt("a", "other", 0, 0, {"none"})) EXCEPT !.parses = FALSE]}
=============================================================================
