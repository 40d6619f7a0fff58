----------------------------- MODULE RuleEngine -----------------------------
(***************************************************************************)
(* rustwall's rules: what a configuration file may hold, how Engine::new   *)
(* splits the rules into an index by protocol and port and a list that is  *)
(* always scanned, and which rule decides a packet.  A CIDR is the set of  *)
(* hosts it contains.  The limits a rule carries are state of PacketPath.  *)
(***************************************************************************)
EXTENDS Integers, Sequences, FiniteSets

Protocols == {"tcp", "udp", "icmp", "any"}
Actions == {"accept", "drop", "reject"}

\* The protocol of a parsed packet; everything without a transport header is "other".
L4Protos == {"tcp", "udp", "icmp", "other"}

Cidr(hosts) == [kind |-> "cidr", hosts |-> hosts]
AliasRef(name) == [kind |-> "alias", name |-> name]

\* A rule as the defaults of the file leave it: any protocol, direction and port, every
\* IPv4 address (default_net is 0.0.0.0/0, which contains no IPv6 address),
\* no rate limit and no automatic block. 0 stands for None.
DefaultRule(v4, ports) ==
    [protocol |-> "any", src |-> Cidr(v4), dst |-> Cidr(v4),
     srcPort |-> ports, dstPort |-> ports, action |-> "drop",
     rate |-> 0, blockSecs |-> 0, threshold |-> 1, window |-> 60, log |-> FALSE]

\* An inclusive range; PortRange(p, p) is one port.
PortRange(lo, hi) == <<lo, hi>>
Contains(range, port) == range[1] <= port /\ port <= range[2]

AliasNames(cfg) == {cfg.aliases[i].name : i \in DOMAIN cfg.aliases}

\* Config::validate
Validate(cfg) ==
    /\ \A i \in DOMAIN cfg.rules : LET r == cfg.rules[i]
                                   IN  r.srcPort[1] <= r.srcPort[2] /\ r.dstPort[1] <= r.dstPort[2]
    /\ \A i, j \in DOMAIN cfg.aliases : cfg.aliases[i].name = cfg.aliases[j].name => i = j
    /\ \A i \in DOMAIN cfg.rules : \A m \in {cfg.rules[i].src, cfg.rules[i].dst} :
         m.kind = "alias" => m.name \in AliasNames(cfg)

---------------------------------------------------------------------------
(* Engine::new                                                             *)

ExactPort(rule) == rule.dstPort[1] = rule.dstPort[2]

\* Mutant: a rule for any protocol goes into the index as well.
IndexedAny(rule) == ExactPort(rule)

\* Rules for one protocol and one destination port are looked up, the others scanned.
Indexed(rule) == rule.protocol # "any" /\ ExactPort(rule)

ExactIndex(rules, proto, port) ==
    {i \in DOMAIN rules : Indexed(rules[i]) /\ rules[i].protocol = proto /\ rules[i].dstPort[1] = port}

WildcardRules(rules) == {i \in DOMAIN rules : ~Indexed(rules[i])}

---------------------------------------------------------------------------
(* Engine::evaluate, up to the choice of the rule                          *)

ProtoMatches(ruleProto, proto) == ruleProto = "any" \/ ruleProto = proto

\* An alias that resolves to nothing matches nothing.
NetworkMatches(cfg, m, ip) ==
    IF m.kind = "cidr"
    THEN ip \in m.hosts
    ELSE \E i \in DOMAIN cfg.aliases : cfg.aliases[i].name = m.name /\ ip \in cfg.aliases[i].hosts

\* The direction of a rule is not looked at (direction_matches).
RuleMatches(cfg, rule, pkt) ==
    /\ ProtoMatches(rule.protocol, pkt.proto)
    /\ NetworkMatches(cfg, rule.src, pkt.src)
    /\ NetworkMatches(cfg, rule.dst, pkt.dst)
    /\ Contains(rule.srcPort, pkt.sport)
    /\ Contains(rule.dstPort, pkt.dport)

Candidates(cfg, pkt) == ExactIndex(cfg.rules, pkt.proto, pkt.dport) \union WildcardRules(cfg.rules)

Matching(cfg, pkt, S) == {i \in S : RuleMatches(cfg, cfg.rules[i], pkt)}

\* The least number, 0 for none: the candidates are sorted before they are tried.
First(S) == IF S = {} THEN 0 ELSE CHOOSE i \in S : \A j \in S : i <= j

\* The rule that decides a packet, 0 for the default policy.
Deciding(cfg, pkt) == First(Matching(cfg, pkt, Candidates(cfg, pkt)))

\* The reference: the first rule of the file that matches.
LinearScan(cfg, pkt) == First(Matching(cfg, pkt, DOMAIN cfg.rules))

TrustedSource(cfg, ip) == ip \in cfg.trusted
=============================================================================
