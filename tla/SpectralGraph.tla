---------------------------- MODULE SpectralGraph ----------------------------
(***************************************************************************)
(* The graph the spectral engine embeds: SpectralSecurityGraph::build over *)
(* the edges observed so far, and build_connected_graph, which adds a      *)
(* phantom hub when they leave the graph in pieces (the Laplacian of a     *)
(* disconnected graph has no positive algebraic connectivity, and commute  *)
(* times across pieces are infinite).                                      *)
(*                                                                         *)
(* Nodes are entity names instead of their indices.  Index 0 is the source *)
(* of the first edge; the hub and the padding of a graph with one entity   *)
(* are nodes without an entity.                                            *)
(***************************************************************************)
EXTENDS Integers, Sequences, FiniteSets

Hub == "hub"

Padding == "padding"

Entities(edges) == UNION {{edges[i][1], edges[i][2]} : i \in DOMAIN edges}

(* n = entity_index.len().max(2)                                           *)
Nodes(edges) == IF Cardinality(Entities(edges)) = 1
                THEN Entities(edges) \cup {Padding} ELSE Entities(edges)

(* Graph::add_edge skips loops and repetitions.                            *)
Links(edges) == {{edges[i][1], edges[i][2]} : i \in {i \in DOMAIN edges : edges[i][1] # edges[i][2]}}

Neighbours(S, links) == {v \in UNION links : \E u \in S : {u, v} \in links}

(* bfs_distances: the nodes with a distance from node 0.                   *)
Reached(nodes, links, zero) ==
  LET ring[d \in 0..Cardinality(nodes)] ==
        IF d = 0 THEN {zero} ELSE ring[d - 1] \cup Neighbours(ring[d - 1], links)
  IN  ring[Cardinality(nodes)]

(* Mutant: the hub joins the stray nodes to each other but not to node 0.  *)
StaplesWithoutZero(stray, zero) == {{v, Hub} : v \in stray}

Staples(stray, zero) == {{v, Hub} : v \in stray \cup {zero}}

(* build_connected_graph on what build collected.                          *)
Build(edges) ==
  LET zero  == edges[1][1]
      stray == Nodes(edges) \ Reached(Nodes(edges), Links(edges), zero)
  IN  IF stray = {}
      THEN [nodes |-> Nodes(edges), links |-> Links(edges)]
      ELSE [nodes |-> Nodes(edges) \cup {Hub},
            links |-> Links(edges) \cup Staples(stray, zero)]

-----------------------------------------------------------------------------
(* The reference definition: no cut separates a part from the rest.        *)
Connected(nodes, links) ==
  \A S \in (SUBSET nodes) \ {{}, nodes} :
    \E l \in links : l \cap S # {} /\ l \ S # {}
=============================================================================
