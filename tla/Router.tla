-------------------------------- MODULE Router --------------------------------
(***************************************************************************)
(* The radix tree that maps request paths to locations: RouterNode of      *)
(* src/src/router.rs.  RouterNode::from_config inserts the locations of    *)
(* the configuration in order; the tree is then only searched.             *)
(*                                                                         *)
(* Paths are sequences of bytes in UTF-8: a byte in Continuation is not    *)
(* the first of its character.  Common prefixes are computed in bytes, the *)
(* first character of an edge is compared as a character, and a slice that *)
(* cuts a character in two panics.                                         *)
(*                                                                         *)
(* The tree the code owns is kept here as a sequence of nodes that refer   *)
(* to their children by position; node 1 is the root.  Each recursive call *)
(* of insert is one action.  A handler is the number of its location, 0    *)
(* stands for None.  full is a history variable: the path from the root.   *)
(***************************************************************************)
EXTENDS Naturals, SequencesExt

CONSTANTS
  Bytes,         \* values of a byte
  Continuation,  \* bytes that continue a character
  Paths,         \* paths a location can have
  Queries,       \* request paths looked up
  MaxLocations   \* bound on the locations of a configuration

MatchTypes == {"Exact", "Prefix"}

\* str::is_char_boundary
Boundary(s, k) == k \in 1..(Len(s) - 1) => s[k + 1] \notin Continuation

ASSUME StringsAssumption ==
  /\ Paths \subseteq Seq(Bytes) /\ Queries \subseteq Seq(Bytes)
  /\ MaxLocations \in Nat

\* Where the characters of a str end is known from its bytes so far: two paths
\* that begin alike have the same characters there.
ASSUME Utf8Assumption ==
  \A p, q \in Paths : \A k \in 1..Len(p) :
    k <= Len(q) /\ SubSeq(p, 1, k) = SubSeq(q, 1, k) => (Boundary(p, k) <=> Boundary(q, k))

VARIABLES
  locations,  \* the locations inserted so far, the current one included
  nodes,      \* the tree: [path, children, match_type, handler]
  full,       \* history: full[n] is the path from the root to node n
  at,         \* self of the insert that runs
  rest,       \* its full_path argument: what is left of the location's path
  pc          \* "idle", "insert", "serving" or "panicked"

vars == <<locations, nodes, full, at, rest, pc>>

\* Faulty variant: edges are compared by their first byte.
EdgeByte(s) == SubSeq(s, 1, 1)

\* chars().next() of a non-empty string.
EdgeChar(s) ==
  SubSeq(s, 1, CHOOSE k \in 1..Len(s) : /\ Boundary(s, k)
                                        /\ \A j \in 1..(k - 1) : ~ Boundary(s, j))

\* In bytes.
calculate_common_prefix_len(s, t) == Len(LongestCommonPrefix({s, t}))

Node(p, ty, h) == [path |-> p, children |-> <<>>, match_type |-> ty, handler |-> h]

TypeOK ==
  /\ locations \in Seq([path : Paths, match_type : MatchTypes])
  /\ Len(locations) <= MaxLocations
  /\ Len(full) = Len(nodes)
  /\ \A n \in DOMAIN nodes :
       /\ nodes[n].match_type \in MatchTypes
       /\ nodes[n].handler \in 0..Len(locations)
       /\ ToSet(nodes[n].children) \subseteq 2..Len(nodes)
  /\ at \in DOMAIN nodes
  /\ pc \in {"idle", "insert", "serving", "panicked"}

Init ==
  /\ locations = <<>>
  /\ nodes = <<Node(<<>>, "Exact", 0)>>
  /\ full = << <<>> >>
  /\ at = 1
  /\ rest = <<>>
  /\ pc = "idle"

-------------------------------------------------------------------------------
(* Building the tree. *)

current == locations[Len(locations)]

\* from_config takes the next location of the configuration.
BeginInsert(p, ty) ==
  /\ pc = "idle"
  /\ Len(locations) < MaxLocations
  /\ locations' = Append(locations, [path |-> p, match_type |-> ty])
  /\ at' = 1
  /\ rest' = p
  /\ pc' = "insert"
  /\ UNCHANGED <<nodes, full>>

\* Faulty variant: only the last child is looked at.
SameEdgeLast ==
  {i \in DOMAIN nodes[at].children :
     LET edge == nodes[nodes[at].children[i]].path
     IN  /\ i = Len(nodes[at].children)
         /\ edge # <<>> /\ IsPrefix(EdgeChar(edge), rest)}

\* The positions of the children of node at whose first character starts rest;
\* a child with an empty path is passed over.
SameEdge ==
  {i \in DOMAIN nodes[at].children :
     LET edge == nodes[nodes[at].children[i]].path
     IN  edge # <<>> /\ IsPrefix(EdgeChar(edge), rest)}

child == nodes[at].children[CHOOSE i \in SameEdge : \A j \in SameEdge : i <= j]
common == calculate_common_prefix_len(nodes[child].path, rest)

\* No child to go into: a new one is pushed.
PushChild ==
  /\ pc = "insert"
  /\ SameEdge = {}
  /\ nodes' = Append([nodes EXCEPT ![at].children = Append(@, Len(nodes) + 1)],
                     Node(rest, current.match_type, Len(locations)))
  /\ full' = Append(full, full[at] \o rest)
  /\ pc' = "idle"
  /\ UNCHANGED <<locations, at, rest>>

\* Faulty variant: the node made from the suffix is not pushed.
split_child_lost(n, k) ==
  [nodes EXCEPT ![n] = [path |-> SubSeq(nodes[n].path, 1, k),
                        children |-> <<Len(nodes) + 1>>,
                        match_type |-> "Prefix", handler |-> 0]]

\* split_child: node n keeps the first k bytes of its path; a new node below
\* it gets the others, its children, its handler and its match type.
split_child(n, k) ==
  LET suffix == [nodes[n] EXCEPT !.path = SubSeq(@, k + 1, Len(@))]
      stem == [path |-> SubSeq(nodes[n].path, 1, k), children |-> <<Len(nodes) + 1>>,
               match_type |-> "Prefix", handler |-> 0]
  IN  Append([nodes EXCEPT ![n] = stem], suffix)

\* The tree, and the history of its paths, once the child has been split if
\* its edge is longer than the common prefix.
Splits == common < Len(nodes[child].path)
Prepared == IF Splits THEN split_child(child, common) ELSE nodes
PreparedFull ==
  IF Splits THEN Append([full EXCEPT ![child] = full[at] \o SubSeq(rest, 1, common)],
                        full[child])
            ELSE full

\* The slice in split_child cuts a character.
SplitPanics ==
  /\ pc = "insert"
  /\ SameEdge # {}
  /\ ~ Boundary(nodes[child].path, common)
  /\ pc' = "panicked"
  /\ UNCHANGED <<locations, nodes, full, at, rest>>

\* Faulty variant: the child keeps its match type.
SetHandlerOnly ==
  /\ pc = "insert"
  /\ SameEdge # {}
  /\ Boundary(nodes[child].path, common)
  /\ common = Len(rest)
  /\ nodes' = [Prepared EXCEPT ![child].handler = Len(locations)]
  /\ full' = PreparedFull
  /\ pc' = "idle"
  /\ UNCHANGED <<locations, at, rest>>

\* The location's path ends at the child, which becomes the location's node.
SetHandler ==
  /\ pc = "insert"
  /\ SameEdge # {}
  /\ Boundary(nodes[child].path, common)
  /\ common = Len(rest)
  /\ nodes' = [Prepared EXCEPT ![child].handler = Len(locations),
                               ![child].match_type = current.match_type]
  /\ full' = PreparedFull
  /\ pc' = "idle"
  /\ UNCHANGED <<locations, at, rest>>

\* child.insert(remaining_path, ..)
Descend ==
  /\ pc = "insert"
  /\ SameEdge # {}
  /\ Boundary(nodes[child].path, common)
  /\ common < Len(rest)
  /\ nodes' = Prepared
  /\ full' = PreparedFull
  /\ at' = child
  /\ rest' = SubSeq(rest, common + 1, Len(rest))
  /\ UNCHANGED <<locations, pc>>

\* from_config returns the router.
Finish ==
  /\ pc = "idle"
  /\ pc' = "serving"
  /\ UNCHANGED <<locations, nodes, full, at, rest>>

Next ==
  \/ \E p \in Paths, ty \in MatchTypes : BeginInsert(p, ty)
  \/ PushChild \/ SplitPanics \/ SetHandler \/ Descend
  \/ Finish

Spec == Init /\ [][Next]_vars

-------------------------------------------------------------------------------
(* Searching it. *)

None == [handler |-> 0, rest |-> <<>>]

\* Faulty variant: a location is preferred to those below it.
answer_shallow(node, left, deeper) ==
  IF node.handler # 0 /\ (left = <<>> \/ node.match_type = "Prefix")
  THEN [handler |-> node.handler, rest |-> left]
  ELSE IF left = <<>> THEN None ELSE deeper

\* What a child whose edge the query starts with answers: left is the query
\* after the edge, deeper what the child's own search finds for left.
answer(node, left, deeper) ==
  LET here == [handler |-> node.handler, rest |-> left]
  IN  CASE left = <<>> /\ node.handler # 0 -> here
        [] left # <<>> /\ deeper # None -> deeper
        [] OTHER -> IF node.match_type = "Prefix" /\ node.handler # 0 THEN here ELSE None

\* found[p][n] is what search returns, called on node n with the query from
\* its byte p on: what the first child to have an answer answers.
search(q) ==
  LET From(p) == SubSeq(q, p + 1, Len(q))
      found[p \in 0..Len(q)] ==
        [n \in DOMAIN nodes |->
           LET kids == nodes[n].children
               Try(c) == LET p2 == p + Len(nodes[c].path)
                         IN  IF IsPrefix(nodes[c].path, From(p))
                             THEN answer(nodes[c], From(p2), found[p2][c]) ELSE None
               hits == {i \in DOMAIN kids : Try(kids[i]) # None}
           IN  IF hits = {} THEN None
               ELSE Try(kids[CHOOSE i \in hits : \A j \in hits : i <= j])]
  IN  found[0][1]

-------------------------------------------------------------------------------
(* Properties *)

Promise == INSTANCE RouteTable WITH
  table <- {[path |-> full[n], match_type |-> nodes[n].match_type,
             handler |-> nodes[n].handler] :
              n \in {m \in DOMAIN nodes : nodes[m].handler # 0}},
  registered <- IF pc \in {"insert", "panicked"} THEN Front(locations) ELSE locations,
  phase <- IF pc \in {"idle", "insert"} THEN "building" ELSE pc

\* However edges are split by later locations, every location stays under its
\* own path with its own match type until one with the same path replaces it:
\* the tree implements the table.
ImplementsRouteTable == Promise!Spec

\* search returns the longest matching location and what is left of the
\* request path, for every order of insertion and every way edges were split.
SearchIsLongestMatch ==
  pc = "serving" => \A q \in Queries : search(q) = Promise!LongestMatch(q)

\* No location that may serve a request and has not been replaced is longer
\* than the one search returns, as src/src/server.rs:257 says of the longest
\* prefix.  Fails when a location with an empty path comes first: it makes a
\* sibling that every request matches.
LongestPrefixWins ==
  pc = "serving" =>
    \A q \in Queries, i \in DOMAIN locations :
      /\ locations[i].match_type = "Prefix" /\ IsPrefix(locations[i].path, q)
      /\ \A j \in DOMAIN locations : j > i => locations[j].path # locations[i].path
      => LET h == search(q).handler
         IN  h # 0 /\ Len(locations[i].path) <= Len(locations[h].path)

\* Between insertions the tree is a radix tree: edges are non-empty, siblings
\* differ in their first character (so search never has two ways to go), and
\* a node without location branches.
RadixShape ==
  pc \in {"idle", "serving"} =>
    \A n \in DOMAIN nodes :
      LET kids == nodes[n].children
      IN  /\ n # 1 => nodes[n].path # <<>>
          /\ n # 1 /\ nodes[n].handler = 0 => Len(kids) >= 2
          /\ \A i, j \in DOMAIN kids :
               EdgeChar(nodes[kids[i]].path) = EdgeChar(nodes[kids[j]].path) => i = j

\* The tree has a node for w: a location has path w, or two branch there.
HasNode(locs, w) ==
  \/ w = <<>>
  \/ \E i \in DOMAIN locs : locs[i].path = w
  \/ \E i, j \in DOMAIN locs :
       LET p == locs[i].path
           q == locs[j].path
       IN  /\ IsStrictPrefix(w, p) /\ IsStrictPrefix(w, q)
           /\ EdgeChar(SubSeq(p, Len(w) + 1, Len(p)))
                # EdgeChar(SubSeq(q, Len(w) + 1, Len(q)))

\* Inserting p after locs compares it with an edge that shares only part of a
\* character with it.
CutsCharacter(locs, p) ==
  \E i \in DOMAIN locs :
    LET k == calculate_common_prefix_len(locs[i].path, p)
        whole == CHOOSE w \in 0..k : /\ Boundary(p, w)
                                     /\ \A v \in (w + 1)..k : ~ Boundary(p, v)
    IN  ~ Boundary(p, k) /\ ~ HasNode(locs, SubSeq(p, 1, whole))

\* The server fails to start exactly when two paths part in the middle of a
\* character and no earlier location made a node just before it: the order of
\* the locations decides.
PanicPredicted ==
  LET Cuts(n) == CutsCharacter(SubSeq(locations, 1, n - 1), locations[n].path)
  IN  /\ pc = "panicked" => Cuts(Len(locations))
      /\ pc = "serving" => \A n \in DOMAIN locations : ~ Cuts(n)
===============================================================================
