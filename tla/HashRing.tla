------------------------------ MODULE HashRing ------------------------------
(***************************************************************************)
(* The consistent hash ring of the gateways (internal/routing/ring.go):    *)
(* every node has vnodes virtual nodes on a ring of hash values, kept as a *)
(* sorted slice with a map to the nodes.  The hash of a virtual node is a  *)
(* number below Size; no two are equal.                                    *)
(***************************************************************************)
EXTENDS Integers, Sequences, FiniteSets

CONSTANTS Nodes, vnodes, Size

VARIABLES hash,    \* the hash function on virtual nodes
          keys, nodes, nodePresent

vars == <<hash, keys, nodes, nodePresent>>

VNodes == Nodes \X (1..vnodes)
Hashes == 0..(Size - 1)

Init ==
    /\ hash \in [VNodes -> Hashes]
    /\ \A v, w \in VNodes : hash[v] = hash[w] => v = w
    /\ keys = <<>> /\ nodes = <<>> /\ nodePresent = {}

-----------------------------------------------------------------------------
keysOf(n) == {hash[<<n, i>>] : i \in 1..vnodes}

\* The sorted slice of a set of keys.
sorted(S) == [i \in 1..Cardinality(S) |->
                CHOOSE k \in S : Cardinality({x \in S : x < k}) = i - 1]

elems == {keys[i] : i \in DOMAIN keys}

\* Mutation: the new keys are appended and not sorted in.
AddNode_Unsorted(n) ==
    /\ n \notin nodePresent /\ nodePresent' = nodePresent \union {n}
    /\ keys' = keys \o [i \in 1..vnodes |-> hash[<<n, i>>]]
    /\ nodes' = [k \in DOMAIN nodes \union keysOf(n) |->
                    IF k \in keysOf(n) THEN n ELSE nodes[k]]
    /\ UNCHANGED hash

AddNode(n) ==
    /\ n \notin nodePresent /\ nodePresent' = nodePresent \union {n}
    /\ keys' = sorted(elems \union keysOf(n))
    /\ nodes' = [k \in DOMAIN nodes \union keysOf(n) |->
                    IF k \in keysOf(n) THEN n ELSE nodes[k]]
    /\ UNCHANGED hash

RemoveNode(n) ==
    /\ n \in nodePresent /\ nodePresent' = nodePresent \ {n}
    /\ keys' = SelectSeq(keys, LAMBDA k : nodes[k] # n)
    /\ nodes' = [k \in {k \in DOMAIN nodes : nodes[k] # n} |-> nodes[k]]
    /\ UNCHANGED hash

\* sort.Search: the least index from 0 whose key is at least h, by bisection.
Search(h) ==
    LET n == Len(keys)
        bisect[i \in 0..n, j \in 0..n] ==
            IF i >= j THEN i
            ELSE LET m == (i + j) \div 2
                 IN  IF keys[m + 1] >= h THEN bisect[i, m] ELSE bisect[m + 1, j]
    IN  bisect[0, n]

\* Lookup and LookupPartition of a key with hash h; "" for no node.
Lookup(h) ==
    IF keys = <<>> THEN ""
    ELSE LET idx == Search(h)
         IN  nodes[keys[IF idx = Len(keys) THEN 1 ELSE idx + 1]]

Next == \E n \in Nodes : AddNode(n) \/ RemoveNode(n)

Spec == Init /\ [][Next]_vars

-----------------------------------------------------------------------------
\* Type invariant: the slice is sorted, and it and the map hold the virtual nodes of
\* the present nodes, whatever joined and left before (AddNode, RemoveNode).
TypeOK ==
    /\ nodePresent \subseteq Nodes
    /\ elems = UNION {keysOf(n) : n \in nodePresent} /\ DOMAIN nodes = elems
    /\ \A i \in 1..(Len(keys) - 1) : keys[i] < keys[i + 1]

\* Clockwise distance from h to k.
distance(h, k) == (k - h + Size) % Size

\* Reference: a key belongs to the node that has the nearest virtual node clockwise,
\* and two gateways with the same members agree on it (Lookup, LookupPartition).
NearestOwns ==
    \A h \in Hashes :
        IF nodePresent = {} THEN Lookup(h) = ""
        ELSE \E n \in nodePresent : \E k \in keysOf(n) :
                /\ Lookup(h) = n
                /\ \A m \in nodePresent : \A l \in keysOf(m) : distance(h, k) <= distance(h, l)

\* A key changes its owner only away from a node that leaves or to a node that joins
\* (AddNode, RemoveNode): the others keep their symbols.
MinimalMoves ==
    [][nodePresent' # nodePresent => \A h \in Hashes :
          \/ Lookup(h)' = Lookup(h)
          \/ Lookup(h) \notin nodePresent' \/ Lookup(h)' \notin nodePresent]_vars
=============================================================================
