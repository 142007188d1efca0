------------------------------ MODULE MerkleTree ------------------------------
(***************************************************************************)
(* The Merkle tree of a manifest: its root, its inclusion proofs, and the  *)
(* two checks made with them, of a whole list of chunk digests before it   *)
(* is adopted and of one chunk with an audit path.                         *)
(*                                                                         *)
(* Hashing is modelled as free terms: a hash equals another only if it is  *)
(* of the same thing in the same domain (the 0x00, 0x01 and 0x02 prefixes).*)
(***************************************************************************)
EXTENDS Integers, Sequences, SequencesExt, PowersOfTwo

CONSTANTS
    Digests,     \* SHA-256 digests chunks may have
    MaxLeaves    \* bound: chunks of a manifest

ASSUME MerkleAssumption == MaxLeaves \in Nat \ {0}

VARIABLES
    chunks,      \* the digests the root was computed over
    answer       \* the check that was made: what was asked, and what it said

merkleVars == <<chunks, answer>>

hash_leaf(d) == <<"leaf", d>>
hash_parent(left, right) == <<"parent", left, right>>
HashRootUncounted(node, count) == <<"root", node>>
hash_root(node, count) == <<"root", node, count>>

\* The level above one; an odd node is paired with itself.
NextLevel(level) ==
    [i \in 1..((Len(level) + 1) \div 2) |->
        hash_parent(level[2 * i - 1],
                    IF 2 * i =< Len(level) THEN level[2 * i] ELSE level[2 * i - 1])]

\* Levels above the leaves of a list of n: the least k with 2^k >= n.
Depth(n) == CHOOSE k \in 0..n : TwoTo[k] >= n /\ \A j \in 0..(k - 1) : TwoTo[j] < n

\* The levels of a tree, leaves first.
Levels(list) ==
    LET level[k \in 0..Depth(Len(list))] ==
            IF k = 0 THEN [i \in 1..Len(list) |-> hash_leaf(list[i])]
            ELSE NextLevel(level[k - 1])
    IN  level

Root(list) == hash_root(Levels(list)[Depth(Len(list))][1], Len(list))

\* get_proof: the sibling of each node on the way up, and its side.
Proof(list, leaf) ==
    [k \in 1..Depth(Len(list)) |->
        LET level == Levels(list)[k - 1]
            idx == leaf \div TwoTo[k - 1]
        IN  IF idx % 2 = 1 THEN [sibling |-> level[idx], side |-> "left"]
            ELSE [sibling |-> level[IF idx + 2 =< Len(level) THEN idx + 2 ELSE idx + 1],
                  side |-> "right"]]

\* The node a proof leads to.
Climb(digest, proof) ==
    FoldLeft(LAMBDA node, s : IF s.side = "left" THEN hash_parent(s.sibling, node)
                              ELSE hash_parent(node, s.sibling),
             hash_leaf(digest), proof)

\* Leaf counts of a tree of this depth, tried when the count is not known.
CountsOfDepth(depth) == IF depth = 0 THEN {1} ELSE (TwoTo[depth - 1] + 1)..TwoTo[depth]

verify_inclusion(digest, proof, root, counts) ==
    \E count \in counts : hash_root(Climb(digest, proof), count) = root

Lists == UNION {[1..n -> Digests] : n \in 1..MaxLeaves}

MerkleInit ==
    /\ chunks \in Lists
    /\ answer = [asked |-> "nothing"]

\* _load_manifest_chunks: a list is adopted if the declared root is its root.
VerifyMerkleRoot ==
    /\ answer.asked = "nothing"
    /\ \E list \in Lists :
           answer' = [asked |-> "list", list |-> list, yes |-> Root(list) = Root(chunks)]
    /\ UNCHANGED chunks

\* An audit path of one chunk, with a digest that may be another one's, and
\* with or without the number of chunks.
VerifyInclusion ==
    /\ answer.asked = "nothing"
    /\ \E leaf \in 0..(Len(chunks) - 1), digest \in Digests, known \in BOOLEAN :
           LET proof == Proof(chunks, leaf)
               counts == IF known THEN {Len(chunks)} ELSE CountsOfDepth(Len(proof))
           IN  answer' = [asked |-> "leaf", leaf |-> leaf, digest |-> digest,
                          yes |-> verify_inclusion(digest, proof, Root(chunks), counts)]
    /\ UNCHANGED chunks

MerkleNext == VerifyMerkleRoot \/ VerifyInclusion

MerkleSpec == MerkleInit /\ [][MerkleNext]_merkleVars

-----------------------------------------------------------------------------
(* Properties *)

(***************************************************************************)
(* A list of digests has the declared root only if it is the list the root *)
(* was computed over, of the same length (a list whose tail is doubled has *)
(* the same inner nodes); and an audit path proves the digest at its index *)
(* and no other, whether or not the number of chunks is known.             *)
(***************************************************************************)
ChecksSayTheTruth ==
    /\ answer.asked = "list" => answer.yes = (answer.list = chunks)
    /\ answer.asked = "leaf" => answer.yes = (chunks[answer.leaf + 1] = answer.digest)
=============================================================================
