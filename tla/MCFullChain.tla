---------------------------- MODULE MCFullChain ----------------------------
(***************************************************************************)
(* Instances of FullChain for TLC.  Blocks: a Start s, blocks a and b, and *)
(* a last block j that is a Join or a third provider.  The chains of a run *)
(* are all the chains over these blocks that ValidateChain accepts, with   *)
(* every choice of neutral edges and, once, an outcome-coloured edge.      *)
(***************************************************************************)
EXTENDS FullChain, Functions

K == {"a", "b", "j", "s"}

(* Neutral connections among s, a, b and j that do not enter s.            *)
Connections ==
    [i \in 1..7 |-> [from |-> <<"s", "s", "s", "a", "b", "a", "b">>[i],
                     to   |-> <<"a", "b", "j", "b", "a", "j", "j">>[i],
                     cond |-> "next"]]

Neutrals(P) == SelectSeq(Connections, LAMBDA e : e \in P)

(* The coloured edge appears in the chains that end in a Join.             *)
Coloured(jKind) ==
    {<<>>} \cup IF jKind = "join" THEN {<<[from |-> "a", to |-> "b", cond |-> "fail"]>>} ELSE {}

Chain(P, coloured, jKind, sparse) ==
    [order      |-> <<"a", "b", "j", "s">>,
     kind       |-> [k \in K |-> CASE k = "s" -> "start" [] k = "j" -> jKind [] OTHER -> "provider"],
     isStart    |-> {},
     mode       |-> "full_chain",
     edges      |-> Neutrals(P) \o coloured,
     provider   |-> [k \in K |-> IF k = "b" THEN "q" ELSE "p"],
     retries    |-> [k \in K |-> IF k = "a" THEN 1 ELSE 0],
     answer     |-> [k \in K |-> k = "b" \/ (k = "j" /\ jKind = "provider")],
     sparse     |-> [k \in K |-> k = "b" /\ sparse],
     treatEmpty |-> [k \in K |-> k = "a"]]

AllChains(jKinds, sparse) ==
    {c \in UNION {{Chain(P, col, jk, sparse) : P \in SUBSET Range(Connections), col \in Coloured(jk)}
                      : jk \in jKinds} : ValidChain(c)}

MCChains == AllChains({"join", "provider"}, FALSE)
MCLiveChains == {c \in AllChains({"join"}, FALSE) : Len(c.edges) \in 3..4}
MCSparseChains == AllChains({"join"}, TRUE)

=============================================================================
