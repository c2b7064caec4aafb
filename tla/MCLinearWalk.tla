---------------------------- MODULE MCLinearWalk ----------------------------
(***************************************************************************)
(* Instances of LinearWalk for TLC: three blocks, the last a provider or a *)
(* Join, with or without a Start block, every choice of up to three        *)
(* connections among them with every condition, and policies that stop,    *)
(* follow edges or continue.                                               *)
(***************************************************************************)
EXTENDS LinearWalk, Functions

OneOfEach == {"next", "success", "empty", "fail"}
Pair == <<<<"a", "b">>, <<"a", "c">>, <<"b", "c">>>>

Connections(f) ==
    LET edge(i) == [from |-> Pair[i][1], to |-> Pair[i][2], cond |-> f[i]]
    IN  SelectSeq([i \in 1..3 |-> edge(i)], LAMBDA e : e.cond # "none")

Policies == {[success |-> s, empty |-> "", fail |-> f] : s \in {"", "next"}, f \in {"", "edge"}}
Default == [success |-> "", empty |-> "", fail |-> ""]

Chain(conds, start, m, policy, kindOfC) ==
    LET K == {"a", "b", "c"} \cup IF start THEN {"s"} ELSE {}
        first == IF start THEN <<[from |-> "s", to |-> "a", cond |-> "next"]>> ELSE <<>>
    IN  [order      |-> IF start THEN <<"a", "b", "c", "s">> ELSE <<"a", "b", "c">>,
         kind       |-> [k \in K |-> IF k = "s" THEN "start"
                                   ELSE IF k = "c" THEN kindOfC ELSE "provider"],
         isStart    |-> IF start THEN {} ELSE {"a"},
         mode       |-> m,
         edges      |-> first \o Connections(conds),
         provider   |-> [k \in K |-> IF k = "b" THEN "q" ELSE "p"],
         retries    |-> [k \in K |-> IF k = "a" THEN 1 ELSE 0],
         answer     |-> [k \in K |-> k = "b"],
         sparse     |-> [k \in K |-> k = "b" /\ start],
         treatEmpty |-> [k \in K |-> k # "c"],
         policy     |-> [k \in K |-> IF k = "a" THEN policy ELSE Default]]

MCChains ==
    {c \in {Chain(f, start, m, p, kc) : f \in [1..3 -> OneOfEach \cup {"none"}], start \in BOOLEAN,
                                  m \in {"first_success", "full_chain"}, p \in Policies,
                                  kc \in {"provider", "join"}} :
        /\ ValidChain(c)
        /\ c.mode = "full_chain" => ~HasStartBlock(c) /\ c.policy["a"] = Default}

=============================================================================
