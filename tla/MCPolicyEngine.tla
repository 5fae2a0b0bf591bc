--------------------------- MODULE MCPolicyEngine ---------------------------
(* Small instances of PolicyEngine for TLC, beside its corpus and the demo. *)
EXTENDS Simulation, TLC

\* An AP2 mandate as its principal signed it: up to 8, food only, expired from tick 1.
Food == Signed([AP2("m1", "p1", 8, {"food"}) EXCEPT !.expiry = 1])

\* An ACP token under the same id; under another, a mandate that has every field, one
\* that has none, one without a time zone, and one with a ceiling that is none.
Agreed ==
    {Food,
     Signed([ACP("m1", "p1", "shop", 6) EXCEPT !.expiry = 1]),
     Signed([ACP("m2", "p1", "shop", 6) EXCEPT !.expiry = 1, !.max = 8, !.scope = {"food"}]),
     Signed(Unsigned("m2", "p2")),
     Signed([AP2("m2", "p2", 8, None) EXCEPT !.expiry = Naive]),
     Signed(AP2("m2", "p2", NaN, None))}

\* A raised ceiling; another principal's signature; a stranger's own.
Pool == Agreed \cup
    {[Food EXCEPT !.max = 9],
     ForgedBy(Food, "p2"),
     Signed([Food EXCEPT !.principal = "ghost"])}

\* Amounts about half of the cap, up to the cap and above it, and bad ones.
Purchases ==
    {Tx("shop", a, "food") : a \in {NaN, 0, 3, 4, 6, 7, 8, 9}}
    \cup {Tx("other", 6, "food"), Tx("shop", 6, None)}

\* Threads are interchangeable.
Symmetry == Permutations(Threads)
=============================================================================
