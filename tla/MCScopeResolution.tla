------------------------- MODULE MCScopeResolution --------------------------
(***************************************************************************)
(* A small instance of ScopeResolution: two lenders, the first of which    *)
(* replaces its manual at midnight, in the course of a day, or not; offers *)
(* a second product; or has a manifest that must not load.                 *)
(***************************************************************************)
EXTENDS ScopeResolution

CONSTANTS nova, lumen, flex, path, plus, V0, V1

Spec0(lender, document, version, order, from, until, supersedes) ==
  [lender |-> lender, document |-> document, version |-> version, order |-> order,
   from |-> from, until |-> until, supersedes |-> supersedes,
   status |-> IF until = Open THEN "current" ELSE "historical"]

\* Day 0 ends with instant 1, day 1 with instant 3.
Nova0(until) == Spec0(nova, flex, V0, 0, 0, until, Open)
Nova1(from)  == Spec0(nova, flex, V1, 1, from, Open, V0)
Lumen        == Spec0(lumen, path, V1, 0, 2, Open, Open)
Second       == Spec0(nova, plus, V1, 0, 0, Open, Open)

Corpora == {{Nova0(1), Nova1(2), Lumen},           \* at midnight
            {Nova0(2), Nova1(3)},                  \* in the course of day 1
            {Nova0(1), Nova1(2), Second, Lumen},   \* two products, one lender
            {Nova0(3), Nova1(1), Lumen}}           \* overlapping: invalid

Say(words, days, notes) == [words |-> words, days |-> days, notes |-> notes]

Mentions == {nova, lumen, V0, V1, "both", "gap"}

Words(n) == UNION {[1..k -> Mentions] : k \in 0..n}

Marks(notes) == {<<{}, {}>>} \cup {<<{d}, {}>> : d \in Days}
                             \cup {<<{}, {n}>> : n \in notes}

Asked ==
  {Say(w, m[1], m[2]) : w \in Words(1), m \in Marks(Notes)}
  \cup {Say(w, m[1], m[2]) : w \in Words(2), m \in Marks({"compare", "current"})}
  \cup {Say(w, {}, {"compare"}) : w \in
          {<<nova, V0, "gap", lumen>>, <<V0, nova, V1, "gap", lumen>>,
           <<nova, V0, lumen, V1>>, <<"both", V1, nova, lumen>>}}

Replied ==
  {Say(<<w>>, {}, {}) : w \in Mentions \ {"gap"}}
  \cup {Say(<<>>, m[1], m[2]) : m \in Marks({"bad_date", "historical"})}
  \cup {Say(<<lumen, V1>>, {}, {}), Say(<<"both", V1>>, {}, {}),
        Say(<<nova, V0, "gap", lumen, V1>>, {}, {})}
=============================================================================
