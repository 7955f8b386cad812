----------------------------- MODULE MCDocSets -----------------------------
(***************************************************************************)
(* Unions and intersections of any two or three posting lists, and some    *)
(* patterns over all texts of up to three of two tokens.                   *)
(***************************************************************************)
EXTENDS DocSets, Patterns

CONSTANTS a, b

MCNumDocs == 3

Of(kinds, lists) ==
  [kind : kinds, lists : lists, matching : {{}}, panics : {{}}, meaning : {{}}]

Plain == Of({"union", "intersection"},
            [1 .. 2 -> SUBSET (0 .. 2)] \cup [1 .. 3 -> SUBSET (0 .. 2)])
           \cup Of({"union"}, {<<>>})

Texts == UNION {[1 .. n -> {a, b}] : n \in 1 .. 3}

AnyPattern == {
  <<Raw(<<a, b>>)>>,
  <<Raw(<<a>>), Wildcard, Raw(<<b>>)>>,
  <<Raw(<<b, a>>), Anchor>>,
  <<Raw(<<a, b, a>>)>>,
  <<Anchor, Raw(<<a, b>>)>>,
  <<Anchor, Raw(<<a>>), Wildcard, Raw(<<b>>)>>,
  <<Raw(<<a>>)>>}

PatternInput(parts, texts, Meaning(_, _, _)) ==
  LET sorted == SortedBySize(RawTerms(parts), texts)
      all == {d \in DOMAIN texts : \A k \in DOMAIN sorted :
                d \in DocsWith(sorted[k], texts)}
      outcome == [d \in all |-> Outcome(parts, texts[d], sorted)]
  IN  [kind |-> "pattern",
       lists |-> [k \in DOMAIN sorted |-> DocsWith(sorted[k], texts)],
       matching |-> {d \in all : outcome[d] = "match"},
       panics |-> {d \in all : outcome[d] = "panic"},
       meaning |-> {d \in all : Meaning(parts, texts[d], sorted)}]

MCInputs == UNION {
  Plain,
  {PatternInput(parts, texts, HasChain) :
     parts \in AnyPattern, texts \in [0 .. 2 -> Texts]}}

ASSUME MCInputsAssumption == \A in \in MCInputs : MeaningIsRight(in)
=============================================================================
