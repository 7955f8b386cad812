------------------------------ MODULE Patterns -----------------------------
(***************************************************************************)
(* The patterns of goggle instructions (ranking/goggles/pattern_query.rs). *)
(* A text is the sequence of tokens of a url; a pattern is a sequence of   *)
(* parts: raw tokens, wildcards and anchors.  Delimiters do nothing in the *)
(* code and are left out.                                                  *)
(***************************************************************************)
EXTENDS Integers, Sequences, SequencesExt, FiniteSetsExt

Wildcard == [kind |-> "wildcard", tokens |-> <<>>]
Anchor == [kind |-> "anchor", tokens |-> <<>>]
Raw(tokens) == [kind |-> "raw", tokens |-> tokens]

\* PatternQuery::new: the tokens of all raw parts.
RawTerms(parts) == FlattenSeq([i \in DOMAIN parts |-> parts[i].tokens])

\* The postings of a term; texts maps each document to its text.
DocsWith(term, texts) == {d \in DOMAIN texts : \E p \in DOMAIN texts[d] : texts[d][p] = term}

\* Where a term is in a text, counted from zero.
PositionsIn(term, text) ==
  SetToSortSeq({p - 1 : p \in {q \in DOMAIN text : text[q] = term}}, <)

\* Intersection::new sorts the posting lists by their sizes.
SortedBySize(terms, texts) ==
  LET Size(i) == Cardinality(DocsWith(terms[i], texts))
      order == SortSeq([i \in DOMAIN terms |-> i],
                       LAMBDA i, j : Size(i) < Size(j) \/ (Size(i) = Size(j) /\ i < j))
  IN  [i \in DOMAIN terms |-> terms[order[i]]]

Unlimited == 1000                 \* u32::MAX, beyond any position

LowerEnd(position, slop) == IF position >= slop THEN position - slop ELSE 0

\* intersection_with_slop: the right positions that some left one precedes
\* by no more than slop, found by one pass over both.
IntersectionWithSlop(left, right, slop) ==
  LET BestFrom(l, r) == Max({k \in l .. Len(left) : left[k] <= right[r]})
      from[l \in 1 .. Len(left) + 1, r \in 1 .. Len(right) + 1] ==
        IF l > Len(left) \/ r > Len(right)
          THEN <<>>
          ELSE IF left[l] < LowerEnd(right[r], slop)
                 THEN from[l + 1, r]
                 ELSE IF left[l] <= right[r]
                        THEN <<right[r]>> \o from[BestFrom(l, r), r + 1]
                        ELSE from[l, r + 1]
  IN  from[1, 1]

\* perform_pattern_match, with the positions of each list in the order of the
\* lists.  The loop skips the first part.  A list beyond the last is a panic.
PerformPatternMatch(parts, positions, numTokens) ==
  LET from[i \in 2 .. Len(parts) + 1, left \in Seq(Nat),
           current \in Nat, slop \in Nat] ==
        IF i > Len(parts)
          THEN "match"
          ELSE CASE parts[i].kind = "raw" ->
                      IF current + 1 > Len(positions)
                        THEN "panic"
                        ELSE LET both == IntersectionWithSlop(left, positions[current + 1], slop)
                             IN  IF both = <<>> THEN "none"
                                                ELSE from[i + 1, both, current + 1, 1]
                 [] parts[i].kind = "wildcard" -> from[i + 1, left, current, Unlimited]
                 [] parts[i].kind = "anchor" /\ i = Len(parts) ->
                      IF Last(positions[Len(positions)]) /= numTokens - 1
                        THEN "none"
                        ELSE from[i + 1, left, current, slop]
                 [] OTHER -> from[i + 1, left, current, slop]
  IN  from[2, positions[1], 1, 1]

\* What a scorer finds when it stands on a document that has all terms.
Outcome(parts, text, sorted) ==
  PerformPatternMatch(parts, [k \in DOMAIN sorted |-> PositionsIn(sorted[k], text)],
                      Len(text))
-----------------------------------------------------------------------------
(* What the loop of perform_pattern_match computes: a chain of positions,    *)
(* one in each list that a raw part comes to, each no further from the one   *)
(* before than the wildcards between them allow; and with an anchor at the   *)
(* end, the last list has the last token.                                    *)
HasChain(parts, text, sorted) ==
  LET steps == SelectSeq([i \in DOMAIN parts |-> i],
                         LAMBDA i : i > 1 /\ parts[i].kind = "raw")
      Free(k) == \E j \in (IF k = 1 THEN 2 ELSE steps[k - 1]) .. steps[k] :
                   parts[j].kind = "wildcard"
      Close(p, q, k) == p <= q /\ (Free(k) \/ q <= p + 1)
      At(p, k) == p \in DOMAIN text /\ text[p] = sorted[k]
  IN  /\ Len(steps) < Len(sorted)
      /\ \E chain \in [0 .. Len(steps) -> DOMAIN text] :
           /\ At(chain[0], 1)
           /\ \A k \in 1 .. Len(steps) :
                At(chain[k], k + 1) /\ Close(chain[k - 1], chain[k], k)
      /\ Len(parts) > 1 /\ Last(parts) = Anchor => Last(text) = Last(sorted)
=============================================================================
