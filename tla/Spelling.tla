------------------------------ MODULE Spelling -----------------------------
(***************************************************************************)
(* How an index corrects the words of a query (spell/distance.rs,          *)
(* spell/dictionary.rs, spell/spell_checker.rs, spell/splitter.rs and      *)
(* Index::spell_correction).  A dictionary is a bag of words; the letters  *)
(* of a word are given by Letters.  What depends on the order of a hash    *)
(* set is a set of possible results.                                       *)
(***************************************************************************)
EXTENDS Integers, Sequences, SequencesExt, FiniteSets, FiniteSetsExt, Bags

CONSTANTS Letters,         \* for each word its sequence of letters
          MaxEditDistance  \* of LogarithmicEdit::new: 4 in the code

ASSUME SpellingAssumption == MaxEditDistance \in Nat

\* LevenshteinDistance::compare
Distance(a, b) ==
  LET from[i \in 0 .. Len(a), j \in 0 .. Len(b)] ==
        IF i = 0 THEN j
        ELSE IF j = 0 THEN i
        ELSE Min({from[i - 1, j] + 1, from[i, j - 1] + 1,
                  from[i - 1, j - 1] + (IF a[i] = b[j] THEN 0 ELSE 1)})
  IN  from[Len(a), Len(b)]

Log2(n) == Max({k \in 0 .. n : 2 ^ k <= n})

\* LogarithmicEdit::distance_for_string
EditDistance(word) == Max({1, Min({Log2(Len(Letters[word])), MaxEditDistance})})

\* Dictionary::all_probabilities
WordsAt(dictionary, word, distance) ==
  {w \in DOMAIN dictionary : Distance(Letters[word], Letters[w]) = distance}

\* SpellChecker::correct_top for one: the most frequent of the nearest words.
CorrectTop(dictionary, word) ==
  LET near == {d \in 0 .. EditDistance(word) : WordsAt(dictionary, word, d) /= {}}
      nearest == IF near = {} THEN {} ELSE WordsAt(dictionary, word, Min(near))
  IN  {w \in nearest : \A v \in nearest : dictionary[v] <= dictionary[w]}

\* A term with more than one word in it is not alphabetic.
Corrected(dictionary, term) ==
  IF Len(term) /= 1 \/ term[1] \notin DOMAIN Letters \/ CorrectTop(dictionary, term[1]) = {}
    THEN {term}
    ELSE {<<w>> : w \in CorrectTop(dictionary, term[1])}

\* The corrections of Index::spell_check, the unchanged terms among them.
SpellCheck(dictionary, terms) ==
  LET Joined(done, term) == {before \o now : before \in done, now \in Corrected(dictionary, term)}
  IN  FoldLeft(Joined, {<<>>}, terms)

\* TermSplitter::split: the most probable words that the letters fall into,
\* of the equally probable the earliest last word; <<>> if that is one word
\* or there are none.
Split(dictionary, word) ==
  LET letters == Letters[word]
      Spells(j, i) == {w \in DOMAIN dictionary : Letters[w] = SubSeq(letters, j + 1, i)}
      prob[i \in 0 .. Len(letters)] ==
        IF i = 0
          THEN [share |-> 1, of |-> 1, last |-> 0]
          ELSE LET ways == {j \in 0 .. i - 1 : Spells(j, i) /= {} /\ prob[j].share > 0}
                   Share(j) == prob[j].share * dictionary[CHOOSE w \in Spells(j, i) : TRUE]
                   Of(j) == prob[j].of * BagCardinality(dictionary)
                   Beats(j, k) == LET a == Share(j) * Of(k)  b == Share(k) * Of(j)
                                  IN  a > b \/ (a = b /\ j <= k)
                   best == CHOOSE j \in ways : \A k \in ways : Beats(j, k)
               IN  IF ways = {} THEN [share |-> 0, of |-> 1, last |-> 0]
                   ELSE [share |-> Share(best), of |-> Of(best), last |-> best]
      words[i \in 0 .. Len(letters)] ==
        IF i = 0 THEN <<>>
        ELSE Append(words[prob[i].last], CHOOSE w \in Spells(prob[i].last, i) : TRUE)
  IN  IF prob[Len(letters)].last = 0 THEN <<>> ELSE words[Len(letters)]

\* Index::split_words: <<>> if no term is split.
SplitWords(dictionary, terms) ==
  LET Parts(term) == IF Len(term) = 1 /\ term[1] \in DOMAIN Letters
                       THEN Split(dictionary, term[1]) ELSE <<>>
      split == FlattenSeq([i \in DOMAIN terms |->
                 IF Parts(terms[i]) = <<>> THEN terms[i] ELSE Parts(terms[i])])
  IN  IF split = FlattenSeq(terms) THEN <<>> ELSE split

\* Index::spell_correction: the possible corrections of a query, <<>> for none;
\* words are only split if no word is corrected.
SpellCorrection(dictionary, terms) ==
  LET corrections == SpellCheck(dictionary, terms)
      unchanged == FlattenSeq(terms)
  IN  (corrections \ {unchanged}) \union
      (IF unchanged \in corrections THEN {SplitWords(dictionary, terms)} ELSE {})
=============================================================================
