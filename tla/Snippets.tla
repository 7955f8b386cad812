------------------------------ MODULE Snippets -----------------------------
(***************************************************************************)
(* The text that is shown of a page (snippet.rs).  Tokens are the words of *)
(* a text, with one space between them; offsets count letters.  A fragment *)
(* is where it starts and stops in its text, its score and the tokens that *)
(* are highlighted in it.                                                  *)
(***************************************************************************)
EXTENDS Queries, Spelling

CONSTANTS MaxNumChars,     \* DEFAULT_MAX_NUM_CHARS: 280 in the code
          ScoreUnit        \* a score of 1.0

ASSUME SnippetsAssumption == MaxNumChars \in Nat \ {0} /\ ScoreUnit \in Nat \ {0}

OffsetFrom(text, i) == MapThenSumSet(LAMBDA n : Len(Letters[text[n]]) + 1, 1 .. i - 1)
OffsetTo(text, i) == OffsetFrom(text, i) + Len(Letters[text[i]])
Chars(text) == IF text = <<>> THEN 0 ELSE OffsetTo(text, Len(text))

NewFragment(start) == [start |-> start, stop |-> start, score |-> 0, highlighted |-> {}]

TryAddToken(fragment, text, i, word, scores) ==
  LET longer == [fragment EXCEPT !.stop = OffsetTo(text, i)]
  IN  IF word \in DOMAIN scores
        THEN [longer EXCEPT !.score = @ + scores[word], !.highlighted = @ \union {i}]
        ELSE longer

\* Of the terms of the query in the clean text, negated ones too, those whose
\* stem some document has; a rare one counts more.
QueryWords(terms) ==
  UNION {ToSet(IF t.kind = "bang" THEN <<"!">> \o t.text ELSE t.text) :
           t \in {t \in ToSet(terms) : t.kind \in {"simple", "bang"}}}

TermScores(segments, terms, lang) ==
  LET DocFreq(stem) ==
        Cardinality({d \in Docs(segments) : stem \in ToSet(d.text.StemmedCleanBody)})
      stems == {Stemmer[lang][w] : w \in QueryWords(terms)}
  IN  [s \in {s \in stems : DocFreq(s) > 0} |-> ScoreUnit \div (1 + DocFreq(s))]

\* A token that is too long for the fragment ends it and begins the next, or
\* is lost between the two.
SearchFragments_LosesTheNext(text, stems, scores) ==
  LET Pushed(s) == IF s.current.score > 0 THEN Append(s.done, s.current) ELSE s.done
      Next(s, i) ==
        IF OffsetTo(text, i) - s.current.start > MaxNumChars
          THEN [done |-> Pushed(s), current |-> NewFragment(OffsetFrom(text, i))]
          ELSE [s EXCEPT !.current = TryAddToken(@, text, i, stems[i], scores)]
  IN  Pushed(FoldLeft(Next, [done |-> <<>>, current |-> NewFragment(0)],
                      [i \in DOMAIN text |-> i]))

SearchFragments(text, stems, scores) ==
  LET Pushed(s) == IF s.current.score > 0 THEN Append(s.done, s.current) ELSE s.done
      Room(s, i) ==
        IF OffsetTo(text, i) - s.current.start > MaxNumChars
          THEN [done |-> Pushed(s), current |-> NewFragment(OffsetFrom(text, i))]
          ELSE s
      Next(s, i) == [Room(s, i) EXCEPT !.current = TryAddToken(@, text, i, stems[i], scores)]
  IN  Pushed(FoldLeft(Next, [done |-> <<>>, current |-> NewFragment(0)],
                      [i \in DOMAIN text |-> i]))

\* The first of the best.
SelectBestFragment(fragments) ==
  fragments[CHOOSE n \in DOMAIN fragments : \A m \in DOMAIN fragments :
              \/ fragments[m].score < fragments[n].score
              \/ fragments[m].score = fragments[n].score /\ n <= m]

LangOf(region, text) ==
  CASE region = "US" -> "eng" [] region = "Spain" -> "spa" [] region = "France" -> "fra"
    [] region = "Germany" -> "deu" [] region = "Denmark" -> "dan"
    [] region = "All" -> IF Detected(text) = None THEN "eng" ELSE Detected(text)

\* SnippetGenerator::snippet, or the beginning of the text.
SnippetOf(segments, terms, region, source, text) ==
  LET lang == LangOf(region, text)
      fragments == SearchFragments(text, Stem(lang, text), TermScores(segments, terms, lang))
      shown == IF fragments = <<>>
                 THEN [NewFragment(0) EXCEPT !.stop = Min({Chars(text), MaxNumChars})]
                 ELSE SelectBestFragment(fragments)
  IN  [source |-> source, start |-> shown.start, stop |-> shown.stop,
       highlighted |-> shown.highlighted]

\* generate: the description and then all that the page says stand in for an
\* empty text.
Snippet(segments, terms, page) ==
  LET Of(source, text) == SnippetOf(segments, terms, page.region, source, text)
  IN  CASE page.body /= <<>> -> Of("body", page.body)
        [] page.body = <<>> /\ page.description /= None -> Of("description", page.description)
        [] page.body = <<>> /\ page.description = None -> Of("dirtyBody", page.dirtyBody)
=============================================================================
