------------------------------ MODULE Queries ------------------------------
(***************************************************************************)
(* Queries and goggles (query/parser.rs, query/mod.rs, bangs.rs,           *)
(* ranking/goggles/mod.rs and const_query.rs, ranking/site_rankings.rs).   *)
(*                                                                         *)
(* A raw term is what is between two spaces: its dashes, its prefix and    *)
(* its text, and stands for that string.  A query to the index is what it  *)
(* finds: the set of documents, of those in the given segments, or for a   *)
(* query that is part of a Boolean one a clause of such a set and how it   *)
(* must occur.  Of the scores only what a goggle adds is kept: every boost *)
(* goes to a clause that documents may do without.                         *)
(***************************************************************************)
EXTENDS Webpages, Patterns

CONSTANTS MaxSimilarTerms,   \* MAX_SIMILAR_TERMS: 10 in the code
          KnownBangs,        \* the texts of the bangs in the list
          Detected(_)        \* the language that whatlang finds in a text, or None

ASSUME QueriesAssumption == MaxSimilarTerms \in Nat \ {0}
-----------------------------------------------------------------------------
(* Terms.                                                                    *)
Term(kind, text) == [kind |-> kind, text |-> text, not |-> FALSE]

\* The string of a raw term in words, the punctuation of its marks as words.
Written(raw) ==
  [i \in 1 .. raw.dashes |-> "-"] \o
  (IF raw.prefix = "" THEN <<>> ELSE <<raw.prefix>>) \o raw.text

\* parse_term behind the dash: a prefix of nothing is a word like any other.
ParsePositive(raw) ==
  CASE raw.prefix = "!" -> Term("bang", raw.text)
    [] raw.prefix /= "!" /\ (raw.prefix = "" \/ raw.text = <<>>) ->
         Term("simple", Written(raw))
    [] OTHER -> Term(raw.prefix, raw.text)

\* One dash in front of something negates it, two are part of a word.
ParseTerm(raw) ==
  IF raw.dashes = 0
    THEN ParsePositive(raw)
    ELSE IF raw.dashes = 1 /\ Len(Written(raw)) > 1
           THEN [ParsePositive([raw EXCEPT !.dashes = 0]) EXCEPT !.not = TRUE]
           ELSE Term("simple", Written(raw))

\* Query::parse keeps the first so many of equal terms.
ParseTerms(query) ==
  LET parsed == [i \in DOMAIN query |-> ParseTerm(query[i])]
      Before(i) == Cardinality({j \in 1 .. i - 1 : parsed[j] = parsed[i]})
      kept == SelectSeq([i \in DOMAIN parsed |-> i], LAMBDA i : Before(i) < MaxSimilarTerms)
  IN  [i \in DOMAIN kept |-> parsed[kept[i]]]

SimpleTerms(terms) ==
  LET simple == SelectSeq(terms, LAMBDA t : t.kind = "simple" /\ ~t.not)
  IN  [i \in DOMAIN simple |-> simple[i].text]
-----------------------------------------------------------------------------
(* What a query finds.                                                       *)
Docs(segments) == UNION segments

Clause(occur, docs) == [occur |-> occur, docs |-> docs]

\* tantivy's BooleanQuery: all that must, or if none must one that should;
\* nothing that must not.
BooleanQuery(clauses) ==
  LET Of(occur) == {clauses[i].docs : i \in {j \in DOMAIN clauses : clauses[j].occur = occur}}
      all == Of("must")
      found == IF all = {} THEN UNION Of("should")
                           ELSE {d \in UNION all : \A docs \in all : d \in docs}
  IN  found \ UNION Of("mustNot")

HasPhrase(text, words) ==
  \E n \in 0 .. Len(text) - Len(words) : SubSeq(text, n + 1, n + Len(words)) = words

Processed(field, text) ==
  IF field \in Stemmed /\ Detected(text) /= None THEN Stem(Detected(text), text) ELSE text

TermQuery(segments, field, text) ==
  {d \in Docs(segments) :
     IF field \in Identity THEN d.text[field] = text
                           ELSE HasPhrase(d.text[field], Processed(field, text))}

\* A query of optional clauses, one for each field.
InAny(segments, fields, text) == UNION {TermQuery(segments, field, text) : field \in fields}

\* simple_into_tantivy
Simple(segments, text) ==
  <<Clause("must", InAny(segments, SearchableFields, text)),
    Clause("should", TermQuery(segments, "BacklinkText", text))>>

AsTantivyQuery(segments, term) ==
  LET In(field) == <<Clause("must", TermQuery(segments, field, term.text))>>
      clauses ==
        CASE term.kind = "simple" -> Simple(segments, term.text)
          [] term.kind = "bang" -> Simple(segments, <<"!">> \o term.text)
          [] term.kind = "site:" ->
               <<Clause("must", InAny(segments, {"DomainNoTokenizer", "SiteNoTokenizer"}, term.text))>>
          [] term.kind = "intitle:" -> In("Title")
          [] term.kind = "inbody:" -> In("AllBody")
          [] term.kind = "inurl:" -> In("Url")
  IN  IF term.not THEN <<Clause("mustNot", BooleanQuery(clauses))>> ELSE clauses

\* proximity_queries: phrases with ever more room between the words.
ProximityQueries(segments, simple) ==
  LET words == FlattenSeq(simple)
      Near(text, slop) ==
        \E at \in [DOMAIN words -> DOMAIN text] :
          /\ \A i \in DOMAIN words : text[at[i]] = words[i]
          /\ \A i \in DOMAIN words \ {1} : at[i - 1] < at[i]
          /\ at[Len(words)] - at[1] < Len(words) + slop
      In(field, slop) == Clause("should", {d \in Docs(segments) : Near(d.text[field], slop)})
      slops == <<0, 1, 2, 4, 16, 32>>
  IN  IF Len(simple) < 2
        THEN <<>>
        ELSE [i \in DOMAIN slops |-> In("Title", slops[i])] \o
             [i \in DOMAIN slops |-> In("CleanBody", slops[i])]

ParsedQuery(segments, terms) ==
  BooleanQuery(FlattenSeq([i \in DOMAIN terms |-> AsTantivyQuery(segments, terms[i])]) \o
               ProximityQueries(segments, SimpleTerms(terms)))
-----------------------------------------------------------------------------
(* Bangs: the first term that is a bang of the list takes the query along,   *)
(* without the terms that are that bang.                                     *)
IsBang(term) == term.kind = "bang" /\ ~term.not

BangHit(terms) ==
  LET hits == SelectSeq(terms, LAMBDA t : IsBang(t) /\ t.text \in KnownBangs)
  IN  IF hits = <<>>
        THEN None
        ELSE [bang |-> Head(hits).text, query |-> SelectSeq(terms, LAMBDA t : t /= Head(hits))]
-----------------------------------------------------------------------------
(* Goggles: an instruction has a pattern, <<>> for none, and options.        *)
TargetField == [site |-> "Site", inurl |-> "Url", intitle |-> "Title",
                indescription |-> "Description", incontent |-> "CleanBody"]
Actions == {"boost", "downrank", "discard"}

\* The last option of a sort counts.
FirstOption_Last(instruction, kinds) ==
  LET found == SelectSeq(instruction.options, LAMBDA o : o.kind \in kinds)
  IN  IF found = <<>> THEN None ELSE Last(found)

FirstOption(instruction, kinds) ==
  LET found == SelectSeq(instruction.options, LAMBDA o : o.kind \in kinds)
  IN  IF found = <<>> THEN None ELSE Head(found)

TargetOption(instruction) == FirstOption(instruction, DOMAIN TargetField)

TargetOf(instruction) ==
  LET target == TargetOption(instruction)
  IN  IF target = None THEN "Url" ELSE TargetField[target.kind]

ActionOf(instruction) ==
  LET action == FirstOption(instruction, Actions)
  IN  IF action = None THEN "boost" ELSE action.kind

\* pattern_scorer asks for the postings of every term before the tokens of
\* the field: only then a segment knows that there are none of a site.
HasAllTerms(segment, field, parts) ==
  \A i \in DOMAIN RawTerms(parts) : \E d \in segment : Contains(d.text[field], RawTerms(parts)[i])

PatternFails(segments, instruction) ==
  /\ instruction.pattern /= <<>> /\ TargetOf(instruction) = "Site"
  /\ \E segment \in segments : HasAllTerms(segment, "Site", instruction.pattern)

\* Intersection::new takes no fewer than two lists.
PatternPanics(segments, instruction) ==
  /\ instruction.pattern /= <<>> /\ TargetOf(instruction) /= "Site"
  /\ Len(RawTerms(instruction.pattern)) < 2
  /\ \E segment \in segments : HasAllTerms(segment, TargetOf(instruction), instruction.pattern)

\* The documents of a segment are sorted by their scores, the best first; equal
\* ones keep the order in which they were inserted.
Precedes(d, e) ==
  \/ d.preComputedScore > e.preComputedScore
  \/ d.preComputedScore = e.preComputedScore /\ d.at < e.at

\* A scorer stands on the first document with all terms from the start and
\* does not look at their positions there, unless it is sought.
PatternQuery(segments, field, parts, isSought) ==
  LET terms == RawTerms(parts)
      In(segment) ==
        LET texts == [d \in segment |-> d.text[field]]
            sorted == SortedBySize(terms, texts)
            all == {d \in segment : \A i \in DOMAIN terms : Contains(texts[d], terms[i])}
            first == {d \in all : \A other \in all : ~Precedes(other, d)}
        IN  {d \in all : Outcome(parts, texts[d], sorted) = "match"}
              \union (IF isSought THEN {} ELSE first)
  IN  UNION {In(segment) : segment \in {s \in segments : HasAllTerms(s, field, parts)}}

\* The lists of the UnionQuery for a site.
SiteQuery(segments, site) ==
  <<TermQuery(segments, "DomainNoTokenizer", site), TermQuery(segments, "SiteNoTokenizer", site)>>

\* A clause that keeps the lists that it unites: a seek on it is not exact.
UnionClause(occur, lists) == [occur |-> occur, docs |-> UNION ToSet(lists), lists |-> lists]

\* Several parts must all be found.
Joined(parts) ==
  IF Len(parts) = 1
    THEN parts[1]
    ELSE <<BooleanQuery([i \in DOMAIN parts |-> Clause("must", UNION ToSet(parts[i]))])>>

HasSite(instruction) ==
  TargetOption(instruction) /= None /\ TargetOption(instruction).kind = "site"

HasClause(instruction) == instruction.pattern /= <<>> \/ HasSite(instruction)

\* Instruction::as_tantivy: no clause, or one.  The options after the first
\* of their sort count for nothing.  ConstScorer never seeks.  A site and a
\* pattern find nothing together: the pattern is looked for in the site.
InstructionClauses(segments, instruction, isSought) ==
  LET isDiscard == ActionOf(instruction) = "discard"
      sites == IF HasSite(instruction)
                 THEN <<SiteQuery(segments, TargetOption(instruction).site)>> ELSE <<>>
      pages == IF instruction.pattern /= <<>>
                 THEN << <<PatternQuery(segments, TargetOf(instruction), instruction.pattern,
                                        isDiscard /\ isSought)>> >>
                 ELSE <<>>
  IN  IF HasClause(instruction)
        THEN <<UnionClause(IF isDiscard THEN "mustNot" ELSE "should", Joined(sites \o pages))>>
        ELSE <<>>

IsEmptyDiscard(instruction) ==
  /\ instruction.pattern = <<>>
  /\ Len(instruction.options) = 1 /\ instruction.options[1].kind = "discard"

\* Goggle::as_tantivy: with a bare $discard only what another instruction
\* finds on its own is left.
HasEmptyDiscard(goggle) == \E i \in DOMAIN goggle : IsEmptyDiscard(goggle[i])

Alternatives(clauses) ==
  <<UnionClause("must", [i \in DOMAIN clauses |-> BooleanQuery(<<clauses[i]>>)])>>

GoggleClauses(segments, goggle, isSought) ==
  LET all == FlattenSeq([i \in DOMAIN goggle |->
                           InstructionClauses(segments, goggle[i], isSought)])
  IN  IF HasEmptyDiscard(goggle) THEN Alternatives(all) ELSE all

\* The instructions that a scorer is made for: a query with nothing but a
\* clause that must not match has none.
Scored(goggle) ==
  IF HasEmptyDiscard(goggle)
    THEN SelectSeq(goggle, LAMBDA instruction : ActionOf(instruction) /= "discard")
    ELSE goggle

\* The boosts of a document, in units of SCALE: the clauses of a goggle that
\* find it each add one.  Without a number an action counts once.
Amount(instruction) ==
  LET action == FirstOption(instruction, Actions)
      by == IF action /= None /\ "by" \in DOMAIN action THEN action.by ELSE 1
  IN  CASE ActionOf(instruction) = "boost" -> by
        [] ActionOf(instruction) = "downrank" -> -by
        [] ActionOf(instruction) = "discard" -> 0

GoggleBoosts(segments, goggle) ==
  LET clauses == [i \in DOMAIN goggle |-> InstructionClauses(segments, goggle[i], FALSE)]
      Finds(i, d) == \E n \in DOMAIN clauses[i] : d \in clauses[i][n].docs
  IN  [d \in Docs(segments) |->
         MapThenSumSet(LAMBDA i : Amount(goggle[i]), {i \in DOMAIN goggle : Finds(i, d)})]

\* SiteRankings::into_goggle
IntoGoggle(rankings) ==
  LET On(sites, action) ==
        [i \in DOMAIN sites |-> [pattern |-> <<>>,
                                 options |-> <<[kind |-> "site", site |-> sites[i]], action>>]]
  IN  On(rankings.preferred, [kind |-> "boost", by |-> 5]) \o
      On(rankings.disliked, [kind |-> "downrank", by |-> 5]) \o
      On(rankings.blocked, [kind |-> "discard"])

-----------------------------------------------------------------------------
(* A UnionQuery among the clauses of a search (query/union.rs), in a segment *)
(* whose documents are numbered in their order.  Heads are where its lists   *)
(* stand.  tantivy's own queries are exact, a Union of several clauses that  *)
(* must not match among them, as long as a segment has no more documents     *)
(* than its horizon of 4096.                                                 *)
Terminated == 1000                \* beyond any document

FirstFrom(list, n) == Min({m \in list : m >= n} \union {Terminated})

NewUnion(lists) == [i \in DOMAIN lists |-> FirstFrom(lists[i], 1)]

UnionDoc(heads) == Min(ToSet(heads) \union {Terminated})

\* Union::seek moves the lists that stand on its document, and returns what is
\* then the first: a document before the target if another list has one there.
UnionSeek(lists, heads, target) ==
  [i \in DOMAIN heads |-> IF heads[i] = UnionDoc(heads) /\ heads[i] < target
                            THEN FirstFrom(lists[i], target) ELSE heads[i]]

\* tantivy's Exclude asks for each document that is found whether a seek of
\* what must not match arrives there.
Excluded(found, lists) ==
  LET Ask(done, n) ==
        LET heads == IF UnionDoc(done.heads) <= n THEN UnionSeek(lists, done.heads, n)
                                                  ELSE done.heads
        IN  [heads |-> heads,
             out |-> IF UnionDoc(heads) = n THEN done.out \union {n} ELSE done.out]
  IN  FoldLeft(Ask, [heads |-> NewUnion(lists), out |-> {}], SetToSortSeq(found, <)).out

\* tantivy's Intersection of what is found with a Union goes to its first
\* document as the one in query/intersection.rs: a seek that stops short of
\* the candidate passes for one that arrives.  Its document is that of the side
\* that is estimated to be the smaller and leads.
RECURSIVE GoToFirstDoc(_, _, _, _, _)
GoToFirstDoc(found, lists, heads, candidate, unionLeads) ==
  LET doc == FirstFrom(found, candidate)
      sought == UnionSeek(lists, heads, candidate)
      GoOn(from, next) == GoToFirstDoc(found, lists, from, next, unionLeads)
  IN  IF ~unionLeads /\ doc > candidate THEN GoOn(heads, doc)
      ELSE IF UnionDoc(sought) > candidate THEN GoOn(sought, UnionDoc(sought))
      ELSE IF doc > candidate THEN GoOn(sought, doc)
      ELSE IF unionLeads /\ candidate /= Terminated THEN UnionDoc(sought) ELSE candidate

\* From its first document on an Intersection only advances, which is exact.
Intersections(found, lists) ==
  LET heads == NewUnion(lists)
      start == Max({FirstFrom(found, 1), UnionDoc(heads)})
      Both(first) == {first} \union {n \in found \intersect UNION ToSet(lists) : n > first}
  IN  {Both(GoToFirstDoc(found, lists, heads, start, unionLeads)) \ {Terminated} :
         unionLeads \in BOOLEAN}

\* What is left of the numbers that are found in a segment: the possible results.
\* At most one goggle has a clause that must match: site rankings have none.
Left(found, musts, mustNots) ==
  LET kept == IF musts = <<>> THEN {found} ELSE Intersections(found, musts[1])
      Without(numbers) == IF Len(mustNots) = 1
                            THEN numbers \ Excluded(numbers, mustNots[1])
                            ELSE numbers \ UNION (UNION {ToSet(lists) : lists \in ToSet(mustNots)})
  IN  {Without(numbers) : numbers \in kept}

\* The documents of a segment by their numbers.
Numbered(segment, docs) ==
  {1 + Cardinality({e \in segment : Precedes(e, d)}) : d \in docs \intersect segment}

\* The lists of the clauses that occur in a way, in a segment.
ListsIn(segment, clauses, occur) ==
  LET some == SelectSeq(clauses, LAMBDA clause : clause.occur = occur)
  IN  [n \in DOMAIN some |->
         [i \in DOMAIN some[n].lists |-> Numbered(segment, some[n].lists[i])]]

\* Query::set_goggles: the possible results of a search.
Remaining(segments, found, clauses) ==
  LET In(segment) ==
        {{d \in segment : Numbered(segment, {d}) \subseteq numbers} :
           numbers \in Left(Numbered(segment, found), ListsIn(segment, clauses, "must"),
                            ListsIn(segment, clauses, "mustNot"))}
      And(segment, done) == {some \union rest : some \in In(segment), rest \in done}
  IN  FoldSet(And, {{}}, segments)

\* How many clauses must not match.  What one excludes is sought document by
\* document, the union of more is not.
NumExcluding(goggles) ==
  LET Excluding(goggle) ==
        IF HasEmptyDiscard(goggle) THEN <<>>
        ELSE SelectSeq(goggle, LAMBDA i : ActionOf(i) = "discard" /\ HasClause(i))
  IN  Len(FlattenSeq([i \in DOMAIN goggles |-> Excluding(goggles[i])]))

WithGoggles(segments, found, goggles) ==
  Remaining(segments, found,
            FlattenSeq([i \in DOMAIN goggles |->
                          GoggleClauses(segments, goggles[i], NumExcluding(goggles) = 1)]))
=============================================================================
