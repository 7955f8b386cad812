----------------------------- MODULE PageSearch ----------------------------
(***************************************************************************)
(* From the pages of the crawl to the pages of an answer (index.rs,        *)
(* inverted_index.rs, searcher/local.rs, search_prettifier.rs): each job   *)
(* inserts the pages of its files in an index of its own and commits after *)
(* each file; neighbouring indexes are merged; the one that is left is     *)
(* searched.  Beside it entities are read off the dump of an encyclopedia  *)
(* (entrypoint/entity.rs) and shown with the pages.  How the directories   *)
(* change step by step is in Indexing, how the found pages are ranked in   *)
(* BucketCollector.                                                        *)
(*                                                                         *)
(* No image is downloaded: with download_images the first file panics (see *)
(* Indexing), without it what insert schedules is dropped with the index.  *)
(* The stores of icons and images stay empty, no page is shown with one,   *)
(* and what insert does for them is left out.                              *)
(***************************************************************************)
EXTENDS Snippets, Signals, Entities

CONSTANTS Page,        \* the pages by their names
          SearchTime,  \* the time when the index is searched
          TopN,        \* how many words a dictionary keeps: 100 000 in the code
          IsBefore(_, _), \* the alphabetical order of the words
          Plans        \* the files of each job, sequences of pages; the events
                       \* of the dump, None for no dump; and searches: each a
                       \* query, a goggle and its alterations, site rankings
                       \* and the selected region, or None.  Patterns begin
                       \* with words: DocSets has those that do not

ASSUME PageSearchAssumption == TopN \in Nat \ {0}

VARIABLES plan,
          files,       \* what each job has still to do
          index,       \* the index of each job, None when merged away
          handled,     \* history: the pages that each job has inserted
          dump,        \* the events that are still to read, None at the end
          brokeOff,    \* history: the dump could not be read to its end
          entities,    \* the index of the entities
          answer       \* to the last request

vars == <<plan, files, index, handled, dump, brokeOff, entities, answer>>

Jobs == DOMAIN plan.jobs

NewIndex == [pending |-> {}, segments |-> {}, cache |-> EmptyBag, words |-> EmptyBag,
             regions |-> NewRegionCount]

NoAnswer == [kind |-> "none"]

Init == /\ plan \in Plans
        /\ files = plan.jobs
        /\ index = [j \in Jobs |-> NewIndex]
        /\ handled = [j \in Jobs |-> <<>>]
        /\ dump = plan.dump
        /\ brokeOff = FALSE
        /\ entities = NoEntities
        /\ answer = NoAnswer
-----------------------------------------------------------------------------
(* Index::insert *)

\* Dictionary::insert_page
InsertWords(page, ix) ==
  LET word(w) == Cardinality({i \in DOMAIN page.clean : page.clean[i] = w})
  IN  [ix EXCEPT !.cache = @ (+) [w \in ToSet(page.clean) |-> word(w)]]

CountRegion(page, ix) ==
  IF RegionOf(page.lang) = "All"
    THEN ix
    ELSE [ix EXCEPT !.regions = Increment(@, RegionOf(page.lang))]

\* A page that cannot be indexed has left its words behind and is counted for
\* its region.
InsertDocument(name, at, score, ix) ==
  IF IsIndexable(Page[name])
    THEN [ix EXCEPT !.pending = @ \union {[page |-> name, at |-> at, preComputedScore |-> score]}]
    ELSE ix

Insert(j) ==
  /\ files[j] /= <<>> /\ Head(files[j]) /= <<>>
  /\ LET name == Head(Head(files[j]))
         page == Page[name]
         score == PrecomputeScore(page, index[j].regions, Now)
         counted == CountRegion(page, InsertWords(page, index[j]))
     IN  /\ index' = [index EXCEPT ![j] = InsertDocument(name, Len(handled[j]) + 1, score, counted)]
         /\ handled' = [handled EXCEPT ![j] = Append(@, name)]
  /\ files' = [files EXCEPT ![j][1] = Tail(@)]
  /\ UNCHANGED <<plan, dump, brokeOff, entities, answer>>
-----------------------------------------------------------------------------
(* The end of a file: Index::commit.                                         *)

\* The words of a bag in the order of store_union's heap, which drops the last:
\* the rarest, and of equally rare ones the last in the alphabet.
IsRarer(words, v, w) ==
  words[v] < words[w] \/ (words[v] = words[w] /\ IsBefore(w, v))

\* The heap has room for one less.
StoreUnion_OneLess(words) ==
  Restrict(words, {w \in DOMAIN words :
                     Cardinality({v \in DOMAIN words : IsRarer(words, w, v)}) < TopN - 1})

\* Dictionary::store_union keeps the first TopN of the words.
StoreUnion(words) ==
  Restrict(words, {w \in DOMAIN words :
                     Cardinality({v \in DOMAIN words : IsRarer(words, w, v)}) < TopN})

\* Dictionary::commit adds the cached words, InvertedIndex::commit makes a
\* segment of the pages, if there are any.
Committed(ix) ==
  [ix EXCEPT !.words = StoreUnion(@ (+) ix.cache), !.cache = EmptyBag, !.pending = {},
             !.regions = CommitRegions(@),
             !.segments = @ \union ({ix.pending} \ {{}})]

FinishFile(j) ==
  /\ files[j] /= <<>> /\ Head(files[j]) = <<>>
  /\ index' = [index EXCEPT ![j] = Committed(@)]
  /\ files' = [files EXCEPT ![j] = Tail(@)]
  /\ UNCHANGED <<plan, handled, dump, brokeOff, entities, answer>>
-----------------------------------------------------------------------------
(* Index::merge; both dictionaries are committed, and then their union.      *)
Merged(ix, other) ==
  [Committed(ix) EXCEPT !.segments = @ \union Committed(other).segments,
                        !.words = StoreUnion(@ (+) Committed(other).words),
                        !.regions = MergeRegions(@, Committed(other).regions)]

Merge(j, k) ==
  /\ j < k /\ index[j] /= None /\ index[k] /= None /\ files[j] = <<>> /\ files[k] = <<>>
  /\ \A l \in j + 1 .. k - 1 : index[l] = None
  /\ index' = [index EXCEPT ![j] = Merged(@, index[k]), ![k] = None]
  /\ UNCHANGED <<plan, files, handled, dump, brokeOff, entities, answer>>
-----------------------------------------------------------------------------
(* EntityIndexer::run; an error in the dump is like its end.                 *)
ReadDump ==
  /\ dump \notin {None, <<>>} /\ entities.taken < MaxEntities
  /\ entities' = ReadXml(entities, Head(dump))
  /\ dump' = Tail(dump)
  /\ UNCHANGED <<plan, files, index, handled, brokeOff, answer>>

BreakOff ==
  /\ dump \notin {None, <<>>}
  /\ dump' = <<>>
  /\ brokeOff' = TRUE
  /\ UNCHANGED <<plan, files, index, handled, entities, answer>>

CommitEntities ==
  /\ dump = <<>> \/ (dump /= None /\ entities.taken = MaxEntities)
  /\ entities' \in CommittedEntities(entities)
  /\ dump' = None
  /\ UNCHANGED <<plan, files, index, handled, brokeOff, answer>>
-----------------------------------------------------------------------------
(* LocalSearcher::search on the index that is left.                          *)
IsServed(j) == /\ files[j] = <<>> /\ index[j] /= None /\ \A k \in Jobs \ {j} : index[k] = None
               /\ dump = None

\* The documents of the segments with what is stored of them.
Segments(ix) ==
  LET Stored(d) == IntoTantivy(Page[d.page], d.preComputedScore) @@ d
  IN  {{Stored(d) : d \in segment} : segment \in ix.segments}

\* InvertedIndex::retrieve_websites and DisplayedWebpage::from.
Displayed(ix, doc, terms) ==
  LET page == RetrievedOf(doc)
  IN  [page |-> doc.page, title |-> page.title, url |-> page.url, site |-> Site(page.url),
       domain |-> Domain(page.url), body |-> page.body, updated |-> page.updated,
       snippet |-> Snippet(Segments(ix), terms, page)]

GogglesOf(request) ==
  (IF request.goggle = None THEN <<>> ELSE <<request.goggle>>) \o
  (IF request.rankings = None THEN <<>> ELSE <<IntoGoggle(request.rankings)>>)

\* InitialSegmentScoreTweaker::score: what a page scores but for the words of
\* the query, and what the goggles add to them.
Scores(ix, segments, request, found) ==
  LET goggles == GogglesOf(request)
      boosts == [i \in DOMAIN goggles |-> GoggleBoosts(segments, goggles[i])]
  IN  [name \in {d.page : d \in found} |->
         LET doc == CHOOSE d \in found : d.page = name
         IN  [signals |-> SignalScore(doc, request.alterations, ix.regions, SearchTime, request.region),
              boost |-> Coefficient(request.alterations, "Bm25") *
                          FoldFunction(LAMBDA boost, sum : boost[doc] + sum, 0, boosts)]]

\* search_initial: a query without terms and a pattern on sites are errors.
AnyScored(request, Fault(_)) ==
  \E i \in DOMAIN GogglesOf(request) :
    \E instruction \in ToSet(Scored(GogglesOf(request)[i])) : Fault(instruction)

Failed(segments, request) ==
  \/ request.query = <<>>
  \/ AnyScored(request, LAMBDA instruction : PatternFails(segments, instruction))

\* A search may meet one fault before the other, or both in one segment.
Faults(segments, request) ==
  (IF Failed(segments, request) THEN {"failed"} ELSE {}) \union
  (IF request.query /= <<>> /\
      AnyScored(request, LAMBDA instruction : PatternPanics(segments, instruction))
     THEN {"panicked"} ELSE {})

\* The words of a query as it is written, which the entity is searched by.
RawWords(query) == FlattenSeq([i \in DOMAIN query |-> query[i].text])

Answers(ix, request) ==
  LET terms == ParseTerms(request.query)
      segments == Segments(ix)
  IN  IF terms /= <<>> /\ BangHit(terms) /= None
        THEN {[kind |-> "bang", request |-> request, hit |-> BangHit(terms)]}
        ELSE IF Faults(segments, request) /= {}
               THEN {[kind |-> fault, request |-> request] : fault \in Faults(segments, request)}
               ELSE {[kind |-> "pages", request |-> request, correction |-> correction,
                      entity |-> entity, pages |-> {Displayed(ix, d, terms) : d \in found},
                      scores |-> Scores(ix, segments, request, found)] :
                       found \in WithGoggles(segments, ParsedQuery(segments, terms),
                                             GogglesOf(request)),
                       correction \in SpellCorrection(ix.words, SimpleTerms(terms)),
                       entity \in DisplayedEntities(entities, RawWords(request.query))}

Search(j) ==
  /\ IsServed(j) /\ answer = NoAnswer
  /\ \E request \in plan.requests : answer' \in Answers(index[j], request)
  /\ UNCHANGED <<plan, files, index, handled, dump, brokeOff, entities>>

\* Searches change nothing, so one at a time is enough.
NextRequest ==
  /\ answer /= NoAnswer /\ answer' = NoAnswer
  /\ UNCHANGED <<plan, files, index, handled, dump, brokeOff, entities>>

Next == \/ NextRequest \/ ReadDump \/ BreakOff \/ CommitEntities
        \/ \E j \in Jobs :
             \/ Insert(j) \/ FinishFile(j) \/ (\E k \in Jobs : Merge(j, k)) \/ Search(j)

Spec == Init /\ [][Next]_vars
-----------------------------------------------------------------------------
(* What an answer promises.                                                  *)
Inserted == UNION {ToSet(handled[j]) : j \in Jobs}

Answered(kind) == answer.kind = kind

\* The words stand somewhere on the page, or on its title or text but for
\* their endings.
Says(page, text) ==
  LET lang == IF page.lang = None THEN "eng" ELSE page.lang
      stems == IF Detected(text) = None THEN text ELSE Stem(Detected(text), text)
  IN  \/ \E t \in {page.title, page.clean, page.all, Description(page), UrlTokens(page.url)} :
           HasPhrase(t, text)
      \/ \E t \in {page.title, page.clean} : HasPhrase(Stem(lang, t), stems)

OnSite(page, site) == site \in {Domain(page.url), Site(page.url)}

Satisfies(page, term) ==
  CASE term.kind = "simple" -> Says(page, term.text)
    [] term.kind = "bang" -> Says(page, <<"!">> \o term.text)
    [] term.kind = "site:" -> OnSite(page, term.text)
    [] term.kind = "intitle:" -> HasPhrase(page.title, term.text)
    [] term.kind = "inbody:" -> HasPhrase(page.all, term.text)
    [] term.kind = "inurl:" -> HasPhrase(UrlTokens(page.url), term.text)

IsAbout(page, terms) ==
  /\ \E i \in DOMAIN terms : ~terms[i].not
  /\ \A i \in DOMAIN terms : Satisfies(page, terms[i]) = ~terms[i].not

\* A pattern is looked for in the url unless the first such option says where.
\* One in a single piece hits wherever all its words are, in any order; one in
\* several pieces nowhere else.  One with a site finds nothing or fails.
Hits(page, instruction) ==
  LET places == SelectSeq(instruction.options, LAMBDA o : o.kind \notin Actions)
      Place(kind) == places /= <<>> /\ places[1].kind = kind
      text == CASE Place("intitle") -> page.title
                [] Place("incontent") -> page.clean
                [] Place("indescription") -> Description(page)
                [] OTHER -> UrlTokens(page.url)
  IN  /\ instruction.pattern /= <<>> \/ Place("site")
      /\ Place("site") => instruction.pattern = <<>> /\ OnSite(page, places[1].site)
      /\ instruction.pattern /= <<>> => ToSet(RawTerms(instruction.pattern)) \subseteq ToSet(text)

IsCertain(instruction) == Len(instruction.pattern) <= 1
SurelyHits(page, instruction) == IsCertain(instruction) /\ Hits(page, instruction)

Discards(instruction) ==
  LET actions == SelectSeq(instruction.options, LAMBDA o : o.kind \in Actions)
  IN  actions /= <<>> /\ actions[1].kind = "discard"

HasBareDiscard(goggle) ==
  \E i \in DOMAIN goggle : goggle[i].pattern = <<>> /\ goggle[i].options = <<[kind |-> "discard"]>>

IsLeft(page, goggle, Kept(_, _), Dropped(_, _)) ==
  IF HasBareDiscard(goggle)
    THEN \E i \in DOMAIN goggle : ~Discards(goggle[i]) /\ Kept(page, goggle[i])
    ELSE \A i \in DOMAIN goggle : Discards(goggle[i]) => ~Dropped(page, goggle[i])

\* The sites and patterns that the goggles of a search discard.
Discarded(goggles) ==
  UNION {{[pattern |-> goggles[i][n].pattern, options |-> goggles[i][n].options, at |-> <<i, n>>] :
            n \in {m \in DOMAIN goggles[i] : Discards(goggles[i][m])}} :
           i \in {k \in DOMAIN goggles : ~HasBareDiscard(goggles[k])}}

SegmentOf(name, Holds(_, _)) ==
  \E j \in Jobs : IsServed(j) /\ \E segment \in index[j].segments :
    \E d \in segment : d.page = name /\ Holds(segment, d)

\* A page of a domain that is the only thing discarded slips through behind two
\* others of that domain: one with another site, and one with the domain itself
\* as its site that the search does not ask for.
SlipsThrough(name, terms, goggles) ==
  \E only \in Discarded(goggles) :
    /\ Discarded(goggles) = {only}
    /\ Hits(Page[name], only)
    /\ SegmentOf(name, LAMBDA segment, d :
         \E first, second \in segment :
           /\ Precedes(first, second) /\ Precedes(second, d)
           /\ Domain(Page[first.page].url) = Site(Page[second.page].url)
           /\ Hits(Page[second.page], only) /\ Site(Page[first.page].url) /= Site(Page[second.page].url)
           /\ \/ ~IsAbout(Page[second.page], terms)
              \/ \E i \in DOMAIN goggles : HasBareDiscard(goggles[i]))

\* Under a bare $discard the first page of a segment need not be both what the
\* query and what the goggle is about.
LeadsItsSegment(name, shown, terms, goggles) ==
  /\ \E i \in DOMAIN goggles : HasBareDiscard(goggles[i])
  /\ \/ IsAbout(Page[name], terms)
     \/ \A i \in DOMAIN goggles : IsLeft(Page[name], goggles[i], Hits, SurelyHits)
  /\ SegmentOf(name, LAMBDA segment, d :
       \A other \in segment : other.page \in shown => ~Precedes(other, d))

\* An answer has all the inserted pages with a title and a text that say what
\* the query says, have nothing that it negates, and are neither discarded by
\* the goggle nor on a blocked site, however the pages are spread over files,
\* segments and indexes.  It has no others but those that the seek of a Union
\* lets pass: on a site that is the only thing discarded, or as the first of a
\* segment under a bare $discard.
AnswersAreExact ==
  Answered("pages") =>
    LET shown == {entry.page : entry \in answer.pages}
        terms == ParseTerms(answer.request.query)
        goggles == GogglesOf(answer.request)
        Wanted(Kept(_, _), Dropped(_, _)) ==
          {name \in Inserted :
             /\ IsIndexable(Page[name])
             /\ IsAbout(Page[name], terms)
             /\ \A i \in DOMAIN goggles : IsLeft(Page[name], goggles[i], Kept, Dropped)}
    IN  /\ Wanted(SurelyHits, Hits) \subseteq shown
        /\ \A name \in shown \ Wanted(Hits, SurelyHits) :
             \/ SlipsThrough(name, terms, goggles)
             \/ LeadsItsSegment(name, shown, terms, goggles)


\* The snippet of a page is a piece of its text, of its description if it has
\* none, or else of all that it says, cut between words to the length there
\* is room for.  What is bold in it are the words of the query but for their
\* endings; if the text has any, a piece with one of them is shown, and every
\* one in that piece is bold.
SnippetsShowTheQuery ==
  Answered("pages") =>
    \A shown \in answer.pages :
      LET page == Page[shown.page]
          snippet == shown.snippet
          text == CASE snippet.source = "body" -> page.clean
                    [] snippet.source = "description" -> Description(page)
                    [] snippet.source = "dirtyBody" -> page.all
          lang == IF page.lang = None THEN "eng" ELSE page.lang
          asked == {Stemmer[lang][w] : w \in QueryWords(ParseTerms(answer.request.query))}
          Matches == {i \in DOMAIN text : Stemmer[lang][text[i]] \in asked}
          Inside == {i \in DOMAIN text : /\ snippet.start <= OffsetFrom(text, i)
                                         /\ OffsetTo(text, i) <= snippet.stop}
      IN  /\ text /= <<>>
          /\ snippet.source /= "body" => page.clean = <<>>
          /\ snippet.source = "dirtyBody" => Description(page) = <<>>
          /\ snippet.highlighted \subseteq Matches \intersect Inside
          /\ snippet.source = "body" =>
               /\ Matches /= {} => snippet.highlighted /= {}
               /\ Matches \intersect Inside \subseteq snippet.highlighted
          /\ \/ snippet.stop - snippet.start <= MaxNumChars
             \/ Cardinality(Inside) = 1
          /\ snippet.highlighted /= {} =>
               /\ \E i \in DOMAIN text : snippet.start = OffsetFrom(text, i)
               /\ \E i \in DOMAIN text : snippet.stop = OffsetTo(text, i)

\* A correction consists of words of the pages or of the query, each of them
\* in place of a word that no page has, unless the pages have more words than a
\* dictionary keeps.
CorrectionsAreKnown ==
  Answered("pages") /\ answer.correction /= <<>> =>
    LET asked == FlattenSeq(SimpleTerms(ParseTerms(answer.request.query)))
        known == UNION {ToSet(Page[name].clean) : name \in Inserted}
    IN  /\ answer.correction /= asked
        /\ ToSet(answer.correction) \subseteq known \union ToSet(asked)
        /\ Len(answer.correction) = Len(asked) /\ Cardinality(known) <= TopN =>
             \A i \in DOMAIN asked : answer.correction[i] /= asked[i] => asked[i] \notin known

-----------------------------------------------------------------------------
(* plan.articles is what the dump is written from: pages with a title,       *)
(* nodes and whether they redirect.                                          *)
IsWanted(article) ==
  LET entity == Build(article.title, article.nodes)
  IN  ~article.redirects /\ entity /= None /\ entity.categories /= {}

\* The entities are the first pages of the dump that have a category, a section
\* and neither redirect nor tell names apart, as many as are taken of it or as
\* were read when it broke off; each has its own title and text.
EntitiesAreTheArticles ==
  LET wanted == SelectSeq(plan.articles, IsWanted)
      most == Min({Len(wanted), MaxEntities})
  IN  dump = None =>
        \E n \in (IF brokeOff THEN 0 .. most ELSE {most}) :
          entities.docs = {Build(wanted[i].title, wanted[i].nodes) : i \in 1 .. n}

RECURSIVE LinksOf(_)
LinksOf(nodes) ==
  UNION {LET node == nodes[i]
         IN  CASE node.kind = "link" -> {node}
               [] node.kind = "template" ->
                    UNION {LinksOf(node.parameters[k].value) : k \in DOMAIN node.parameters}
               [] OTHER -> {} : i \in DOMAIN nodes}

\* Of the nodes of an article the text that html shows is not lost or doubled,
\* and what it links is what they link, as far as it is shown.
ShowsTheLinks(html, text, nodes) ==
  LET IsLink(piece) == \E link \in LinksOf(nodes) :
        link.target = piece.target /\ (piece.text = link.text \/ (html.isCut /\ IsPrefix(piece.text, link.text)))
  IN  /\ ~html.panics
      /\ IsPrefix(FlattenSeq([i \in DOMAIN html.html |-> html.html[i].text]), text)
      /\ \A i \in DOMAIN html.html : html.html[i].target /= None => IsLink(html.html[i])

\* The links in an abstract or in an infobox lie on the words that they lie on
\* in the encyclopedia.  Templates with wide symbols are left out: there
\* Span::merge moves the links too far.
LinksLieOnTheirWords ==
  Answered("pages") /\ answer.entity /= None =>
    \A entity \in entities.docs : entity.title = answer.entity.title =>
      \E i \in DOMAIN plan.articles :
        LET nodes == plan.articles[i].nodes
            Value(key) == entity.info[key]
            IsPlain(key) == Bytes(Value(key).text) = Len(Value(key).text)
        IN  /\ plan.articles[i].title = entity.title
            /\ ShowsTheLinks(answer.entity.abstract, entity.abstract.text, nodes)
            /\ \A k \in DOMAIN answer.entity.info :
                 LET shown == answer.entity.info[k]
                 IN  IsPlain(shown.key) =>
                       ShowsTheLinks(shown.value, Value(shown.key).text, nodes)
=============================================================================
