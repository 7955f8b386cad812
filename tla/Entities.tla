------------------------------ MODULE Entities -----------------------------
(***************************************************************************)
(* Entities (entrypoint/entity.rs, entity_index/entity.rs,                 *)
(* entity_index/mod.rs and the part of search_prettifier.rs that shows     *)
(* them): what is read off the pages of an encyclopedia, how they are      *)
(* indexed and searched, and what of them is shown.                        *)
(*                                                                         *)
(* A text is a sequence of symbols, each one character long: " ", "." or a *)
(* word, which stands for itself.  Those in Wide take two bytes.  What the *)
(* wiki parser makes of a page is a sequence of nodes:                     *)
(*   text (with its text, <<"\n">> for a line break), link (target, text), *)
(*   heading (text), break, category (target, None if it has no colon) and *)
(*   template (infobox: whether its name starts so, and parameters with a  *)
(*   name or None and a value, which is a sequence of nodes)               *)
(***************************************************************************)
EXTENDS Webpages, Functions, Bags, TLC

CONSTANTS Wide,            \* the symbols that take two bytes
          Stopwords,       \* words that a search for an entity leaves out
          Keys,            \* of infoboxes, in the order of the alphabet
          HiddenKeys,      \* keys of an infobox that are never shown
          MaxEntities,     \* taken from a dump: 200 000 in the code
          MaxRelated,      \* shown with an entity: 4 in the code
          MaxInfo,         \* shown of an infobox: 5 in the code
          AbstractLength,  \* shown of an abstract: 300 in the code
          InfoLength       \* shown of the value of an infobox: 150 in the code

ASSUME EntitiesAssumption ==
  /\ MaxEntities \in Nat /\ MaxRelated \in Nat /\ MaxInfo \in Nat
  /\ AbstractLength \in Nat /\ InfoLength \in Nat

Bytes(text) == Len(text) + Cardinality({i \in DOMAIN text : text[i] \in Wide})

Words(text) == {text[i] : i \in DOMAIN text} \ {" ", ".", "\n"}

OfKind(nodes, kind) == SelectSeq(nodes, LAMBDA node : node.kind = kind)
-----------------------------------------------------------------------------
(* Spans: a text with links to other pages, by positions in characters.      *)
Span(text) == [text |-> text, links |-> <<>>]

Link(start, end, target) == [start |-> start, end |-> end, target |-> target]

\* The positions in bytes.
AddLink_Bytes(span, text, target) ==
  [text |-> span.text \o text,
   links |-> Append(span.links, Link(Bytes(span.text), Bytes(span.text \o text), target))]

AddLink(span, text, target) ==
  [text |-> span.text \o text,
   links |-> Append(span.links, Link(Len(span.text), Len(span.text \o text), target))]

\* Span::merge moves the links by the length in bytes.
MergeSpan(span, other) ==
  LET moved == [i \in DOMAIN other.links |->
                  LET link == other.links[i]
                  IN  Link(Bytes(span.text) + link.start, Bytes(span.text) + link.end, link.target)]
  IN  [text |-> span.text \o other.text, links |-> span.links \o moved]

TrimEnd(text) ==
  LET ends == {n \in DOMAIN text : text[n] /= " "}
  IN  SubSeq(text, 1, IF ends = {} THEN 0 ELSE Max(ends))

AddText(span, text) ==
  IF text = <<"\n">>
    THEN IF span.text = <<>> THEN span ELSE [span EXCEPT !.text = @ \o <<".", " ">>]
    ELSE [span EXCEPT !.text = @ \o text]

\* Span::from: of a template at the start the parameters without a name.
RECURSIVE SpanOf(_)
SpanOf(nodes) ==
  LET AddParameter(span, parameter) ==
        LET merged == MergeSpan(span, SpanOf(parameter.value))
        IN  [merged EXCEPT !.text = Append(@, " ")]
      Unnamed(node) == SelectSeq(node.parameters, LAMBDA p : p.name = None)
      AddNode(span, node) ==
        CASE node.kind = "link" -> AddLink(span, node.text, node.target)
          [] node.kind = "text" -> AddText(span, node.text)
          [] node.kind = "template" /\ span.text = <<>> ->
               [FoldLeft(AddParameter, span, Unnamed(node)) EXCEPT !.text = TrimEnd(@)]
          [] OTHER -> span
  IN  FoldLeft(AddNode, Span(<<>>), nodes)
-----------------------------------------------------------------------------
(* EntityBuilder *)

\* extract_info: the first infobox; of a name that comes twice the last value.
ExtractInfo(nodes) ==
  LET boxes == SelectSeq(nodes, LAMBDA node : node.kind = "template" /\ node.infobox)
      named == IF boxes = <<>> THEN <<>>
                 ELSE SelectSeq(Head(boxes).parameters, LAMBDA p : p.name /= None)
      Value(name) == SpanOf(Last(SelectSeq(named, LAMBDA p : p.name = name)).value)
      names == {named[i].name : i \in DOMAIN named}
  IN  [name \in {n \in names : Value(n).text /= <<>>} |-> Value(name)]

\* extract_text: the sections, each up to the next heading; what comes behind
\* the last heading, or without any, is left out.
Sections(nodes) ==
  LET AddNode(done, node) ==
        LET section == IF done.section = None THEN Span(<<>>) ELSE done.section
        IN  CASE node.kind = "text" ->
                   [done EXCEPT !.section = [section EXCEPT !.text = @ \o node.text]]
              [] node.kind = "link" ->
                   [done EXCEPT !.section = AddLink(section, node.text, node.target)]
              [] node.kind = "heading" ->
                   [section |-> Span(<<>>),
                    sections |-> done.sections \o
                                 (IF done.section = None THEN <<>> ELSE <<done.section>>)]
              [] OTHER -> done
  IN  FoldLeft(AddNode, [section |-> None, sections |-> <<>>], nodes).sections

Categories(nodes) ==
  LET found == OfKind(nodes, "category")
  IN  {found[i].target : i \in DOMAIN found} \ {None}

\* EntityBuilder::build: None for a page that tells names apart, or without
\* an abstract.  The other sections are not used.
Build(title, nodes) ==
  LET info == ExtractInfo(nodes)
  IN  IF "Disambiguation" \in Categories(nodes) \/ Sections(nodes) = <<>>
        THEN None
        ELSE [title |-> title, abstract |-> Head(Sections(nodes)),
              info |-> Restrict(info, DOMAIN info \ {"image"}),
              image |-> IF "image" \in DOMAIN info THEN info["image"].text ELSE None,
              categories |-> Categories(nodes)]
-----------------------------------------------------------------------------
(* EntityIndex.  The dump is a sequence of xml events; index.jobs are the    *)
(* downloads to come.                                                        *)
NoEntities == [inTitle |-> FALSE, inText |-> FALSE, builder |-> None, taken |-> 0,
               pending |-> {}, docs |-> {}, occurrences |-> EmptyBag,
               jobs |-> <<>>, images |-> <<>>]

\* wikipedify_url: where an image may be.
WikipedifyUrl(image) ==
  LET name == IF image /= <<>> /\ Head(image) = "File:" THEN Tail(image) ELSE image
  IN  <<<<"commons", name>>, <<"en", name>>>>

\* EntityIndex::insert; the image is kept under the title.
InsertEntity(index, entity) ==
  [index EXCEPT !.pending = @ \union {entity},
                !.occurrences = @ (+) SetToBag(DOMAIN entity.info),
                !.jobs = IF entity.image = None THEN @
                           ELSE @ @@ (entity.title :> WikipedifyUrl(entity.image))]

\* EntityIndexer::run: only with a category, and only so many.
Take(index, entity) ==
  IF entity = None \/ entity.categories = {}
    THEN index
    ELSE [InsertEntity(index, entity) EXCEPT !.taken = @ + 1]

StartPage(index) == [index EXCEPT !.builder = [title |-> <<>>, nodes |-> <<>>]]

\* A redirect is a page like any other.
Redirect_Stays(index) == index

Redirect(index) == [index EXCEPT !.builder = None]

EndPage(index) ==
  IF index.builder = None
    THEN index
    ELSE Take([index EXCEPT !.builder = None], Build(index.builder.title, index.builder.nodes))

\* A text in a title is the title, also if it is in a text as well.
AddXmlText(index, content) ==
  IF index.builder = None
    THEN index
    ELSE IF index.inTitle THEN [index EXCEPT !.builder.title = @ \o content]
    ELSE IF index.inText THEN [index EXCEPT !.builder.nodes = @ \o content]
    ELSE index

\* The loop of EntityIterator::next, one event.
ReadXml(index, event) ==
  CASE event.kind = "page" -> StartPage(index)
    [] event.kind = "/page" -> EndPage(index)
    [] event.kind = "redirect" -> Redirect(index)
    [] event.kind = "title" -> [index EXCEPT !.inTitle = TRUE]
    [] event.kind = "/title" -> [index EXCEPT !.inTitle = FALSE]
    [] event.kind = "text" -> [index EXCEPT !.inText = TRUE]
    [] event.kind = "/text" -> [index EXCEPT !.inText = FALSE]
    [] event.kind = "characters" -> AddXmlText(index, event.content)
    [] OTHER -> index

\* EntityIndex::commit, with what each download gives: the image at the first
\* of its places that answers, or nothing.
CommittedEntities(index) ==
  LET Outcomes == {f \in [DOMAIN index.jobs -> 0 .. 2] : TRUE}
      Images(outcome) == [title \in {t \in DOMAIN outcome : outcome[t] > 0} |->
                            index.jobs[title][outcome[title]]]
  IN  {[index EXCEPT !.docs = @ \union index.pending, !.pending = {}, !.jobs = <<>>,
                     !.images = Images(outcome) @@ @] : outcome \in Outcomes}
-----------------------------------------------------------------------------
(* Searching and showing.                                                    *)
ImageOf(index, entity) == IF entity.title \in DOMAIN index.images THEN entity.title ELSE None

\* related_entities: like the entity, with an image of its own.  The order is
\* that of their scores.  MoreLikeThis looks for each term in the field that it
\* is from; has_image is one of the fields, so that to name an image is enough.
\* Of an entity with more than 25 terms it takes the most telling only.
RelatedEntities(index, entity) ==
  LET Shared(text, other) == (Words(text) \intersect Words(other)) \ Stopwords
      IsLike(e) == \/ Shared(e.title, entity.title) /= {}
                   \/ Shared(e.abstract.text, entity.abstract.text) /= {}
                   \/ entity.image /= None
      like == {e \in index.docs \ {entity} : /\ IsLike(e)
                                            /\ e.image /= None /\ ImageOf(index, e) /= None}
  IN  kSubset(Min({MaxRelated, Cardinality(like)}), like)

\* EntityIndex::search: any of those whose title has all words may be on top.
FoundEntities(index, words) ==
  LET wanted == ToSet(words) \ Stopwords
  IN  IF wanted = {} THEN {} ELSE {e \in index.docs : wanted \subseteq Words(e.title)}

\* entity_link_to_html: pieces of text, with the target of a link or None; the
\* length is compared in bytes and cut in characters.  A link that starts
\* before the last has ended is a panic.
EntityLinkToHtml(span, limit) ==
  LET isCut == Bytes(span.text) > limit
      shown == IF isCut THEN SubSeq(span.text, 1, Min({limit, Len(span.text)})) ELSE span.text
      Piece(from, to, target) ==
        [text |-> SubSeq(shown, from + 1, Min({to, Len(shown)})), target |-> target]
      AddPiece(done, link) ==
        IF done.stop \/ link.start > Len(shown)
          THEN [done EXCEPT !.stop = TRUE]
          ELSE [html |-> done.html \o <<Piece(done.last, link.start, None),
                                        Piece(link.start, link.end, link.target)>>,
                last |-> link.end, stop |-> FALSE, panics |-> done.panics \/ link.start < done.last]
      all == FoldLeft(AddPiece, [html |-> <<>>, last |-> 0, stop |-> FALSE, panics |-> FALSE],
                      span.links)
  IN  [html |-> Append(all.html, Piece(all.last, Len(shown), None)), isCut |-> isCut,
       panics |-> all.panics]

\* prepare_info: of the keys that may be shown those that most entities have.
PrepareInfo(index, info) ==
  LET Occurs(n) == CopiesIn(Keys[n], index.occurrences)
      Before(m, n) == Occurs(m) > Occurs(n) \/ (Occurs(m) = Occurs(n) /\ m < n)
      sorted == SetToSortSeq({n \in DOMAIN Keys : Keys[n] \in DOMAIN info \ HiddenKeys}, Before)
      first == SubSeq(sorted, 1, Min({MaxInfo, Len(sorted)}))
      Shown(key) == [key |-> key, value |-> EntityLinkToHtml(info[key], InfoLength)]
  IN  [i \in DOMAIN first |-> Shown(Keys[first[i]])]

\* DisplayedEntity::from: neither the infobox nor the links of the related
\* entities are read.
DisplayedEntities(index, words) ==
  LET Related(entity) == [title |-> entity.title,
                          abstract |-> EntityLinkToHtml(Span(entity.abstract.text), AbstractLength),
                          image |-> index.images[entity.title]]
      Shown(entity, related) ==
        [title |-> entity.title, abstract |-> EntityLinkToHtml(entity.abstract, AbstractLength),
         image |-> IF ImageOf(index, entity) = None THEN None ELSE index.images[entity.title],
         info |-> PrepareInfo(index, entity.info),
         related |-> {Related(e) : e \in related}]
      found == FoundEntities(index, words)
  IN  IF found = {}
        THEN {None}
        ELSE UNION {{Shown(e, related) : related \in RelatedEntities(index, e)} : e \in found}
=============================================================================
