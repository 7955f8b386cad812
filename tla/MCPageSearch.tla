---------------------------- MODULE MCPageSearch ---------------------------
(***************************************************************************)
(* One to three jobs over seven pages, among them homepages of one domain, *)
(* of which one cannot be indexed; queries with every kind of term, and    *)
(* goggles with every kind of option.  The plan of one job has a segment   *)
(* in whose order a UnionQuery goes wrong, and just as many words as a     *)
(* dictionary keeps; the others have one more.                             *)
(***************************************************************************)
EXTENDS PageSearch

\* Urls and pages.
Url(scheme, parts) == [scheme |-> scheme, parts |-> parts]
Meta(property, content) == [property |-> property, content |-> content]

Plain == [lang |-> "eng", metas |-> <<>>, requests |-> <<>>, backlinks |-> <<>>,
          hostCentrality |-> 0, pageCentrality |-> 0, fetchTime |-> 1]

MCPage ==
  [home |-> [url |-> Url("https", << <<"www", "a", "com">>, <<>> >>),
             title |-> <<"cats">>, clean |-> <<"cat", "cat", "cats">>,
             all |-> <<"menu", "cat", "cat", "cats">>] @@ Plain,
   post |-> [url |-> Url("https", << <<"blog", "a", "com">>, <<"cart">> >>),
             title |-> <<"cart", "dog">>, clean |-> <<"cart", "on", "cats">>,
             all |-> <<"cart", "on", "cats">>, hostCentrality |-> 2,
             metas |-> <<Meta("og:description", <<"dog">>), Meta("og:description", <<"on">>),
                         Meta("article:modified_time", 3)>>] @@ Plain,
   shop |-> [url |-> Url("https", << <<"shop", "com">> >>),
             title |-> <<"dogs">>, clean |-> <<"dogs", "cart">>, all |-> <<"dogs", "cart">>,
             requests |-> <<Url("https", << <<"cdn", "a", "com">> >>)>>,
             backlinks |-> <<"cat">>, hostCentrality |-> 3, pageCentrality |-> 1,
             fetchTime |-> 2] @@ Plain,
   bare |-> [url |-> Url("https", << <<"a", "com">> >>),
             title |-> <<>>, clean |-> <<"cat">>, all |-> <<"cat">>,
             hostCentrality |-> 2] @@ Plain,
   root |-> [url |-> Url("https", << <<"a", "com">>, <<"rat">> >>),
             title |-> <<"rat">>, clean |-> <<"rat">>, all |-> <<"rat">>,
             hostCentrality |-> 1] @@ Plain,
   gatos |-> [url |-> Url("https", << <<"es", "shop", "com">>, <<"gatos">> >>),
             title |-> <<"gatos">>, clean |-> <<"gato", "cats">>, all |-> <<"gato", "cats">>,
             lang |-> "spa"] @@ Plain,
   news |-> [url |-> Url("https", << <<"news", "co", "uk">>, <<"dog">>, <<>> >>),
             title |-> <<"dog">>, clean |-> <<>>, all |-> <<"cart">>, lang |-> None,
             metas |-> <<Meta("og:updated_time", 9)>>,
             hostCentrality |-> 2] @@ Plain]

Word(w) == [dashes |-> 0, prefix |-> "", text |-> <<w>>]
Minus(raw) == [raw EXCEPT !.dashes = @ + 1]
With(prefix, text) == [dashes |-> 0, prefix |-> prefix, text |-> text]

MCQueries ==
  {<<>>, <<Word("cats")>>, <<Word("cat")>>, <<Word("cart"), Word("dog")>>,
   <<Word("cart"), Minus(Word("cats"))>>, <<Word("cats"), Word("cart")>>, <<Minus(Word("cats"))>>,
   <<Minus(Minus(Word("cats")))>>, <<With("site:", <<"a", "com">>), Word("cart")>>,
   <<With("site:", <<>>)>>, <<Minus(With("site:", <<"blog", "a", "com">>)), Word("cart")>>,
   <<With("intitle:", <<"dog">>)>>, <<With("inbody:", <<"menu">>)>>,
   <<With("inurl:", <<"a", "com">>)>>, <<With("!", <<"g">>), Word("cats")>>,
   <<Word("cats"), With("!", <<"x">>), With("!", <<"g">>), With("!", <<"g">>)>>,
   <<With("!", <<"x">>), Word("cats")>>, <<Minus(With("!", <<"g">>)), Word("dogs")>>,
   <<Word("gatos")>>, <<Word("cit")>>, <<Word("cort"), Word("cats")>>, <<Word("catdogs")>>,
   <<Word("dog"), Word("dog"), Word("dog")>>,
   <<[dashes |-> 0, prefix |-> "", text |-> <<"on", "cats">>]>>}

On(kind) == [kind |-> kind]
OnlyOn(site) == [kind |-> "site", site |-> site]
If(words, options) == [pattern |-> IF words = <<>> THEN <<>> ELSE <<Raw(words)>>, options |-> options]

Pieces(patterns, options) == [pattern |-> patterns, options |-> options]

MCGoggles ==
  {<<If(<<"blog">>, <<On("discard")>>)>>,
   <<If(<<"com", "blog">>, <<On("discard")>>)>>,
   <<If(<<"cart", "a">>, <<On("discard"), On("boost")>>), If(<<"shop", "com">>, <<>>)>>,
   <<If(<<"cart", "dog">>, <<On("intitle"), On("incontent"), On("discard")>>)>>,
   <<If(<<"on", "cats">>, <<On("discard"), On("incontent"), On("inurl")>>)>>,
   <<If(<<"cart", "dog">>, <<On("indescription"), On("discard")>>)>>,
   <<If(<<>>, <<On("discard"), OnlyOn(<<"blog", "a", "com">>), OnlyOn(<<"shop", "com">>)>>)>>,
   <<If(<<>>, <<On("discard")>>), If(<<"com", "shop">>, <<On("boost"), On("discard")>>),
     If(<<>>, <<OnlyOn(<<"news", "co", "uk">>), On("downrank"), On("boost")>>)>>,
   <<If(<<>>, <<On("discard")>>), If(<<"shop">>, <<On("discard")>>)>>,
   <<If(<<>>, <<On("boost")>>)>>,
   <<Pieces(<<Raw(<<"com">>), Wildcard, Raw(<<"a">>)>>, <<On("discard")>>)>>,
   <<If(<<>>, <<On("discard")>>), Pieces(<<Raw(<<"dogs">>), Raw(<<"cart">>)>>, <<On("incontent")>>)>>,
   <<If(<<"blog">>, <<OnlyOn(<<"a", "com">>)>>)>>,
   <<If(<<"cart">>, <<OnlyOn(<<"a", "com">>), On("discard")>>)>>}

MCRankings ==
  [preferred |-> << <<"a", "com">> >>, disliked |-> << <<"shop", "com">> >>,
   blocked |-> << <<"news", "co", "uk">>, <<"www", "a", "com">> >>]

\* One blocked site, which is a domain with sites of its own.
OneBlocked == [preferred |-> <<>>, disliked |-> <<>>, blocked |-> << <<"a", "com">> >>]

Altered(signal, score) == [signal |-> signal, score |-> score]

MCAlterations ==
  {<<Altered("bm25", 3), Altered("region", 0), Altered("bm25", 20)>>, <<Altered("host_centrality", 10)>>}

Searches ==
  [query : MCQueries, goggle : {None}, alterations : {<<>>}, rankings : {None}, region : {None}] \union
  [query : {<<Word("cart")>>, <<Word("cats")>>}, goggle : MCGoggles \union {None},
   alterations : {<<>>}, rankings : {None, MCRankings}, region : {None}] \union
  [query : {<<Word("cart")>>, <<Word("cats")>>}, goggle : {<<If(<<"shop", "com">>, <<On("downrank")>>)>>},
   alterations : MCAlterations, rankings : {MCRankings}, region : {"US", "Spain"}]

UnionSearches ==
  [query : {<<Word("cats")>>, <<Word("cart")>>, <<Word("rat")>>, <<Word("on")>>},
   goggle : {None, <<If(<<>>, <<On("discard")>>), If(<<>>, <<OnlyOn(<<"blog", "a", "com">>)>>),
                     If(<<>>, <<OnlyOn(<<"news", "co", "uk">>)>>)>>},
   alterations : {<<>>}, rankings : {None, OneBlocked}, region : {None}]

\* What was updated within the hour scores without bound in the code.
MCUpdateTimes == [hours \in 0 .. 2 |-> CASE hours = 0 -> 600000 [] hours = 1 -> 60 [] hours = 2 -> 37]

MCKnownBangs == {<<"g">>}

MCStemmer ==
  LET words == {"cat", "cats", "cart", "dog", "dogs", "gato", "gatos", "on", "menu",
                "rat", "cit", "cort", "catdogs", "food", "the", "late", "!", "g", "x", "-",
                "a", "com", "blog", "site:", "intitle:", "inbody:", "inurl:"}
  IN  [eng |-> [w \in words |-> CASE w = "cats" -> "cat" [] w = "dogs" -> "dog" [] OTHER -> w],
       spa |-> [w \in words |-> IF w = "gatos" THEN "gato" ELSE w]]

MCDetected(text) ==
  CASE text \in {<<"cats">>, <<"dogs">>} -> "eng" [] text = <<"gatos">> -> "spa" [] OTHER -> None

MCLetters ==
  [cat |-> <<"c", "a", "t">>, cats |-> <<"c", "a", "t", "s">>, cart |-> <<"c", "a", "r", "t">>,
   dog |-> <<"d", "o", "g">>, dogs |-> <<"d", "o", "g", "s">>, gato |-> <<"g", "a", "t", "o">>,
   gatos |-> <<"g", "a", "t", "o", "s">>, on |-> <<"o", "n">>, menu |-> <<"m", "e", "n", "u">>,
   cit |-> <<"c", "i", "t">>, cort |-> <<"c", "o", "r", "t">>,
   catdogs |-> <<"c", "a", "t", "d", "o", "g", "s">>, rat |-> <<"r", "a", "t">>]

MCWords == <<"cart", "cat", "cats", "dogs", "gato", "on", "rat">>
MCIsBefore(v, w) == \E i, k \in DOMAIN MCWords : i < k /\ MCWords[i] = v /\ MCWords[k] = w

\* Articles of an encyclopedia, and its dump.
Text(symbols) == [kind |-> "text", text |-> symbols]
LinkTo(target, symbols) == [kind |-> "link", target |-> target, text |-> symbols]
Heading == [kind |-> "heading", text |-> <<"more">>]
Category(name) == [kind |-> "category", target |-> name]
Parameter(name, value) == [name |-> name, value |-> value]
Template(parameters) == [kind |-> "template", infobox |-> FALSE, parameters |-> parameters]
Infobox(parameters) == [kind |-> "template", infobox |-> TRUE, parameters |-> parameters]
Article(title, nodes) == [title |-> title, redirects |-> FALSE, nodes |-> nodes]

MCArticles ==
  <<Article(<<"the", "cat">>,
      <<Infobox(<<Parameter("born", <<Text(<<"\n">>), Text(<<"egypt">>), Text(<<"\n">>)>>),
                  Parameter("image", <<Text(<<"File:", "cat">>)>>),
                  Parameter("label", <<Text(<<"cat">>)>>),
                  Parameter("kin", <<Template(<<Parameter(None, <<LinkTo("Dog", <<"dog">>)>>),
                                                Parameter(None, <<LinkTo("Lion", <<"lion">>), Text(<<"etc">>)>>)>>),
                                     Text(<<"and">>), LinkTo("Lynx", <<"lynx">>)>>)>>),
        Text(<<"a", "caet", "is">>), LinkTo("Kin", <<"kin", " ", "to">>), Text(<<"dog">>),
        Heading, Text(<<"food">>), Heading, Text(<<"lost">>), Category("Pets")>>),
    [title |-> <<"kitty">>, redirects |-> TRUE, nodes |-> <<Text(<<"cat">>), Heading, Category("Pets")>>],
    Article(<<"cat">>, <<Text(<<"cat">>), Heading, Category("Disambiguation")>>),
    Article(<<"dog">>,
      <<Infobox(<<Parameter("label", <<Text(<<"dog">>)>>), Parameter("image", <<Text(<<"dog">>)>>),
                  Parameter("kin", <<Template(<<Parameter(None, <<LinkTo("Cat", <<"caet">>)>>),
                                                Parameter(None, <<LinkTo("Wolf", <<"wolf">>)>>)>>)>>),
                  Parameter("size", <<Text(<<"big">>)>>),
                  Parameter("born", <<>>)>>),
        LinkTo("Dog", <<"dog">>), Text(<<"is">>), LinkTo("Pet", <<"pet">>), Heading, Category("Pets")>>),
    Article(<<"dog", "food">>, <<Text(<<"dog">>), Heading>>),
    Article(<<"wild", "cat">>,
      <<Infobox(<<Parameter("size", <<Text(<<"small">>)>>), Parameter("label", <<Text(<<"cat">>)>>),
                  Parameter("kin", <<LinkTo("Cat", <<"cat">>)>>)>>),
        Text(<<"wild">>), Heading, Category(None), Category("Cats")>>),
    Article(<<"late">>, <<Text(<<"late">>), Heading, Category("Cats")>>)>>

Tag(name) == [kind |-> name]
Xml(article) ==
  LET Content(c) == [kind |-> "characters", content |-> c]
  IN  <<Tag("page"), Tag("title"), Content(article.title), Tag("/title")>> \o
      (IF article.redirects THEN <<Tag("redirect")>> ELSE <<>>) \o
      <<Content(<<"\n">>), Tag("text"), Content(article.nodes), Tag("/text"), Tag("/page")>>

EntitySearches ==
  [query : {<<Word("cat")>>, <<Word("the"), Word("dog")>>, <<Word("the")>>, <<Word("late")>>},
   goggle : {None}, alterations : {<<>>}, rankings : {None}, region : {None}]

MCKeys == <<"born", "image", "kin", "label", "size">>

Crawl(jobs, requests) ==
  [jobs |-> jobs, dump |-> None, articles |-> <<>>, requests |-> requests]

MCPlans ==
  {Crawl(<< << <<"home">> >>, << <<"shop">>, <<"bare">> >>, << <<"post", "news">> >> >>, Searches),
   Crawl(<< << <<"home", "post">>, <<"gatos">> >>, << <<"shop">> >> >>, Searches),
   Crawl(<< << <<"home", "root", "news", "post">> >> >>, UnionSearches),
   Crawl(<< << <<"bare", "post">>, <<"home">> >>, << <<"shop">>, <<"gatos", "root">> >> >>,
         UnionSearches),
   [jobs |-> << << <<"home">> >> >>, articles |-> MCArticles,
    dump |-> FlattenSeq([i \in DOMAIN MCArticles |-> Xml(MCArticles[i])]),
    requests |-> EntitySearches]}
=============================================================================
