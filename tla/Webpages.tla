----------------------------- MODULE Webpages -----------------------------
(***************************************************************************)
(* Urls and web pages (webpage/url.rs, webpage/mod.rs, webpage/region.rs)  *)
(* and the documents that the search index stores of them (schema.rs).     *)
(*                                                                         *)
(* A word is an opaque value; a text is a sequence of words, an empty one  *)
(* an absent text; punctuation is left out of texts and queries alike.  A  *)
(* url is its scheme ("https", "//" or "" for none) and its parts between  *)
(* slashes, each a sequence of labels: the first is the site, a part <<>>  *)
(* at the end a slash at the end.  Queries and fragments of urls are left  *)
(* out.  A page is what the parsed html tells:                             *)
(*   url, title, all, clean (the texts), lang                              *)
(*   metas    its meta tags, each with a property and a content            *)
(*   requests     the urls that its scripts and links load from            *)
(*   backlinks    the text of the links to it                              *)
(*   hostCentrality, pageCentrality, fetchTime  from the indexer           *)
(***************************************************************************)
EXTENDS Integers, Sequences, SequencesExt, FiniteSets, FiniteSetsExt

CONSTANTS None,            \* Option::None
          Now,             \* the time when a page is indexed
          Stemmer          \* for each language, the stem of each word

Drop(s, n) == SubSeq(s, n + 1, Len(s))
-----------------------------------------------------------------------------
(* Urls.                                                                     *)
Site(url) == url.parts[1]

SecondLevel == <<"co", "uk">>

DomainOf(site) ==
  LET kept == IF Drop(site, Len(site) - 2) = SecondLevel THEN 3 ELSE 2
  IN  IF Len(site) > 2 THEN Drop(site, Len(site) - kept) ELSE site

Domain(url) == DomainOf(Site(url))

DomainName(url) == IF Domain(url) = <<>> THEN <<>> ELSE <<Head(Domain(url))>>

IsHomepage(url) == Tail(url.parts) \in {<<>>, << <<>> >>}

UrlTokens(url) == <<"https">> \o FlattenSeq(url.parts)
-----------------------------------------------------------------------------
(* What is read off a page.  Of the meta tags with a property the first      *)
(* counts, whether it has a content or not.                                  *)
MetaContent(page, property) ==
  LET found == SelectSeq(page.metas, LAMBDA meta : meta.property = property)
  IN  IF found = <<>> THEN None ELSE Head(found).content

OrElse(value, other) == IF value = None THEN other ELSE value

TextOf(value) == IF value = None THEN <<>> ELSE value

Description(page) == TextOf(MetaContent(page, "og:description"))

UpdatedTime(page) ==
  LET time == OrElse(MetaContent(page, "og:updated_time"),
                     MetaContent(page, "article:modified_time"))
  IN  IF time = None \/ time > Now THEN None ELSE time

NumTrackers(page) ==
  Cardinality({Site(page.requests[i]) : i \in DOMAIN page.requests}
                \ {<<>>, Site(page.url)})

RegionOf(lang) ==
  CASE lang = "eng" -> "US" [] lang = "spa" -> "Spain" [] lang = "fra" -> "France"
    [] lang = "deu" -> "Germany" [] lang = "dan" -> "Denmark" [] OTHER -> "All"

Stem(lang, text) == [i \in DOMAIN text |-> Stemmer[lang][text[i]]]
-----------------------------------------------------------------------------
(* The schema.  A field is searched by its tokens, a field with the identity *)
(* tokenizer by the whole of its text.                                       *)
Identity == {"SiteNoTokenizer", "DomainNoTokenizer", "DomainNameIfHomepageNoTokenizer"}
Stemmed == {"StemmedTitle", "StemmedCleanBody"}
Tokenized == {"Title", "CleanBody", "AllBody", "Url", "Site", "Domain",
              "DomainIfHomepage", "TitleIfHomepage", "BacklinkText", "Description"}

\* PrimaryImage is left out: it holds bytes, and no index of the indexer has
\* the image (see PageSearch).
IsSearchable(field) == field /= "BacklinkText"

SearchableFields == {f \in Identity \union Stemmed \union Tokenized : IsSearchable(f)}

\* Html::into_tantivy fails on a page without a title or without a text.
IsIndexable(page) == page.title /= <<>> /\ page.all /= <<>>

\* Html::into_tantivy: the tokens of the text fields ...
TextFields(page) ==
  LET url == page.url
      lang == IF page.lang = None THEN "eng" ELSE page.lang
      OfHomepage(text) == IF IsHomepage(url) THEN text ELSE <<>>
  IN  [Title |-> page.title,
       StemmedTitle |-> Stem(lang, page.title),
       CleanBody |-> page.clean,
       StemmedCleanBody |-> Stem(lang, page.clean),
       AllBody |-> page.all,
       Description |-> Description(page),
       Url |-> UrlTokens(url),
       Site |-> Site(url),
       Domain |-> Domain(url),
       SiteNoTokenizer |-> Site(url),
       DomainNoTokenizer |-> Domain(url),
       TitleIfHomepage |-> OfHomepage(page.title),
       DomainIfHomepage |-> OfHomepage(Domain(url)),
       DomainNameIfHomepageNoTokenizer |-> OfHomepage(DomainName(url)),
       BacklinkText |-> page.backlinks]

\* ... and the fast fields, but for lengths and hashes (see BucketCollector).
FastFields(page) ==
  [IsHomepage |-> IF IsHomepage(page.url) THEN 1 ELSE 0,
   UpdateTimestamp |-> IF UpdatedTime(page) = None THEN 0 ELSE UpdatedTime(page),
   NumTrackers |-> NumTrackers(page)]

\* Webpage::into_tantivy
IntoTantivy(page, preComputedScore) ==
  [text |-> TextFields(page),
   stored |-> [title |-> page.title, body |-> page.clean, dirtyBody |-> page.all,
               description |-> Description(page), url |-> page.url],
   fast |-> FastFields(page) @@
            [Region |-> RegionOf(page.lang), HostCentrality |-> page.hostCentrality,
             PageCentrality |-> page.pageCentrality, FetchTimeMs |-> page.fetchTime,
             PreComputedScore |-> preComputedScore]]

\* RetrievedWebpage::from; a time or a description that is empty is absent.
RetrievedOf(doc) ==
  [url |-> doc.stored.url, title |-> doc.stored.title, body |-> doc.stored.body,
   dirtyBody |-> doc.stored.dirtyBody,
   description |-> IF doc.stored.description = <<>> THEN None ELSE doc.stored.description,
   updated |-> IF doc.fast.UpdateTimestamp = 0 THEN None ELSE doc.fast.UpdateTimestamp,
   region |-> doc.fast.Region]
=============================================================================
