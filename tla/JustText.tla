------------------------------ MODULE JustText ------------------------------
(***************************************************************************)
(* The text of a page (webpage/just_text.rs): the scan that cuts the edges *)
(* of a document tree into paragraphs, and the classification that says    *)
(* which of them are the content of the page.                              *)
(*                                                                         *)
(* Text is a sequence of pieces.  A piece has a kind, whose length, words  *)
(* and stop words are data, and the place `at` of its text node in the     *)
(* document; the blanks that the scan itself adds have no place (0).       *)
(* Every piece begins with a blank, so that words never grow together.     *)
(* Densities are compared as fractions.  `tags_count` is written and never *)
(* read, and left out.                                                     *)
(***************************************************************************)
EXTENDS Integers, SequencesExt

CONSTANT Piece      \* kind -> [len, words, stops, blank, copyright]

ASSUME JustTextAssumption ==
    /\ "space" \in DOMAIN Piece
    /\ Piece["space"] = [len |-> 1, words |-> 0, stops |-> 0, blank |-> TRUE, copyright |-> FALSE]
    /\ \A k \in DOMAIN Piece : Piece[k].blank => Piece[k].words = 0 /\ ~Piece[k].copyright

Headings == {"h1", "h2", "h3", "h4", "h5", "h6"}

Blocks == Headings \cup
    {"body", "blockquote", "caption", "center", "col", "colgroup", "dd", "div",
     "dl", "dt", "fieldset", "form", "legend", "optgroup", "option", "p", "pre",
     "table", "td", "textarea", "tfoot", "th", "thead", "tr", "ul", "li"}

-----------------------------------------------------------------------------
(* Preprocessor: how many of the tags to leave out are open. *)

Removing(tags) == [t \in tags |-> 0]

Opened(removed, tag) ==
    IF tag \in DOMAIN removed THEN [removed EXCEPT ![tag] = @ + 1] ELSE removed

Closed(removed, tag) ==
    IF tag \in DOMAIN removed THEN [removed EXCEPT ![tag] = @ - 1] ELSE removed

InsideRemoved(removed) == \E t \in DOMAIN removed : removed[t] > 0

-----------------------------------------------------------------------------
(* Paragraphs. *)

Total(text, Of(_)) == FoldLeft(LAMBDA n, piece : n + Of(Piece[piece.kind]), 0, text)

Length(par) == Total(par.text, LAMBDA p : p.len)
Words(par) == Total(par.text, LAMBDA p : p.words)
StopWords(par) == Total(par.text, LAMBDA p : p.stops)

NewParagraph ==
    [is_heading |-> FALSE, in_links |-> 0, text |-> <<>>, last_was_whitespace |-> FALSE]

(* A blank after a blank is not added. *)
IsDropped(par, piece) == par.last_was_whitespace /\ Piece[piece.kind].blank

AppendText(par, piece) ==
    IF IsDropped(par, piece) THEN par
    ELSE [par EXCEPT !.text = Append(@, piece), !.last_was_whitespace = Piece[piece.kind].blank]

Blank == [kind |-> "space", at |-> 0]

(* The scan.  `br`: the last thing seen is a <br>; `link`: inside an <a>. *)
NewScan ==
    [removed |-> Removing({"script", "style", "embed", "form", "head", "noscript", "iframe"}),
     br |-> FALSE, link |-> FALSE, heading_count |-> 0, paragraph |-> NewParagraph, res |-> <<>>]

Pushed(s, par) ==
    [s EXCEPT !.res = IF par.text # <<>> THEN Append(@, par) ELSE @, !.paragraph = NewParagraph]

ScanStart(s, tag) ==
    LET removed == Opened(s.removed, tag)
        heading == s.heading_count + (IF tag \in Headings THEN 1 ELSE 0)
        seen    == [s EXCEPT !.removed = removed, !.heading_count = heading]
    IN  IF InsideRemoved(removed) THEN [s EXCEPT !.removed = removed]
        ELSE IF tag \in Blocks \/ (tag = "br" /\ s.br)
        THEN Pushed(seen, [s.paragraph EXCEPT !.is_heading = heading > 0])
        ELSE [seen EXCEPT !.br = tag = "br",
                          !.link = @ \/ tag = "a",
                          !.paragraph = IF tag = "br" THEN AppendText(@, Blank) ELSE @]

ScanText(s, piece) ==
    LET added == IF IsDropped(s.paragraph, piece) THEN 0 ELSE Piece[piece.kind].len
    IN  IF InsideRemoved(s.removed) THEN s
        ELSE [s EXCEPT !.br = FALSE,
                       !.paragraph = [AppendText(@, piece) EXCEPT
                                        !.in_links = @ + (IF s.link THEN added ELSE 0)]]

(* A slip: only the start of a block ends a paragraph. *)
ScanEnd_StartsDecide(s, tag) ==
    LET removed == Closed(s.removed, tag)
        seen    == [s EXCEPT !.removed = removed,
                             !.heading_count = @ - (IF tag \in Headings THEN 1 ELSE 0),
                             !.paragraph = AppendText(@, Blank),
                             !.link = @ /\ tag # "a"]
    IN  IF InsideRemoved(removed) THEN [s EXCEPT !.removed = removed] ELSE seen

(* The end of a tag to leave out is no longer inside of it. *)
ScanEnd(s, tag) ==
    LET removed == Closed(s.removed, tag)
        seen    == [s EXCEPT !.removed = removed,
                             !.heading_count = @ - (IF tag \in Headings THEN 1 ELSE 0),
                             !.paragraph = AppendText(@, Blank),
                             !.link = @ /\ tag # "a"]
    IN  IF InsideRemoved(removed) THEN [s EXCEPT !.removed = removed]
        ELSE IF tag \in Blocks THEN Pushed(seen, seen.paragraph)
        ELSE seen

(* The end of the document. *)
Scanned(s) == Pushed(s, s.paragraph).res

-----------------------------------------------------------------------------
(* Classification. *)

Clean == [max_link_density |-> <<1, 5>>, length_low |-> 70, length_high |-> 200,
          stopwords_low |-> <<30, 100>>, stopwords_high |-> <<32, 100>>,
          max_heading_distance |-> 200]

(* The classifier whose thresholds let everything through. *)
All == [max_link_density |-> <<2, 1>>, length_low |-> 0, length_high |-> 0,
        stopwords_low |-> <<-1, 1>>, stopwords_high |-> <<-1, 1>>,
        max_heading_distance |-> 10000]

(* In a paragraph without words the density is not a number: no comparison holds. *)
StopWordsReach(par, limit) ==
    Words(par) > 0 /\ StopWords(par) * limit[2] >= limit[1] * Words(par)

Initial(config, par) ==
    CASE \/ par.in_links * config.max_link_density[2] > config.max_link_density[1] * Length(par)
         \/ \E k \in DOMAIN par.text : Piece[par.text[k].kind].copyright    -> "Bad"
      [] OTHER ->
         IF Length(par) < config.length_low
         THEN IF par.in_links > 0 THEN "Bad" ELSE "Short"
         ELSE IF StopWordsReach(par, config.stopwords_high)
         THEN IF Length(par) > config.length_high THEN "Good" ELSE "NearGood"
         ELSE IF StopWordsReach(par, config.stopwords_low) THEN "NearGood" ELSE "Bad"

(* Good headings: a short heading is let through if a good paragraph follows *)
(* near enough; the paragraphs in between have fewer characters than that.   *)
GoodHeadings(config, pars, class) ==
    [i \in DOMAIN class |->
        IF /\ pars[i].is_heading
           /\ class[i] = "Short"
           /\ \E j \in i + 1 .. Len(class) :
                /\ class[j] = "Good"
                /\ FoldLeft(LAMBDA n, par : n + Length(par), 0, SubSeq(pars, i + 1, j - 1))
                     < config.max_heading_distance
        THEN "NearGood" ELSE class[i]]

(* The class of the nearest paragraph of one of these classes; none is bad. *)
NearestOf(class, places, stops, Nearer(_, _)) ==
    LET found == {j \in places : class[j] \in stops}
    IN  IF found = {} THEN "Bad"
        ELSE class[CHOOSE j \in found : \A k \in found : k = j \/ Nearer(j, k)]

Stops(ignore_neargood) ==
    IF ignore_neargood THEN {"Good", "Bad"} ELSE {"Good", "Bad", "NearGood"}

Prev(class, i, ignore_neargood) ==
    NearestOf(class, 1 .. i - 1, Stops(ignore_neargood), LAMBDA j, k : j > k)

Next_(class, i, ignore_neargood) ==
    NearestOf(class, i + 1 .. Len(class), Stops(ignore_neargood), LAMBDA j, k : j < k)

ClassifyShort(class) ==
    [i \in DOMAIN class |->
        IF class[i] # "Short" THEN class[i]
        ELSE LET prev == Prev(class, i, TRUE)
                 next == Next_(class, i, TRUE)
             IN  IF prev = next THEN prev
                 ELSE IF \/ prev = "Bad" /\ Prev(class, i, FALSE) = "NearGood"
                         \/ next = "Bad" /\ Next_(class, i, FALSE) = "NearGood"
                 THEN "Good" ELSE "Bad"]

(* A slip: the nearest paragraph of any class but short decides. *)
ReviseNearGood_LooksNext(class) ==
    [i \in DOMAIN class |->
        IF class[i] # "NearGood" THEN class[i]
        ELSE IF Prev(class, i, FALSE) = "Good" \/ Next_(class, i, FALSE) = "Good"
        THEN "Good" ELSE "Bad"]

(* The last loop changes the classes it reads, from the first to the last. *)
ReviseNearGood(class) ==
    LET Revised(c, i) ==
            IF c[i] # "NearGood" THEN c
            ELSE [c EXCEPT ![i] =
                    IF Prev(c, i, TRUE) = "Bad" /\ Next_(c, i, TRUE) = "Bad"
                    THEN "Bad" ELSE "Good"]
    IN  FoldLeft(Revised, class, [i \in DOMAIN class |-> i])

Contextual(config, pars) ==
    ReviseNearGood(ClassifyShort(GoodHeadings(config, pars,
        [i \in DOMAIN pars |-> Initial(config, pars[i])])))

HasText(par) == \E k \in DOMAIN par.text : ~Piece[par.text[k].kind].blank

(* The paragraphs whose text is kept, in order. *)
Extract(config, pars) ==
    LET texts == SelectSeq(pars, HasText)
        class == Contextual(config, texts)
    IN  SelectSeq([i \in DOMAIN texts |-> [par |-> texts[i], class |-> class[i]]],
                  LAMBDA t : t.class \in {"Good", "NearGood"})
=============================================================================
