------------------------------ MODULE PageText ------------------------------
(***************************************************************************)
(* From a document tree to its text and its links: Html::parse_text and    *)
(* Html::links (webpage/mod.rs) over JustText.                             *)
(*                                                                         *)
(* The tree is traversed edge by edge, and any tree may come: an element   *)
(* starts, a text node stands there, the innermost element ends.  Both     *)
(* traversals see the same edges, each with a Preprocessor of its own.     *)
(***************************************************************************)
EXTENDS JustText, FiniteSets

CONSTANTS Tags,         \* the elements of the documents
          Kinds,        \* the kinds of text nodes
          MaxEdges,     \* edges of a document
          Plain         \* paragraphs of documents that have been traversed

ASSUME PageTextAssumption ==
    /\ Kinds \subseteq DOMAIN Piece \ {"space"}
    /\ MaxEdges \in Nat

VARIABLES pc,       \* "traverse", "done"
          path,     \* the open elements
          scan,     \* JustText::paragraphs
          open,     \* Html::links: the open links,
          links,    \* the links found,
          skipped,  \* and its own Preprocessor
          text,     \* clean_text and all_text
          nodes,    \* history: the text nodes, and what they are in
          closed,   \* history: the links, as they ended
          edges     \* a bound

vars == <<pc, path, scan, open, links, skipped, text, nodes, closed, edges>>

(* The <br> element has no content, a removed script only text. *)
Inner == IF path = <<>> THEN "none" ELSE Last(path).tag
MayHold(tag) == Inner \notin {"br", "script"} \/ (Inner = "script" /\ tag = "text")

(* Where a text node is: what it is for the reader of the document. *)
Within(tags) == {k \in DOMAIN path : path[k].tag \in tags}

BlockHere ==
    LET blocks == Within(Blocks) IN IF blocks = {} THEN 0 ELSE path[Max(blocks)].edge

Node(kind) ==
    [kind |-> kind, block |-> BlockHere,
     heading |-> Within(Headings) # {},
     in |-> {path[k].edge : k \in Within({"a"})},
     textless |-> Within(DOMAIN NewScan.removed) # {},
     linkless |-> Within(DOMAIN skipped) # {}]

-----------------------------------------------------------------------------
(* A document whose paragraphs are plain: each of them a block. *)
PlainScan(pars) == [NewScan EXCEPT !.res = pars]

PlainNodes(pars) ==
    [i \in DOMAIN pars |->
        [kind |-> pars[i].text[1].kind, block |-> -i, heading |-> FALSE, in |-> {},
         textless |-> FALSE, linkless |-> FALSE]]

Init ==
    /\ pc = "traverse"
    /\ path = <<>>
    /\ \E pars \in Plain \cup {<<>>} :
        /\ scan = PlainScan(pars)
        /\ nodes = PlainNodes(pars)
        /\ edges = IF pars = <<>> THEN 0 ELSE MaxEdges
    /\ open = <<>>
    /\ links = <<>>
    /\ skipped = Removing({"script", "style", "head", "noscript"})
    /\ text = [clean |-> <<>>, all |-> <<>>]
    /\ closed = <<>>

(* NodeEdge::Start of an element.  A link may have no destination. *)
LinksStart(tag, href) ==
    /\ skipped' = Opened(skipped, tag)
    /\ open' = IF tag = "a" /\ ~InsideRemoved(skipped') THEN Append(open, [href |-> href, text |-> <<>>]) ELSE open
    /\ UNCHANGED links

StartElement(tag, href) ==
    /\ pc = "traverse"
    /\ edges < MaxEdges
    /\ MayHold(tag)
    /\ edges' = edges + 1
    /\ path' = Append(path, [tag |-> tag, edge |-> edges + 1, href |-> href, nested |-> Within({"a"}) # {}])
    /\ scan' = ScanStart(scan, tag)
    /\ LinksStart(tag, href)
    /\ UNCHANGED <<pc, text, nodes, closed>>

(* A slip: only the innermost link gets the text. *)
LinksText_OnlyInnermost(piece) ==
    open' = IF InsideRemoved(skipped) \/ Piece[piece.kind].blank \/ open = <<>> THEN open
            ELSE [open EXCEPT ![Len(open)].text = Append(@, piece.at)]

(* A text node: JustText takes it at its start, the links at its end. *)
LinksText(piece) ==
    open' = IF InsideRemoved(skipped) \/ Piece[piece.kind].blank THEN open
            ELSE [k \in DOMAIN open |-> [open[k] EXCEPT !.text = Append(@, piece.at)]]

TextNode(kind) ==
    /\ pc = "traverse"
    /\ edges < MaxEdges
    /\ MayHold("text")
    /\ edges' = edges + 1
    /\ nodes' = Append(nodes, Node(kind))
    /\ LET piece == [kind |-> kind, at |-> Len(nodes) + 1]
       IN  scan' = ScanText(scan, piece) /\ LinksText(piece)
    /\ UNCHANGED <<pc, path, links, skipped, text, closed>>

(* NodeEdge::End of an element. *)
LinksEnd(tag) ==
    /\ skipped' = Closed(skipped, tag)
    /\ IF tag = "a" /\ ~InsideRemoved(skipped') /\ open # <<>>
       THEN /\ open' = Front(open)
            /\ links' = IF Last(open).href = "none" THEN links ELSE Append(links, Last(open))
       ELSE UNCHANGED <<open, links>>

EndElement ==
    /\ pc = "traverse"
    /\ path # <<>>
    /\ path' = Front(path)
    /\ scan' = ScanEnd(scan, Inner)
    /\ LinksEnd(Inner)
    /\ closed' = IF Inner = "a" /\ Within(DOMAIN skipped) = {} THEN Append(closed, Last(path)) ELSE closed
    /\ UNCHANGED <<pc, text, nodes, edges>>

(* The end of the document, and both classifications. *)
ParseText ==
    /\ pc = "traverse"
    /\ path = <<>>
    /\ pc' = "done"
    /\ LET pars == Scanned(scan)
       IN  text' = [clean |-> Extract(Clean, pars), all |-> Extract(All, pars)]
    /\ UNCHANGED <<path, scan, open, links, skipped, nodes, closed, edges>>

Next ==
    \/ \E tag \in Tags : \E href \in (IF tag = "a" THEN {"none", "dest"} ELSE {"none"}) : StartElement(tag, href)
    \/ \E kind \in Kinds : TextNode(kind)
    \/ EndElement
    \/ ParseText

Spec == Init /\ [][Next]_vars

-----------------------------------------------------------------------------
Paragraphs == Scanned(scan)
Texts == [i \in DOMAIN Paragraphs |-> SelectSeq(Paragraphs[i].text, LAMBDA p : p.at # 0 /\ ~Piece[p.kind].blank)]
Places(pieces) == [k \in DOMAIN pieces |-> pieces[k].at]
NodesWhere(Test(_)) == SelectSeq([k \in DOMAIN nodes |-> k], Test)

TypeOK ==
    /\ pc \in {"traverse", "done"}
    /\ scan.heading_count = Cardinality(Within(Headings)) \/ InsideRemoved(scan.removed)
    /\ \A t \in DOMAIN scan.removed : scan.removed[t] = Cardinality(Within({t}))
    /\ \A k \in DOMAIN open : open[k].href \in {"none", "dest"}

(* Every text node outside of the removed elements is in one paragraph, in  *)
(* the order of the document, and a paragraph has the text of one block: a  *)
(* paragraph ends with its block, whatever was opened, closed or removed in *)
(* between.  Its density of links counts the characters that are in links,  *)
(* no more and no fewer, as long as no link is inside another.              *)
NoLinkIsNested ==
    /\ \A k \in DOMAIN closed : ~closed[k].nested
    /\ \A k \in DOMAIN path : path[k].tag = "a" => ~path[k].nested

InLinks(i) == SelectSeq(Paragraphs[i].text, LAMBDA p : p.at # 0 /\ nodes[p.at].in # {})

ParagraphsAreBlocks ==
    /\ FlattenSeq([i \in DOMAIN Texts |-> Places(Texts[i])])
         = NodesWhere(LAMBDA k : ~nodes[k].textless /\ ~Piece[nodes[k].kind].blank)
    /\ \A i \in DOMAIN Texts : \A k, l \in DOMAIN Texts[i] :
            nodes[Texts[i][k].at].block = nodes[Texts[i][l].at].block
    /\ NoLinkIsNested =>
            \A i \in DOMAIN Paragraphs :
                Paragraphs[i].in_links = Total(InLinks(i), LAMBDA p : p.len)

(* The links are the elements with a destination, as they ended, each with  *)
(* all text that stands in it, links within links included.                 *)
LinksAreFound ==
    LET named == SelectSeq(closed, LAMBDA a : a.href # "none")
    IN  links = [k \in DOMAIN named |->
                    [href |-> named[k].href,
                     text |-> NodesWhere(LAMBDA n : /\ named[k].edge \in nodes[n].in
                                                    /\ ~nodes[n].linkless
                                                    /\ ~Piece[nodes[n].kind].blank)]]

Kept(which) == {text[which][k].par : k \in DOMAIN text[which]}

(* What a paragraph is kept for: by the first look at it alone, a good one  *)
(* is kept and a bad one is not; one in between is kept exactly if a good   *)
(* one can be reached from it without passing a bad one; a short one only   *)
(* then, and always if that is so on both sides.                            *)
KeptNextToGood ==
    pc = "done" =>
        LET pars  == SelectSeq(Paragraphs, HasText)
            first == GoodHeadings(Clean, pars, [i \in DOMAIN pars |-> Initial(Clean, pars[i])])
            kept  == {i \in DOMAIN pars : pars[i] \in Kept("clean")}
            Clear(i, j) == \A k \in i + 1 .. j - 1 : first[k] # "Bad"
            Above(i) == \E j \in 1 .. i - 1 : first[j] = "Good" /\ Clear(j, i)
            Below(i) == \E j \in i + 1 .. Len(pars) : first[j] = "Good" /\ Clear(i, j)
        IN  \A i \in DOMAIN pars :
                CASE first[i] = "Good" -> i \in kept
                  [] first[i] = "Bad" -> i \notin kept
                  [] first[i] = "NearGood" -> i \in kept <=> Above(i) \/ Below(i)
                  [] OTHER -> /\ i \in kept => Above(i) \/ Below(i)
                              /\ Above(i) /\ Below(i) => i \in kept
=============================================================================
