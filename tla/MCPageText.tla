----------------------------- MODULE MCPageText -----------------------------
(* Documents of a few edges with every kind of element that the scan tells  *)
(* apart, and all lists of up to five plain paragraphs.                     *)
EXTENDS PageText

MCPiece ==
    [space     |-> [len |-> 1, words |-> 0, stops |-> 0, blank |-> TRUE, copyright |-> FALSE],
     indent    |-> [len |-> 9, words |-> 0, stops |-> 0, blank |-> TRUE, copyright |-> FALSE],
     label     |-> [len |-> 20, words |-> 4, stops |-> 0, blank |-> FALSE, copyright |-> FALSE],
     rights    |-> [len |-> 80, words |-> 16, stops |-> 8, blank |-> FALSE, copyright |-> TRUE],
     story     |-> [len |-> 250, words |-> 50, stops |-> 20, blank |-> FALSE, copyright |-> FALSE],
     sentence  |-> [len |-> 110, words |-> 20, stops |-> 8, blank |-> FALSE, copyright |-> FALSE],
     thin      |-> [len |-> 110, words |-> 100, stops |-> 31, blank |-> FALSE, copyright |-> FALSE],
     nonsense  |-> [len |-> 110, words |-> 20, stops |-> 1, blank |-> FALSE, copyright |-> FALSE]]

MCTags == {"p", "h1", "a", "br", "script", "form", "b"}
MCKinds == {"label", "indent"}

Par(kind, heading, at) ==
    [NewParagraph EXCEPT !.is_heading = heading, !.text = <<[kind |-> kind, at |-> at]>>]

PlainKinds == {<<"story", FALSE>>, <<"sentence", FALSE>>, <<"label", FALSE>>, <<"label", TRUE>>,
               <<"nonsense", FALSE>>}

ShortLists == UNION {[1 .. n -> PlainKinds \cup {<<"rights", FALSE>>, <<"thin", FALSE>>}] : n \in 1 .. 3}
LongLists == UNION {[1 .. n -> PlainKinds] : n \in 4 .. 5}

MCPlain == {[i \in DOMAIN l |-> Par(l[i][1], l[i][2], i)] : l \in ShortLists \cup LongLists}
=============================================================================
