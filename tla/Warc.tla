-------------------------------- MODULE Warc -------------------------------
(***************************************************************************)
(* Downloads of WARC files and the records that come out of them (warc.rs).*)
(*                                                                         *)
(* A file is a sequence of gzip members, one for each raw record.  After   *)
(* the warcinfo record each capture of a page has a request, with the url, *)
(* a response, with the body, and a metadata record.  A damaged response   *)
(* is read as one or more records that do not parse: next_raw gives up at  *)
(* the first line that is wrong and goes on behind it.                     *)
(***************************************************************************)
EXTENDS Integers, Sequences, SequencesExt

CONSTANT Attempts      \* how often a download is tried: 5 in the code

ASSUME AttemptsAssumption == Attempts \in Nat \ {0}

Member(type, capture) == [type |-> type, of |-> capture]

Header == Member("warcinfo", "none")
Junk == Member("junk", "none")       \* next_raw reads it and gives an error
NoGzip == Member("no gzip", "none")  \* the decoder fails for good

\* pieces: in how many reads the response of a damaged capture ends up.
FileOf(captures, pieces) ==
  <<Header>> \o FlattenSeq([k \in DOMAIN captures |->
    LET c == captures[k]
        response == IF c \in DOMAIN pieces THEN [n \in 1 .. pieces[c] |-> Junk]
                                           ELSE <<Member("response", c)>>
    IN  <<Member("request", c)>> \o response \o <<Member("metadata", c)>>])

Damaged(file) == Junk \in ToSet(file)

\* What a file is made of: members that can be read, and as long as none of them
\* is damaged the three of a capture stand together.
IsMember(m) == m = Member(m.type, m.of) /\ m /= NoGzip
IsGrouped(file) == \A k \in 1 .. (Len(file) - 1) \div 3 :
  file[3 * k - 1].of = file[3 * k].of /\ file[3 * k].of = file[3 * k + 1].of
IsFile(file) ==
  /\ file \in Seq(ToSet(file))
  /\ \A m \in ToSet(file) : IsMember(m)
  /\ ~Damaged(file) => IsGrouped(file)

\* Without the seek to the start an attempt goes on where the last one ended.
Overwrite_Appends(buf, bytes) == buf \o bytes

\* Seek to the start and write: what the old content has beyond stays.
Overwrite(buf, bytes) == bytes \o SubSeq(buf, Len(bytes) + 1, Len(buf))

\* The buffer after some failed attempts, each of which broke off somewhere.
Partial(file) ==
  LET after[k \in 0 .. Attempts - 1] ==
        IF k = 0 THEN {<<>>}
                 ELSE {Overwrite(buf, SubSeq(file, 1, n)) :
                         buf \in after[k - 1], n \in 0 .. Len(file)}
  IN  UNION {after[k] : k \in 0 .. Attempts - 1}

\* What a download that succeeds may leave: the status of the response is not
\* looked at, so the page may be an error message.
Downloads(file) == {Overwrite(buf, body) : buf \in Partial(file),
                                           body \in {file, <<NoGzip>>}}
-----------------------------------------------------------------------------
(* RecordIterator: after the first raw record, every three make one record,  *)
(* in whatever order; the caller flattens errors away.                       *)

Reads(buf) ==
  LET ends == {k \in DOMAIN buf : buf[k] = NoGzip}
  IN  IF ends = {} THEN buf ELSE SubSeq(buf, 1, Min(ends) - 1)

\* The elements of a sequence that are among the good ones.
Selected(seq, good) ==
  LET upTo[n \in 0 .. Len(seq)] ==
        IF n = 0 THEN <<>>
        ELSE IF seq[n] \in good THEN Append(upTo[n - 1], seq[n]) ELSE upTo[n - 1]
  IN  upTo[Len(seq)]

PageOf(triple) ==
  LET Part(type) == (CHOOSE k \in 1 .. 3 : triple[k].type = type)
  IN  [url |-> triple[Part("request")].of, body |-> triple[Part("response")].of]

IsRecord(triple) ==
  {triple[k].type : k \in 1 .. 3} = {"request", "response", "metadata"}

Records(buf) ==
  LET reads == Reads(buf)
      triples == [k \in 1 .. (Len(reads) - 1) \div 3 |->
                    SubSeq(reads, 3 * k - 1, 3 * k + 1)]
      records == Selected(triples, {t \in ToSet(triples) : IsRecord(t)})
  IN  IF reads = <<>> \/ Head(reads) = Junk
        THEN <<>>
        ELSE [k \in DOMAIN records |-> PageOf(records[k])]
=============================================================================
