---------------------------- MODULE MC_FeatureParser ----------------------------
(***************************************************************************)
(* Feature files for FeatureParser: three headers (a plain one, one with  *)
(* an "@relation" line, one without "@data") followed by every body of up *)
(* to four lines over two benchmarks, rows of one and three values, blank *)
(* lines, an ARFF comment and a non-numeric row.                          *)
(***************************************************************************)
EXTENDS FeatureParser

CONSTANTS b1, b2

Line(k, b, n) == [kind |-> k, bench |-> b, values |-> n]
Attr == Line("attr", None, 0)
DataMark == Line("data", None, 0)
Relation == Line("other", None, 0)
Bench(b) == Line("bench", b, 0)
Row(n) == Line("dp", None, n)

Headers == {<<Attr, Attr, Attr, DataMark>>, <<Relation, Attr, Attr, Attr, DataMark>>,
            <<Attr, Bench(b1), Row(1)>>}
Alphabet == {Bench(b1), Bench(b2), Row(1), Row(3), Line("blank", None, 0)}
Rare == {Line("comment", None, 0), Row(4), Line("other", None, 0)}

\* Every body of up to four lines over Alphabet, and bodies with one rare
\* line among two ordinary ones.
Bodies ==
    UNION {[1 .. n -> Alphabet] : n \in 0 .. 4}
      \cup {<<x, r, y>> : x, y \in Alphabet, r \in Rare}

MCFiles == {h \o b : h \in Headers, b \in Bodies}

=============================================================================
