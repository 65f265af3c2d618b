------------------------------ MODULE Chunking ------------------------------
(***************************************************************************)
(* splitForStream: how a text is cut into chunks of at most MaxChunk bytes *)
(* of UTF-8. A text is a sequence of UTF-16 units, which is what a         *)
(* JavaScript string is cut by.                                            *)
(***************************************************************************)
EXTENDS SequencesExt

CONSTANT MaxChunk     \* MAX_STREAM_CHUNK_BYTES

ASSUME ChunkAssumption == MaxChunk \in Nat /\ MaxChunk >= 3

\* One byte, three bytes, and the halves of a surrogate pair: four bytes
\* together, and three for each half that stands alone.
Units == {"ascii", "wide", "high", "low"}

ByteLength(text) ==
  LET pairs == {i \in DOMAIN text : /\ text[i] = "high" /\ i < Len(text)
                                    /\ text[i + 1] = "low"}
      ascii == {i \in DOMAIN text : text[i] = "ascii"}
  IN  3 * Len(text) - 2 * Cardinality(ascii) - 2 * Cardinality(pairs)

\* Mutant: the length is tested once, and not again after the cut.
ShrinkOnce(text) ==
  LET end == IF Len(text) < MaxChunk THEN Len(text) ELSE MaxChunk
  IN  IF end > 1 /\ ByteLength(SubSeq(text, 1, end)) > MaxChunk THEN (9 * end) \div 10 ELSE end

\* A tenth of the units is given up until the rest fits.
ChunkEnd(text) ==
  LET shrink[end \in 0..MaxChunk] ==
        IF end > 1 /\ ByteLength(SubSeq(text, 1, end)) > MaxChunk
        THEN shrink[(9 * end) \div 10]
        ELSE end
  IN  shrink[IF Len(text) < MaxChunk THEN Len(text) ELSE MaxChunk]

SplitForStream(text) ==
  LET split[rest \in Seq(Units)] ==
        IF rest = <<>> THEN <<>>
        ELSE LET end == ChunkEnd(rest)
             IN  <<SubSeq(rest, 1, end)>> \o split[SubSeq(rest, end + 1, Len(rest))]
  IN  IF ByteLength(text) <= MaxChunk THEN <<text>> ELSE split[text]
=============================================================================
