----------------------------- MODULE MCSandbox -----------------------------
(***************************************************************************)
(* The output of a sandbox under caps of a few bytes, for TLC, and         *)
(* splitForStream on every text that fits under the stream cap.            *)
(***************************************************************************)
EXTENDS SandboxOutput, Chunking

Characters == {<<"ascii">>, <<"wide">>, <<"high", "low">>}
Texts      == {FlattenSeq(t) : t \in UNION {[1..n -> Characters] : n \in 0..MaxStream}}

CutWell(text) ==
  LET chunks == SplitForStream(text)
  IN  /\ FlattenSeq(chunks) = text
      /\ \A i \in DOMAIN chunks : ByteLength(chunks[i]) <= MaxChunk
      /\ text # <<>> => \A i \in DOMAIN chunks : chunks[i] # <<>>

AllCutWell == [n \in 0..MaxStream |-> \A t \in Texts : ByteLength(t) = n => CutWell(t)]

\* Whatever text an output has streamed, its chunks, in order, are the text,
\* although a cut may divide a surrogate pair; none is empty and none exceeds
\* the limit (splitForStream).
ChunksAreTheText == \A s \in Outputs : AllCutWell[streamed[s]]
=============================================================================
