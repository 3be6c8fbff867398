------------------------------ MODULE Chunking ------------------------------
(***************************************************************************)
(* The four chunkers of 04-rag/ragkit/chunking.py as operators on a text,  *)
(* and a document that is typed one character at a time so that they are   *)
(* compared with what a chunk promises on every text up to a length.       *)
(*                                                                         *)
(* A character is "w" (a letter), "s" (a space), "n" (a newline), "p" (the *)
(* end of a sentence), or "1" and "2", which stand for a Markdown marker   *)
(* of that level with the blank that follows it.                           *)
(***************************************************************************)
EXTENDS Integers, SequencesExt

CONSTANTS
  Characters,   \* what the document is written with
  ChunkSize,    \* chunk_size
  Overlap,      \* overlap
  Percentile,   \* percentile of the semantic chunker, in tenths
  MaxLength     \* bound: characters of a document

\* __post_init__ refuses an overlap that reaches chunk_size and, in the fixed chunker, a
\* chunk_size that is not positive.  A negative overlap, whose windows skip characters,
\* and a recursive chunker without room are accepted there; nobody asks for them.
ASSUME ChunkingAssumption ==
  /\ Characters \subseteq {"w", "s", "n", "p", "1", "2"}
  /\ ChunkSize \in Nat \ {0} /\ Overlap \in 0 .. ChunkSize - 1
  /\ Percentile \in 0 .. 10 /\ MaxLength \in Nat

VARIABLE text   \* document.text

Blank == {"s", "n"}
Separators == << <<"n", "n">>, <<"n">>, <<"p", "s">>, <<"s">>, <<>> >>

\* Offsets are the code's: the first character is at 0, and the end is excluded.
Slice(t, from, to) == SubSeq(t, from + 1, Min({to, Len(t)}))
Suffix(t, n) == Slice(t, Max({0, Len(t) - n}), Len(t))

Strip(t) ==
  LET solid == {i \in DOMAIN t : t[i] \notin Blank}
  IN  IF solid = {} THEN <<>> ELSE SubSeq(t, Min(solid), Max(solid))

Piece(t, start) == [text |-> t, start |-> start]
\* A piece that is blank makes no chunk.
Kept(p) ==
  IF Strip(p.text) = <<>> THEN <<>>
  ELSE <<[text |-> Strip(p.text), start |-> p.start, end |-> p.start + Len(p.text)]>>
Finalize(pieces) == FlattenSeq([i \in DOMAIN pieces |-> Kept(pieces[i])])

\* A window of chunk_size at every step, whatever is left of the text at its end.
Windows(t) ==
  LET step == ChunkSize - Overlap
  IN  [i \in 1 .. ((Len(t) + step - 1) \div step) |->
         Piece(Slice(t, (i - 1) * step, (i - 1) * step + ChunkSize), (i - 1) * step)]

\* Mutant: the last window is dropped when its text, not its span, is in the one
\* before it.
Fixed_by_text(t) ==
  LET windows == Windows(t)
      Inside(p, q) == \E i \in 0 .. Len(q.text) : Slice(q.text, i, i + Len(p.text)) = p.text
  IN  Finalize(IF Len(windows) > 1 /\ Inside(Last(windows), windows[Len(windows) - 1])
               THEN Front(windows) ELSE windows)

Fixed(t) ==
  LET windows == Windows(t)
      last == Last(windows)
  IN  Finalize(IF /\ Len(windows) > 1
                  /\ last.start + Len(last.text) <= windows[Len(windows) - 1].start + ChunkSize
               THEN Front(windows) ELSE windows)

Slices(t, size) ==
  [i \in 1 .. ((Len(t) + size - 1) \div size) |-> Slice(t, (i - 1) * size, i * size)]

\* text.split(separator), every part but the last with its separator back on.
ReadPart(acc, c, separator) ==
  LET part == Append(acc.part, c)
  IN  IF Suffix(part, Len(separator)) = separator
      THEN [out |-> Append(acc.out, part), part |-> <<>>] ELSE [acc EXCEPT !.part = part]
Parts(t, separator) ==
  LET all == FoldLeft(LAMBDA acc, c : ReadPart(acc, c, separator), [out |-> <<>>, part |-> <<>>], t)
  IN  Append(all.out, all.part)

\* Small parts are merged up to the size; a part that is too long stays alone, for
\* the next separator.
Flush(acc) == IF acc.buffer = <<>> THEN acc.out ELSE Append(acc.out, acc.buffer)
Merge(acc, part, size) ==
  CASE Len(part) > size -> [out |-> Append(Flush(acc), part), buffer |-> <<>>]
    [] Len(part) <= size /\ Len(acc.buffer) + Len(part) <= size -> [acc EXCEPT !.buffer = @ \o part]
    [] OTHER -> [out |-> Flush(acc), buffer |-> part]
Merged(parts, size) ==
  Flush(FoldLeft(LAMBDA acc, part : Merge(acc, part, size), [out |-> <<>>, buffer |-> <<>>], parts))

\* One level of _split_text, for every text that is still too long.
SplitOne(t, size, separator) ==
  CASE Len(t) <= size -> <<t>>
    [] Len(t) > size /\ separator = <<>> -> Slices(t, size)
    [] OTHER -> Merged(Parts(t, separator), size)
SplitAll(texts, size, separator) ==
  FlattenSeq([i \in DOMAIN texts |-> SplitOne(texts[i], size, separator)])
SplitText(t, size) ==
  LET Level(texts, n) == SplitAll(texts, size, Separators[n])
  IN  Level(Level(Level(Level(Level(<<t>>, 1), 2), 3), 4), 5)

\* document.text.find(piece, cursor), or the cursor when it is not found.
Find(t, piece, cursor) ==
  LET hits == {i \in cursor .. Len(t) - Len(piece) : Slice(t, i, i + Len(piece)) = piece}
  IN  IF hits = {} THEN cursor ELSE Min(hits)

\* Overlap prefixes each text with the tail of the one before.
Place(acc, i, t, raw, overlap) ==
  LET start == Find(t, raw[i], acc.cursor)
      tail == IF i > 1 THEN Suffix(raw[i - 1], overlap) ELSE <<>>
  IN  [pieces |-> Append(acc.pieces, Piece(tail \o raw[i], Max({0, start - Len(tail)}))),
       cursor |-> start + Len(raw[i])]
Recursive(t, size, overlap) ==
  LET raw == SplitText(t, size)
  IN  Finalize(FoldLeftDomain(LAMBDA acc, i : Place(acc, i, t, raw, overlap),
                              [pieces |-> <<>>, cursor |-> 0], raw).pieces)

\* _HEADING_RE.finditer: a marker at the start of a line.  The blanks after it
\* may run over line ends, so the title is the first line that is not blank.
TitleAt(t, i) == Min({j \in i + 1 .. Len(t) : t[j] \notin Blank} \union {Len(t) + 1})
TitleEnd(t, i) == Min({j \in TitleAt(t, i) .. Len(t) : t[j] = "n"} \union {Len(t) + 1})
FindHeading(acc, i, t) ==
  IF i >= acc.next /\ t[i] \in {"1", "2"} /\ (i = 1 \/ t[i - 1] = "n")
  THEN [next |-> TitleEnd(t, i),
        found |-> Append(acc.found,
                         [level |-> IF t[i] = "1" THEN 1 ELSE 2, start |-> i - 1, end |-> TitleEnd(t, i) - 1,
                          title |-> Strip(SubSeq(t, TitleAt(t, i), TitleEnd(t, i) - 1))])]
  ELSE acc
Headings(t) ==
  FoldLeftDomain(LAMBDA acc, i : FindHeading(acc, i, t), [next |-> 1, found |-> <<>>], t).found

\* The headings open after the i-th, which none since of their level or above has
\* popped from the stack; and their titles joined by ">".
Open(headings, i, k) == \A j \in k + 1 .. i : headings[j].level > headings[k].level
Path(headings, i) ==
  FlattenSeq([k \in 1 .. i |-> CASE ~Open(headings, i, k) -> <<>>
                                 [] Open(headings, i, k) /\ k < i -> Append(headings[k].title, ">")
                                 [] OTHER -> headings[k].title])

Prefix(path) == IF path = <<>> THEN <<>> ELSE Append(path, "n")

\* (heading_path, body, start): the text before the first heading, then one
\* section per heading; those with a blank body are dropped.
Section(t, hs, i) ==
  LET start == IF i = 0 THEN 0 ELSE hs[i].end
      end == IF i < Len(hs) THEN hs[i + 1].start ELSE Len(t)
  IN  [path |-> Path(hs, i), body |-> Slice(t, start, end), start |-> start]
Sections(t) ==
  LET hs == Headings(t)
      Solid(s) == IF Strip(s.body) = <<>> THEN <<>> ELSE <<s>>
  IN  FlattenSeq([i \in 1 .. Len(hs) + 1 |-> Solid(Section(t, hs, i - 1))])

SafeOverlap(size) == Max({0, Min({Overlap, size - 1, size \div 4})})

SectionPieces(s) ==
  LET prefix == Prefix(s.path)
      bodies == IF Len(s.body) + Len(prefix) <= ChunkSize THEN <<s.body>>
                ELSE SplitText(s.body, Max({1, ChunkSize - Len(prefix)}))
  IN  [i \in DOMAIN bodies |->
         Piece(prefix \o bodies[i], s.start + Len(FlattenSeq(SubSeq(bodies, 1, i - 1))))]

Markdown(t) ==
  IF Headings(t) = <<>> THEN Recursive(t, ChunkSize, SafeOverlap(ChunkSize))
  ELSE Finalize(FlattenSeq([i \in DOMAIN Sections(t) |-> SectionPieces(Sections(t)[i])]))

\* The sentences of _SENTENCE_RE: a run of full stops and the blanks after it
\* end one, if another is behind it, and so does the end of the text.
EndsSentence(t, j) ==
  LET solid == {i \in 1 .. j : t[i] \notin Blank}
  IN  \/ j = Len(t)
      \/ /\ j < Len(t) /\ solid # {} /\ t[Max(solid)] = "p"
         /\ t[j + 1] \notin Blank
         /\ Max(solid) = j => t[j + 1] # "p"
Sentence(t, ends, i) ==
  LET start == IF i = 1 THEN 0 ELSE ends[i - 1]
  IN  Piece(Slice(t, start, ends[i]), start)
Sentences(t) ==
  LET ends == FlattenSeq([j \in DOMAIN t |-> IF EndsSentence(t, j) THEN <<j>> ELSE <<>>])
      Solid(s) == IF Strip(s.text) = <<>> THEN <<>> ELSE <<s>>
  IN  FlattenSeq([i \in DOMAIN ends |-> Solid(Sentence(t, ends, i))])

\* _percentile of the distances between neighbouring sentences.
Threshold(gaps) ==
  LET n == Len(gaps)
      ordered == SortSeq(gaps, <)
  IN  ordered[Min({n - 1, (Percentile * n) \div 10}) + 1]

\* A sentence is added to the buffer, which is cut after it or goes on.
Group(acc, i, sentences, gaps) ==
  LET start == IF acc.buffer = <<>> THEN sentences[i].start ELSE acc.start
      buffer == acc.buffer \o sentences[i].text
  IN  IF (i <= Len(gaps) /\ gaps[i] >= Threshold(gaps)) \/ Len(buffer) >= ChunkSize
      THEN [out |-> Append(acc.out, Piece(buffer, start)), buffer |-> <<>>, start |-> start]
      ELSE [out |-> acc.out, buffer |-> buffer, start |-> start]
Semantic(t, gaps) ==
  LET sentences == Sentences(t)
      all == FoldLeftDomain(LAMBDA acc, i : Group(acc, i, sentences, gaps),
                            [out |-> <<>>, buffer |-> <<>>, start |-> 0], sentences)
  IN  IF Len(sentences) < 3 THEN Finalize(<<Piece(t, 0)>>)
      ELSE Finalize(IF all.buffer = <<>> THEN all.out ELSE Append(all.out, Piece(all.buffer, all.start)))

\* Whatever distances the embeddings give, of which only the order counts.
Gaps(t) == [1 .. Len(Sentences(t)) - 1 -> 0 .. 1]

ChunkingInit == text = <<>>
Type(c) == Len(text) < MaxLength /\ text' = Append(text, c)
ChunkingNext == \E c \in Characters : Type(c)

-----------------------------------------------------------------------------
\* Every chunk is the stripped text of its span, and no character that is not
\* blank is outside all spans.
Traces(chunks) ==
  /\ \A i \in DOMAIN chunks :
       chunks[i].end <= Len(text) /\ chunks[i].text = Strip(Slice(text, chunks[i].start, chunks[i].end))
  /\ \A k \in DOMAIN text : text[k] \notin Blank =>
       \E i \in DOMAIN chunks : chunks[i].start < k /\ k <= chunks[i].end

\* The Markdown chunker puts the heading path in front of every piece and adds
\* its length to the span's end: the bodies are covered in order, a span without
\* its prefix is the chunk's text, and a chunk is longer than chunk_size only
\* when its heading path alone takes all of it.
Body(p, prefix) == Slice(p.text, Len(prefix), Len(p.text))
SectionKept(s, pieces, prefix) ==
  /\ FlattenSeq([i \in DOMAIN pieces |-> Body(pieces[i], prefix)]) = s.body
  /\ \A i \in DOMAIN pieces :
       /\ Slice(text, pieces[i].start, pieces[i].start + Len(pieces[i].text) - Len(prefix)) =
            Body(pieces[i], prefix)
       /\ Len(pieces[i].text) <= Max({ChunkSize, Len(prefix) + 1})
MarkdownKeepsBodies ==
  Headings(text) # <<>> =>
  \A n \in DOMAIN Sections(text) :
    LET s == Sections(text)[n]
    IN  SectionKept(s, SectionPieces(s), Prefix(s.path))

\* "a chunk may exceed chunk_size by up to overlap" (test_rag_chunking.py:84),
\* and no window of the fixed chunker lies inside the one before it: of those that
\* do only the last is dropped, so this takes an overlap of at most half a window.
ChunksFit ==
  LET fixed == Fixed(text)
      recursive == Recursive(text, ChunkSize, Overlap)
  IN  /\ \A i \in DOMAIN fixed : Len(fixed[i].text) <= ChunkSize
      /\ \A i \in DOMAIN recursive :
           Len(recursive[i].text) <= ChunkSize + (IF i = 1 THEN 0 ELSE Overlap)
      /\ 2 * Overlap <= ChunkSize => \A i \in 2 .. Len(fixed) : fixed[i].end > fixed[i - 1].end

\* "start/end are character offsets into the parent document, which makes a
\* chunk traceable back to its exact source span" (types.py:155): the chunks of
\* the fixed, recursive and semantic chunkers are the text of their spans, those
\* of the Markdown chunker but for the prefix, together they lose nothing, and
\* they fit, whatever the text repeats and wherever it is cut.
ChunksTrace ==
  /\ Traces(Fixed(text))
  /\ Traces(Recursive(text, ChunkSize, Overlap))
  /\ \A gaps \in Gaps(text) : Traces(Semantic(text, gaps))
  /\ MarkdownKeepsBodies
  /\ ChunksFit
=============================================================================
