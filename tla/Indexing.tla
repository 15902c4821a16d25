------------------------------- MODULE Indexing -------------------------------
(* From an uploaded file to its vectors: the checks of an upload               *)
(* (documents/validation.py), extraction (documents/extraction.py and the      *)
(* extractors), chunking (documents/chunking.py), embedding in batches         *)
(* (embeddings/providers/ollama.py) and the exchange of the stored chunks, as  *)
(* jobs/document_ingestion.py calls them; attempts may fail, be cancelled, and *)
(* be repeated with other settings.                                            *)
(*                                                                             *)
(* A text is a sequence of characters; 0 is white space, any other number is   *)
(* the place of the character in the document.  The rows of the job and of the *)
(* versions are in DocumentJobs and KnowledgeVersions.                         *)
EXTENDS Naturals, Sequences, FiniteSetsExt, Functions

CONSTANTS
  Uploads,      \* [extension, declared, holds, blocks]: what a client may send
  Settings,     \* [size, overlap, min, chunks, text, batch, input]
  MaxAttempts   \* bound on executions of the job

VARIABLES
  pc,
  file,         \* the stored file, with its canonical type
  settings,     \* those of the attempt
  segments,     \* of the extraction
  chunks,       \* text_chunks
  vectors,      \* embeddings
  legacy,       \* whether the batch at hand goes to the endpoint for one text
  index,        \* the committed chunks of the document, and the settings they were made with
  attempts

vars == <<pc, file, settings, segments, chunks, vectors, legacy, index, attempts>>

\* The characters of a text, or of several; white space is none.
Characters(text) == Range(text) \ {0}
AllOf(texts) == UNION {Characters(texts[i]) : i \in DOMAIN texts}

Before(S, T) == \A x \in S, y \in T : x < y

\* What a document may hold: blocks, with the characters in their order.
Contents ==
  {blocks \in Seq(Seq(Nat)) :
     /\ \A i \in DOMAIN blocks : \A j, k \in DOMAIN blocks[i] :
          j < k /\ blocks[i][j] # 0 /\ blocks[i][k] # 0 => blocks[i][j] < blocks[i][k]
     /\ \A i, j \in DOMAIN blocks : i < j => Before(Characters(blocks[i]), Characters(blocks[j]))}

IndexConstants ==
  /\ \A u \in Uploads : u.blocks \in Contents
  /\ \A s \in Settings :
       /\ s \in [size : Nat \ {0}, overlap : Nat, min : Nat \ {0}, chunks : Nat, text : Nat, batch : Nat \ {0},
                 input : Nat]
       /\ s.overlap < s.size
  /\ MaxAttempts \in Nat

NoFile == [type |-> "none", holds |-> "none", blocks |-> <<>>]
NoIndex == [rows |-> <<>>, settings |-> [size |-> 0]]

Init ==
  /\ pc = "idle" /\ file = NoFile /\ settings = [size |-> 0]
  /\ segments = <<>> /\ chunks = <<>> /\ vectors = <<>> /\ legacy = FALSE
  /\ index = NoIndex /\ attempts = 0

-----------------------------------------------------------------------------
(* documents/validation.py                                                    *)

MediaTypes ==
  [txt  |-> {"text/plain", "application/octet-stream"},
   md   |-> {"text/markdown", "text/x-markdown", "text/plain", "application/octet-stream"},
   pdf  |-> {"application/pdf", "application/octet-stream"},
   docx |-> {"docx", "application/octet-stream", "application/zip"}]

Canonical == [txt |-> "text/plain", md |-> "text/markdown", pdf |-> "application/pdf", docx |-> "docx"]

\* The first bytes: %PDF, PK, or for the text formats no NUL.
Sniffed(extension, holds) ==
  CASE extension = "pdf"  -> holds = "pdf"
    [] extension = "docx" -> holds \in {"docx", "archive"}
    [] OTHER              -> holds # "binary"

Valid(u) ==
  /\ u.extension \in DOMAIN MediaTypes
  /\ u.declared \in MediaTypes[u.extension] \cup {"", "*/*"}
  /\ Sniffed(u.extension, u.holds)

Upload(u) ==
  /\ pc = "idle"
  /\ IF Valid(u)
     THEN pc' = "stored" /\ file' = [type |-> Canonical[u.extension], holds |-> u.holds, blocks |-> u.blocks]
     ELSE pc' = "refused" /\ UNCHANGED file
  /\ UNCHANGED <<settings, segments, chunks, vectors, legacy, index, attempts>>

-----------------------------------------------------------------------------
(* Extraction                                                                 *)

Blank(s) == \A i \in DOMAIN s : s[i] = 0

Strip(s) ==
  IF Blank(s) THEN <<>>
  ELSE LET inked == {i \in DOMAIN s : s[i] # 0} IN SubSeq(s, Min(inked), Max(inked))

Join(text, part) == IF text = <<>> THEN part ELSE text \o <<0, 0>> \o part

Joined(parts) ==
  LET text[i \in 0..Len(parts)] == IF i = 0 THEN <<>> ELSE Join(text[i - 1], parts[i])
  IN text[Len(parts)]

Stripped(blocks) ==
  LET kept[i \in 0..Len(blocks)] ==
        IF i = 0 THEN <<>>
        ELSE IF Blank(blocks[i]) THEN kept[i - 1] ELSE Append(kept[i - 1], Strip(blocks[i]))
  IN kept[Len(blocks)]

\* A text file is one segment, the others have one for each paragraph, page or block.
Segments(f) ==
  LET parts == Stripped(f.blocks)
  IN IF f.type = "text/plain" /\ parts # <<>> THEN <<Joined(parts)>> ELSE parts

\* A file that does not hold what its name says, or cannot be decoded.
Readable(f) ==
  CASE f.type = "application/pdf" -> f.holds = "pdf"
    [] f.type = "docx"            -> f.holds = "docx"
    [] OTHER                      -> f.holds = "text"

\* The job starts over with every attempt; the index that is there stays until the end.
Begin(s) ==
  /\ pc \in {"stored", "indexed", "failed", "cancelled"} /\ attempts < MaxAttempts
  /\ pc' = "extract" /\ settings' = s /\ attempts' = attempts + 1
  /\ segments' = <<>> /\ chunks' = <<>> /\ vectors' = <<>> /\ legacy' = FALSE
  /\ UNCHANGED <<file, index>>

Extract ==
  /\ pc = "extract"
  /\ segments' = IF Readable(file) THEN Segments(file) ELSE <<>>
  /\ pc' = IF segments' = <<>> \/ Len(Joined(segments')) > settings.text THEN "failed" ELSE "chunk"
  /\ UNCHANGED <<file, settings, chunks, vectors, legacy, index, attempts>>

-----------------------------------------------------------------------------
(* documents/chunking.py                                                      *)

\* Mutant: the next piece starts after the overlap, not with it.
NextStartAfter(start, end) == Max({end + settings.overlap + 1, start + 1})

NextStart(start, end) == Max({end - settings.overlap + 1, start + 1})

\* A round of the loop in _split_oversized; the start goes behind the end with the last piece.
Split(paragraph, split) ==
  LET end   == Min({split.start + settings.size - 1, Len(paragraph)})
      piece == Strip(SubSeq(paragraph, split.start, end))
  IN IF split.start > Len(paragraph) THEN split
     ELSE [pieces |-> IF piece = <<>> THEN split.pieces ELSE Append(split.pieces, piece),
           start  |-> IF end = Len(paragraph) THEN end + 1 ELSE NextStart(split.start, end)]

\* Every round starts further on.
Pieces(paragraph) ==
  LET split[i \in 0..Len(paragraph)] ==
        IF i = 0 THEN [pieces |-> <<>>, start |-> 1] ELSE Split(paragraph, split[i - 1])
  IN split[Len(paragraph)].pieces

Flushed(gathered) == IF gathered.buffer = <<>> THEN gathered.raw ELSE Append(gathered.raw, gathered.buffer)

\* Paragraphs are joined as long as they fit, and split when one alone does not.
Gather(gathered, paragraph) ==
  LET candidate == Join(gathered.buffer, paragraph) IN
  IF Len(paragraph) > settings.size
  THEN [raw |-> Flushed(gathered) \o Pieces(paragraph), buffer |-> <<>>]
  ELSE IF Len(candidate) <= settings.size THEN [gathered EXCEPT !.buffer = candidate]
  ELSE [raw |-> Flushed(gathered), buffer |-> paragraph]

RawChunks(paragraphs) ==
  LET gathered[i \in 0..Len(paragraphs)] ==
        IF i = 0 THEN [raw |-> <<>>, buffer |-> <<>>] ELSE Gather(gathered[i - 1], paragraphs[i])
  IN Flushed(gathered[Len(paragraphs)])

Suffix(s) == SubSeq(s, Max({Len(s) - settings.overlap, 0}) + 1, Len(s))

\* The end of the chunk before, unless that makes this one too long.
Merged(previous, content) ==
  LET merged == Strip(Suffix(previous) \o <<0>> \o content)
  IN IF previous = <<>> \/ settings.overlap = 0 \/ Len(merged) > settings.size + settings.overlap
     THEN content ELSE merged

\* What is still too short is left out.
Keep(kept, content) ==
  LET merged == Merged(IF kept = <<>> THEN <<>> ELSE kept[Len(kept)], content)
  IN IF Len(merged) < settings.min THEN kept ELSE Append(kept, merged)

Overlapped(raw) ==
  LET kept[i \in 0..Len(raw)] == IF i = 0 THEN <<>> ELSE Keep(kept[i - 1], raw[i])
  IN kept[Len(raw)]

Chunk ==
  /\ pc = "chunk"
  /\ chunks' = Overlapped(RawChunks(segments))
  /\ pc' = IF Len(chunks') \in 1..settings.chunks THEN "embed" ELSE "failed"
  /\ UNCHANGED <<file, settings, segments, vectors, legacy, index, attempts>>

-----------------------------------------------------------------------------
(* Embedding                                                                  *)

\* Texts are cut to what the model takes.
Input(text) == SubSeq(text, 1, Min({Len(text), settings.input}))

\* A vector stands for the text it is computed from. A batch goes on where the one before ended.
BatchEnd == Min({Len(vectors) + settings.batch, Len(chunks)})

EmbedBatch ==
  /\ pc = "embed" /\ ~legacy /\ Len(vectors) < Len(chunks)
  /\ vectors' = [i \in 1..BatchEnd |-> IF i <= Len(vectors) THEN vectors[i] ELSE Input(chunks[i])]
  /\ UNCHANGED <<pc, file, settings, segments, chunks, legacy, index, attempts>>

\* Another number of vectors, an empty or malformed one, or no such endpoint: the batch is
\* sent again, text by text.
FallBack ==
  /\ pc = "embed" /\ ~legacy /\ Len(vectors) < Len(chunks)
  /\ legacy' = TRUE
  /\ UNCHANGED <<pc, file, settings, segments, chunks, vectors, index, attempts>>

EmbedOne ==
  /\ pc = "embed" /\ legacy
  /\ vectors' = Append(vectors, Input(chunks[Len(vectors) + 1]))
  /\ legacy' = (Len(vectors') % settings.batch # 0 /\ Len(vectors') < Len(chunks))
  /\ UNCHANGED <<pc, file, settings, segments, chunks, index, attempts>>

\* The provider is not there, too slow, without the model, or of another dimension; numbers
\* that are not finite are found at the end.
EmbeddingFails ==
  /\ pc = "embed"
  /\ pc' = "failed"
  /\ UNCHANGED <<file, settings, segments, chunks, vectors, legacy, index, attempts>>

\* Seen at a progress boundary.
Cancelled ==
  /\ pc \in {"extract", "chunk", "embed"} /\ ~legacy
  /\ pc' = "cancelled"
  /\ UNCHANGED <<file, settings, segments, chunks, vectors, legacy, index, attempts>>

\* One transaction deletes the chunks of the document and inserts the new ones.
Finalize ==
  /\ pc = "embed" /\ ~legacy /\ Len(vectors) = Len(chunks)
  /\ index' = [rows |-> [i \in DOMAIN chunks |-> [content |-> chunks[i], vector |-> vectors[i]]],
               settings |-> settings]
  /\ pc' = "indexed"
  /\ UNCHANGED <<file, settings, segments, chunks, vectors, legacy, attempts>>

Next ==
  \/ \E u \in Uploads : Upload(u)
  \/ \E s \in Settings : Begin(s)
  \/ Extract \/ Chunk \/ EmbedBatch \/ FallBack \/ EmbedOne \/ EmbeddingFails \/ Cancelled \/ Finalize

Spec == Init /\ [][Next]_vars

-----------------------------------------------------------------------------
(* Properties                                                                 *)

\* A turn of the job is as far as its data says.
TypeOK ==
  /\ pc \in {"idle", "refused", "stored", "extract", "chunk", "embed", "indexed", "failed", "cancelled"}
  /\ attempts \in 0..MaxAttempts
  /\ Len(vectors) <= Len(chunks)
  /\ legacy => pc \in {"embed", "failed"}

\* Of a text: white space comes in runs of at most n.
GapsWithin(text, n) ==
  \A i \in DOMAIN text : i + n \in DOMAIN text => \E j \in i..(i + n) : text[j] # 0

\* The overlap brings each chunk after the first to the least length, whatever white space it starts with.
Regular(with, blocks) ==
  /\ with.min <= with.overlap /\ with.overlap + 2 <= with.size
  /\ \A i \in DOMAIN blocks : GapsWithin(Strip(blocks[i]), with.overlap + 2 - with.min)

\* An index, once it is there, is whole and of one attempt. Each chunk, no longer than size and
\* overlap, has the vector of its own text; together, in the order of the document, they hold
\* every character that is not white space. If the text is regular, only leading blocks shorter
\* than the smallest chunk are left out.
IndexCoversDocument ==
  /\ TypeOK
  /\ index # NoIndex =>
       LET rows    == index.rows
           texts   == [i \in DOMAIN rows |-> rows[i].content]
           covered == AllOf(texts)
           lost    == AllOf(file.blocks) \ covered
           with    == index.settings
       IN /\ \A i \in DOMAIN rows :
               /\ rows[i].vector = SubSeq(rows[i].content, 1, Min({Len(rows[i].content), with.input}))
               /\ Len(rows[i].content) <= with.size + with.overlap
               /\ i > 1 => Max(Range(texts[i - 1])) <= Max(Range(texts[i]))
          /\ Regular(with, file.blocks) =>
               /\ Before(lost, covered)
               /\ lost # {} => \E i \in DOMAIN file.blocks :
                                 Max(lost) \in Range(file.blocks[i]) /\ Len(Strip(file.blocks[i])) < with.min
=============================================================================
