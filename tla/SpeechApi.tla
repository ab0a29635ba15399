----------------------------- MODULE SpeechApi ------------------------------
(***************************************************************************)
(* POST /v1/audio/speech (crates/spqx-core/src/api/routes.rs `speech`) and *)
(* the chunker in front of it (chunking.rs): a text is cut into pieces,    *)
(* each is spoken under the one mutex around the models, and the answer is *)
(* a stream of events or the whole audio.                                  *)
(*                                                                         *)
(* One request is followed; all others hold the mutex now and then.  A     *)
(* text is a sequence of bytes, because the chunker cuts by bytes: letters *)
(* "a", wide characters <<"w", "_">>, " ", "," and ".".  A piece is where  *)
(* it is in the text, and whether the chunker adds a comma to it.          *)
(***************************************************************************)
EXTENDS Integers, Sequences, FiniteSetsExt, AudioFormats

CONSTANTS Texts,           \* texts that are asked for
          FIRST_CHUNK_MAX, \* 60 in the code
          REST_CHUNK_MAX   \* 400 in the code

ASSUME SpeechAssumption ==
  /\ FIRST_CHUNK_MAX \in Nat \ {0} /\ REST_CHUNK_MAX \in Nat \ {0}
  /\ \A text \in Texts : text \in Seq(STRING)

VARIABLES request,  \* what is asked; it does not change
          pc,       \* where the handler is
          chunks,   \* the pieces
          sent,     \* for each piece done its audio, or an error
          lock,     \* the mutex: "free", "request" or "other"
          poisoned  \* somebody panicked while holding it

svars == <<request, pc, chunks, sent, lock, poisoned>>

Requests == [text : Texts, stream : BOOLEAN, clone : BOOLEAN]
-----------------------------------------------------------------------------
(* The chunker.                                                            *)

Span(from, to) == [from |-> from, to |-> to]

Trim(text, span) ==
  LET said == {i \in span.from..span.to : text[i] # " "}
  IN  IF said = {} THEN Span(span.from, span.from - 1) ELSE Span(Min(said), Max(said))

IsEmpty(span) == span.from > span.to

EnsurePunctuation(text, span) ==
  [from |-> span.from, to |-> span.to, comma |-> text[span.to] \notin {".", ","}]

\* What is no piece: the chunker panics, or there is no audio.
NoPiece == [from |-> 1, to |-> 0, comma |-> FALSE]
Panic == NoPiece
Error == NoPiece

\* Whether a character ends with a byte.
IsCharBoundary(text, end) == end >= Len(text) \/ text[end + 1] # "_"

\* Where the last of some bytes is, or the end.
LastAmong(text, from, end, bytes) ==
  LET found == {i \in from..end : text[i] \in bytes} IN IF found = {} THEN end ELSE Max(found)

FindClauseBoundary(text, from, end) ==
  IF \E i \in from..end : text[i] = "," THEN LastAmong(text, from, end, {","})
                                      ELSE LastAmong(text, from, end, {" "})
FindWordBoundary(text, from, end) == LastAmong(text, from, end, {" "})

\* A loop over the places of a span: what comes out at each, and which is next.
Loop(span, out, next) ==
  LET from[i \in span.from..span.to + 1] ==
        IF i = span.to + 1 THEN <<>> ELSE out[i] \o from[next[i]]
  IN  from[span.from]

\* A definition named Bug... is never used: put in the place of the one after it,
\* it shows which property would notice that mistake.
BugRemaining(span) == Span(span.from, span.from - 1)
Remaining(span) == span

\* The sentence that begins at a place ends with a full stop, or is what remains.
SentenceEnd(text, from, to) ==
  LET ends == {i \in from..to : text[i] = "."} IN IF ends = {} THEN to ELSE Min(ends)
Sentence(text, from, to) ==
  Trim(text, IF \E i \in from..to : text[i] = "." THEN Span(from, SentenceEnd(text, from, to))
             ELSE Remaining(Span(from, to)))

\* No sentence ends with a space, and so nothing of it that remains.
SplitLong(text, sentence, max) ==
  LET to == sentence.to
      cut(from) == FindWordBoundary(text, from, from + max - 1)
      short(from) == to <= from + max - 1
  IN  Loop(sentence,
           [from \in sentence.from..to |->
              IF short(from) THEN <<EnsurePunctuation(text, Span(from, to))>>
              ELSE IF ~IsCharBoundary(text, from + max - 1) THEN <<Panic>>
              ELSE <<EnsurePunctuation(text, Trim(text, Span(from, cut(from))))>>],
           [from \in sentence.from..to |->
              IF short(from) \/ ~IsCharBoundary(text, from + max - 1) THEN to + 1
              ELSE Trim(text, Span(cut(from) + 1, to)).from])

ChunkBySentences(text, span, max) ==
  LET to == span.to
  IN  Loop(span,
           [from \in span.from..to |->
              IF IsEmpty(Sentence(text, from, to)) THEN <<>>
              ELSE SplitLong(text, Sentence(text, from, to), max)],
           [from \in span.from..to |-> SentenceEnd(text, from, to) + 1])

ChunkText(text, firstMax, restMax) ==
  LET all == Trim(text, Span(1, Len(text)))
      end == all.from + firstMax - 1
      cut == FindClauseBoundary(text, all.from, end)
      rest == Trim(text, Span(cut + 1, all.to))
  IN  IF IsEmpty(all) THEN <<>>
      ELSE IF all.to <= end THEN <<EnsurePunctuation(text, all)>>
      ELSE IF ~IsCharBoundary(text, end) THEN <<Panic>>
      ELSE <<EnsurePunctuation(text, Trim(text, Span(all.from, cut)))>>
           \o (IF IsEmpty(rest) THEN <<>> ELSE ChunkBySentences(text, rest, restMax))

FirstMax == IF request.stream THEN FIRST_CHUNK_MAX ELSE REST_CHUNK_MAX
Chunks == ChunkText(request.text, FirstMax, REST_CHUNK_MAX)
-----------------------------------------------------------------------------
(* The request.                                                            *)

ApiInit == /\ request \in Requests
           /\ pc = "asked" /\ chunks = <<>> /\ sent = <<>>
           /\ lock = "free" /\ poisoned = FALSE

\* A panic of the handler itself closes the connection without an answer; one in
\* a blocking task is answered as an error.
ChunkInput ==
  /\ pc = "asked"
  /\ \/ /\ Panic \in {Chunks[i] : i \in DOMAIN Chunks}
        /\ pc' = IF request.stream THEN "dropped" ELSE "refused"
        /\ UNCHANGED chunks
     \/ Chunks = <<>> /\ request.stream /\ pc' = "refused" /\ UNCHANGED chunks
     \/ /\ Panic \notin {Chunks[i] : i \in DOMAIN Chunks}
        /\ Chunks = <<>> => ~request.stream
        /\ chunks' = Chunks
        /\ pc' = IF request.stream /\ request.clone THEN "clone" ELSE "wait"
  /\ UNCHANGED <<request, sent, lock, poisoned>>

\* A streaming request encodes its reference before anything is answered.
PrepareCloneData ==
  /\ pc = "clone" /\ lock = "free"
  /\ \/ ~poisoned /\ pc' = "wait" /\ UNCHANGED poisoned
     \/ pc' = "refused" /\ UNCHANGED poisoned
     \/ ~poisoned /\ pc' = "dropped" /\ poisoned' = TRUE
  /\ UNCHANGED <<request, chunks, sent, lock>>

\* The next event of a stream, and "done" behind the last; a whole answer ends
\* with its first error.
Report(event) ==
  /\ sent' = Append(sent, event)
  /\ lock' = IF request.stream \/ event = Error \/ Len(sent') = Len(chunks) THEN "free" ELSE lock
  /\ pc' = IF event = Error /\ ~request.stream THEN "refused"
           ELSE IF Len(sent') = Len(chunks) THEN "done"
           ELSE IF request.stream THEN "wait" ELSE pc

Lock ==
  /\ pc = "wait" /\ lock = "free"
  /\ IF poisoned THEN Report(Error)
     ELSE IF chunks = <<>> THEN pc' = "done" /\ UNCHANGED <<sent, lock>>
     ELSE lock' = "request" /\ pc' = "speak" /\ UNCHANGED sent
  /\ UNCHANGED <<request, chunks, poisoned>>

Speak ==
  /\ pc = "speak"
  /\ \/ Report(chunks[Len(sent) + 1]) /\ UNCHANGED poisoned
     \/ Report(Error) /\ poisoned' \in {poisoned, TRUE}
  /\ UNCHANGED <<request, chunks>>

\* The client goes away; what is being spoken for it goes on.
Leave ==
  /\ pc \in {"wait", "speak"}
  /\ pc' = "left"
  /\ lock' = IF lock = "request" THEN "other" ELSE lock
  /\ UNCHANGED <<request, chunks, sent, poisoned>>

OtherLocks ==
  /\ lock = "free" /\ ~poisoned
  /\ lock' = "other"
  /\ UNCHANGED <<request, pc, chunks, sent, poisoned>>

OtherUnlocks ==
  /\ lock = "other"
  /\ lock' = "free" /\ poisoned' \in {poisoned, TRUE}
  /\ UNCHANGED <<request, pc, chunks, sent>>

Idle == pc \in {"done", "refused", "dropped", "left"} /\ UNCHANGED svars

ApiNext == \/ ChunkInput \/ PrepareCloneData \/ Lock \/ Speak \/ Leave
           \/ OtherLocks \/ OtherUnlocks \/ Idle

ApiSpec == ApiInit /\ [][ApiNext]_svars
-----------------------------------------------------------------------------
\* Each byte that is no space is in a piece, and none in two; the pieces are in order.
Says(pieces, text) ==
  /\ \A k \in DOMAIN pieces :
       1 <= pieces[k].from /\ pieces[k].from <= pieces[k].to /\ pieces[k].to <= Len(text)
  /\ \A j, k \in DOMAIN pieces : j < k => pieces[j].to < pieces[k].from
  /\ \A i \in DOMAIN text :
       text[i] # " " => \E k \in DOMAIN pieces : pieces[k].from <= i /\ i <= pieces[k].to

\* An answer that ends as done without an error in it says the whole text, in order
\* and once, whatever is cut where, and no piece is longer than its limit (the comma
\* that was added aside): a longer one would be cut off by the engine.  Neither the
\* speed nor the format loses any of its sound.
NothingUnsaid ==
  /\ pc = "done" /\ Error \notin {sent[i] : i \in DOMAIN sent} => Says(sent, request.text)
  /\ \A i \in DOMAIN chunks :
       chunks[i].to - chunks[i].from + 1 <= (IF i = 1 THEN FirstMax ELSE REST_CHUNK_MAX)
  /\ pc = "asked" => SoundIsKept
=============================================================================
