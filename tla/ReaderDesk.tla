----------------------------- MODULE ReaderDesk -----------------------------
(***************************************************************************)
(* What a reader keeps about a video: the state of reading, an annotation  *)
(* and the generated chapters.  Every request reads its row, decides, and  *)
(* writes the columns it changed, without a lock; pages that are open      *)
(* twice make such requests overlap, and the pipeline may transcribe the   *)
(* video again at any time.                                                *)
(***************************************************************************)
EXTENDS Integers, FiniteSets, Sequences, SequencesExt, FiniteSetsExt

CONSTANTS
    Clients,         \* requests at a time
    BlocksOf,        \* the blocks of each transcript there can be: the start, in thirds of a
                     \* second, and the characters
    Snapshots,       \* texts that a user may select, stripped, as characters
    Casefold,        \* what str.casefold makes of each character: one or more
    Lowercase,       \* and str.lower
    MaxNewer,        \* bound: transcripts that follow the first
    MaxRequests      \* bound: requests

ASSUME DeskAssumption ==
    /\ 1 \in DOMAIN BlocksOf
    /\ \A v \in DOMAIN BlocksOf :
          /\ BlocksOf[v] # <<>> /\ DOMAIN BlocksOf[v] = 1 .. Len(BlocksOf[v])
          /\ Len(BlocksOf[v]) \in Nat
          /\ \A i \in DOMAIN BlocksOf[v] : BlocksOf[v][i].words \in Seq(DOMAIN Casefold)
    /\ \A text \in Snapshots : text \in Seq(DOMAIN Casefold)
    /\ DOMAIN Lowercase = DOMAIN Casefold
    /\ \A c \in DOMAIN Casefold :
          {Casefold[c], Lowercase[c]} \subseteq Seq(DOMAIN Casefold)
    /\ \A c, d \in DOMAIN Casefold : Lowercase[c] = Lowercase[d] => Casefold[c] = Casefold[d]
    /\ {MaxNewer, MaxRequests} \subseteq Nat

Versions == DOMAIN BlocksOf
Statuses == {"unread", "reading", "later", "finished", "archived"}

VARIABLES
    transcript,  \* the one that is stored
    later,       \* how many transcripts followed
    desk,        \* reader_states: the row of the local reader
    mark,        \* reader_annotations: one of them
    chapterSet,  \* reader_chapter_sets
    client,      \* the requests
    asked,       \* how many there were
    torn         \* history: rows that were written over a version nobody read

deskVars == <<transcript, later, desk, mark, chapterSet, client, asked, torn>>

NotSent == -1   \* a number that the request leaves out

NoDesk == [status |-> "none", progress |-> 0, started |-> FALSE, finished |-> FALSE]
NewDesk == [NoDesk EXCEPT !.status = "unread"]
NoMark == [type |-> "none", block |-> [start |-> 0, words |-> <<>>], from |-> 0, to |-> 0,
           snapshot |-> <<>>, note |-> FALSE, checked |-> FALSE]
Deleted == [NoMark EXCEPT !.type = "deleted"]   \* its id is never used again
NoChapters == [exists |-> FALSE, fingerprint |-> 1, anchors |-> {}]
NoRequest == [phase |-> "idle", version |-> 1, desk |-> NoDesk, mark |-> NoMark]

\* A text is converted character by character. Of one that keeps its length it is said without
\* the concatenation.
KeepsLength(text, table) == \A i \in DOMAIN text : Len(table[text[i]]) = 1

Converted(text, table) ==
    IF KeepsLength(text, table) THEN [i \in DOMAIN text |-> table[text[i]][1]]
    ELSE FlattenSeq([i \in DOMAIN text |-> table[text[i]]])

Rounded(start) == (start + 1) \div 3

\* An anchor is made from the second and the lower-case text of the block.
Anchor(block) == [second |-> Rounded(block.start), text |-> Converted(block.words, Lowercase)]

BlocksIn(v) == ToSet(BlocksOf[v])
Anchors(v) == {Anchor(block) : block \in BlocksIn(v)}

-----------------------------------------------------------------------------
\* Columns that a session changed, over what the row is now.
Merged(row, loaded, new) ==
    [f \in DOMAIN row |-> IF new[f] = loaded[f] THEN row[f] ELSE new[f]]

BeginRequest(c, phase) ==
    /\ client[c].phase = "idle" /\ asked < MaxRequests
    /\ asked' = asked + 1
    /\ client' = [client EXCEPT ![c] = [phase |-> phase, version |-> transcript,
                                        desk |-> desk, mark |-> mark]]
    /\ UNCHANGED <<transcript, later, desk, mark, chapterSet, torn>>

EndsRequest(c) == client' = [client EXCEPT ![c] = NoRequest]

-----------------------------------------------------------------------------
(***************************************************************************)
(* apply_reader_state_update.                                              *)
(***************************************************************************)
AllowedFrom(from) ==
    CASE from = "unread"   -> Statuses
      [] from = "reading"  -> {"reading", "later", "finished", "archived"}
      [] from = "later"    -> {"later", "reading", "finished", "archived"}
      [] from = "finished" -> {"finished", "reading", "archived"}
      [] from = "archived" -> {"archived", "reading", "later"}

Updated(row, status, progress) ==
    LET target == IF status = "same" THEN row.status ELSE status
        new == [row EXCEPT !.status = target, !.progress = IF progress = NotSent THEN @ ELSE progress] IN
    CASE target = "finished" -> [new EXCEPT !.progress = 100, !.finished = TRUE, !.started = TRUE]
      [] target = "reading" -> [new EXCEPT !.started = TRUE, !.finished = FALSE]
      [] OTHER -> new

\* The commit; of two requests that found no row, the second fails on the unique index.
WriteDesk(c, new) ==
    LET loaded == client[c].desk IN
    IF loaded = NoDesk /\ desk # NoDesk THEN UNCHANGED <<desk, torn>>
    ELSE /\ desk' = IF loaded = NoDesk THEN new ELSE Merged(desk, loaded, new)
         /\ torn' = IF desk # loaded /\ new # loaded THEN torn \cup {"desk"} ELSE torn

OpenedDesk(row) == IF row = NoDesk THEN NewDesk ELSE row

\* get_reader_document and the page of the document.
OpenDocument(c) ==
    /\ client[c].phase = "desk"
    /\ WriteDesk(c, OpenedDesk(client[c].desk))
    /\ EndsRequest(c)
    /\ UNCHANGED <<transcript, later, mark, chapterSet, asked>>

\* 409 for a transition that is not allowed: nothing is written.
PatchState(c, status, progress) ==
    LET row == OpenedDesk(client[c].desk) IN
    /\ client[c].phase = "desk"
    /\ IF (IF status = "same" THEN row.status ELSE status) \in AllowedFrom(row.status)
       THEN WriteDesk(c, Updated(row, status, progress))
       ELSE UNCHANGED <<desk, torn>>
    /\ EndsRequest(c)
    /\ UNCHANGED <<transcript, later, mark, chapterSet, asked>>

-----------------------------------------------------------------------------
(***************************************************************************)
(* Annotations.                                                            *)
(***************************************************************************)
Selected(block, from, to) == SubSeq(block.words, from + 1, to)

\* Mutant: the selection is not compared with the text at the offsets.
InRangeOnly(type, block, from, to, snapshot) == from <= to /\ to <= Len(block.words)

Acceptable(type, block, from, to, snapshot) ==
    /\ from <= to /\ to <= Len(block.words)
    /\ type \in {"highlight", "note"} =>
          snapshot # <<>> /\ Selected(block, from, to) = snapshot

\* create_annotation: checked against the transcript that the request read.
Annotate(c, type, block, from, to, snapshot) ==
    /\ client[c].phase = "mark" /\ mark = NoMark
    /\ block \in BlocksIn(client[c].version)
    /\ Acceptable(type, block, from, to, snapshot)
    /\ mark' = [type |-> type, block |-> block, from |-> from, to |-> to, snapshot |-> snapshot,
                note |-> type = "note", checked |-> type # "bookmark"]
    /\ EndsRequest(c)
    /\ UNCHANGED <<transcript, later, desk, chapterSet, asked, torn>>

Patchable(type, note, snapshot) ==
    /\ type \in {"highlight", "note"} => snapshot # <<>>
    /\ type = "note" => note

\* update_annotation: the type, the text of the note or both; another may have deleted it.
PatchMark(c, type, note) ==
    LET loaded == client[c].mark
        new == [loaded EXCEPT !.type = IF type = "same" THEN @ ELSE type,
                              !.note = IF note = "same" THEN @ ELSE note = "some"] IN
    /\ client[c].phase = "mark" /\ loaded \notin {NoMark, Deleted}
    /\ IF Patchable(new.type, new.note, new.snapshot) /\ mark # Deleted
       THEN /\ mark' = Merged(mark, loaded, new)
            /\ torn' = IF mark # loaded THEN torn \cup {"mark"} ELSE torn
       ELSE UNCHANGED <<mark, torn>>
    /\ EndsRequest(c)
    /\ UNCHANGED <<transcript, later, desk, chapterSet, asked>>

DeleteMark(c) ==
    /\ client[c].phase = "mark" /\ client[c].mark \notin {NoMark, Deleted}
    /\ mark' = Deleted
    /\ torn' = torn \ {"mark"}
    /\ EndsRequest(c)
    /\ UNCHANGED <<transcript, later, desk, chapterSet, asked>>

\* Where a text has the other, or -1.
Find(words, snapshot) ==
    LET at == {i \in 0 .. Len(words) - Len(snapshot) :
                  SubSeq(words, i + 1, i + Len(snapshot)) = snapshot}
    IN  IF at = {} THEN -1 ELSE Min(at)

\* Mutant: the old offsets are kept with the new block.
FoundAtOldOffsets(m, block) == [block |-> block, from |-> m.from, to |-> m.to]

Place(m, block) == Find(Converted(block.words, Casefold), Converted(m.snapshot, Casefold))

\* The place in the folded text, and the length of the text that was not folded.
FoundIn(m, block) ==
    LET at == Place(m, block)
    IN  [block |-> block, from |-> at, to |-> at + Len(m.snapshot)]

Nearest(blocks, start) ==
    CHOOSE i \in DOMAIN blocks : \A j \in DOMAIN blocks :
        LET d(k) == Max({blocks[k].start - start, start - blocks[k].start})
        IN  d(i) < d(j) \/ (d(i) = d(j) /\ i <= j)

\* reconcile_annotation, for the transcript that is stored.
Reconciled(m) ==
    LET blocks == BlocksOf[transcript]
        same == {i \in DOMAIN blocks : Anchor(blocks[i]) = Anchor(m.block)}
        with == {i \in DOMAIN blocks : Place(m, blocks[i]) >= 0} IN
    IF same # {} THEN [block |-> blocks[Min(same)], from |-> m.from, to |-> m.to]
    ELSE IF m.snapshot # <<>> /\ with # {} THEN FoundIn(m, blocks[Min(with)])
    ELSE [block |-> blocks[Nearest(blocks, m.block.start)], from |-> 0, to |-> 0]

-----------------------------------------------------------------------------
Fingerprint(c) == client[c].version

\* generate_chapters, when the model has answered or failed: the chapters are those of the
\* transcript that was loaded, whatever it is now.
WriteChapters(c) ==
    /\ client[c].phase = "chapters"
    /\ chapterSet' = [exists |-> TRUE, fingerprint |-> Fingerprint(c),
                      anchors |-> Anchors(client[c].version)]
    /\ EndsRequest(c)
    /\ UNCHANGED <<transcript, later, desk, mark, asked, torn>>

\* get_chapters: the stored ones while they are of this transcript, else regular ones.
ShownChapters ==
    IF chapterSet.exists /\ chapterSet.fingerprint = transcript THEN chapterSet.anchors
    ELSE Anchors(transcript)

\* The pipeline stores another transcript.
StoreTranscript(v) ==
    /\ later < MaxNewer /\ v # transcript
    /\ transcript' = v
    /\ later' = later + 1
    /\ UNCHANGED <<desk, mark, chapterSet, client, asked, torn>>

Rejected(c) ==
    /\ client[c].phase # "idle"
    /\ EndsRequest(c)
    /\ UNCHANGED <<transcript, later, desk, mark, chapterSet, asked, torn>>

-----------------------------------------------------------------------------
DeskInit ==
    /\ transcript = 1 /\ later = 0
    /\ desk = NoDesk /\ mark = NoMark /\ chapterSet = NoChapters
    /\ client = [c \in Clients |-> NoRequest]
    /\ asked = 0 /\ torn = {}

Requests(c) ==
    \/ \E phase \in {"desk", "mark", "chapters"} : BeginRequest(c, phase)
    \/ OpenDocument(c)
    \/ \E status \in Statuses \cup {"same"}, progress \in {NotSent, 50} : PatchState(c, status, progress)
    \/ \E type \in {"highlight", "note", "bookmark"}, from \in 0 .. 1, size \in 0 .. 2,
          snapshot \in Snapshots, block \in BlocksIn(client[c].version) :
          Annotate(c, type, block, from, from + size, snapshot)
    \/ \E type \in {"same", "highlight", "note", "bookmark"}, note \in {"same", "some", "empty"} :
          PatchMark(c, type, note)
    \/ DeleteMark(c) \/ WriteChapters(c) \/ Rejected(c)

\* Bound of the checks: the requests of a behaviour are about one of the three rows, which
\* have nothing in common.
OneRow ==
    LET Asks(phase) == \E c \in Clients : client'[c].phase = phase
    IN  Cardinality({b \in {"desk", "mark", "chapters"} :
            \/ Asks(b)
            \/ b = "desk" /\ desk' # NoDesk
            \/ b = "mark" /\ mark' # NoMark
            \/ b = "chapters" /\ chapterSet' # NoChapters}) <= 1

DeskNext == (\E c \in Clients : Requests(c)) \/ (\E v \in Versions : StoreTranscript(v))

DeskSpec == DeskInit /\ [][DeskNext]_deskVars

-----------------------------------------------------------------------------
\* What was finished counts as read to its end, and what is being read again is not
\* finished, after any sequence of requests that did not overlap (apply_reader_state_update).
FinishedIsComplete ==
    "desk" \notin torn =>
        /\ desk.status = "finished" => desk.progress = 100 /\ desk.started /\ desk.finished
        /\ desk.status = "reading" => desk.started /\ ~desk.finished

\* What a list of annotations marks in the text is, up to upper and lower case, what the user
\* had selected, also after the video was transcribed again (create_annotation,
\* reconcile_annotation). The exceptions: a block with a character whose conversion is longer
\* than the character, as of the German sharp s, where the offsets of the converted text mark
\* another place; and a bookmark that was made a highlight later, which nothing compared.
HighlightShowsItsText ==
    mark.checked => LET view == Reconciled(mark) IN
        /\ view.to > view.from
        /\ \A block \in {mark.block, view.block}, table \in {Casefold, Lowercase} :
              KeepsLength(block.words, table)
        => Converted(Selected(view.block, view.from, view.to), Casefold)
              = Converted(mark.snapshot, Casefold)

\* A note has a text and a highlight its passage, unless two updates overlapped.
NoteHasText ==
    /\ mark.type = "note" /\ "mark" \notin torn => mark.note
    /\ mark.type \in {"highlight", "note"} => mark.snapshot # <<>>

\* Chapters lead to places of the transcript that is shown, although the model may answer
\* after it was replaced (generate_chapters, get_chapters).
ChaptersFit == ShownChapters \subseteq Anchors(transcript)

\* The rows of a reader agree with themselves and with the transcript that is shown, although
\* requests overlap and the video is transcribed again.
DeskAgrees ==
    /\ FinishedIsComplete /\ NoteHasText
    /\ HighlightShowsItsText /\ ChaptersFit
=============================================================================
