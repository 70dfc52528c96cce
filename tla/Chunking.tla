------------------------------ MODULE Chunking ------------------------------
(***************************************************************************)
(* How an uploaded document becomes chunks: chunk_uploaded_document and    *)
(* what it calls, one step per turn of their loops.                        *)
(*                                                                         *)
(* Text is a sequence of characters, of which only two things are told     *)
(* apart: white space, and the stops that end a sentence.  The bytes, the  *)
(* two parsing libraries and the wording of labels are left out; a file    *)
(* they cannot parse fails as a whole (module Uploads).                    *)
(***************************************************************************)
EXTENDS Naturals, Sequences

CONSTANTS
    Target,     \* CHUNK_TARGET_SIZE_CHARS
    MaxSafe,    \* MAX_SAFE_CHUNK_TEXT_CHARS
    Chars,
    White,
    Stops,      \* . ! ?
    Documents   \* bound: what may be uploaded

Text == Seq(Chars)

\* A line of a PDF or TXT file, or a paragraph of a DOCX file, which may have a
\* heading style.  The pages of a PDF are joined before they are looked at, so
\* that a page without text is a blank line and a page break is nothing.
Line == [text: Text, heading: BOOLEAN]

Document == [kind: {"pdf", "txt", "docx"}, lines: Seq(Line)]

ASSUME SizesAssumption == Target \in Nat /\ MaxSafe \in Nat /\ 2 < Target /\ Target < MaxSafe
ASSUME CharsAssumption == White \in Chars /\ Stops \subseteq Chars \ {White}
ASSUME DocumentsAssumption == Documents \subseteq Document

VARIABLES
    doc,
    phase,      \* the loop that runs
    read,       \* lines read
    sections,   \* the last one is open while reading
    section,    \* the section that is grouped and split
    taken,      \* paragraphs of it that are in a group
    groups,     \* its groups: the text, the first and last paragraph; the last one is open while grouping
    group,      \* the group that is split
    rest,       \* what of its text is not yet cut into sentences
    pieces,     \* what is, not yet checked against MaxSafe; the last one is open
    final,      \* and what is checked
    index,      \* group_index, which counts through the document
    chunks,     \* an id and a text each
    outcome

reader == <<read, sections>>
grouper == <<section, taken, groups, group>>
splitter == <<rest, pieces, final>>
vars == <<doc, phase, reader, grouper, splitter, index, chunks, outcome>>

Blank(text) == \A i \in DOMAIN text : text[i] = White

Ink(text) == {i \in DOMAIN text : text[i] # White}

Strip(text) ==
    IF Blank(text) THEN <<>>
    ELSE SubSeq(text, CHOOSE i \in Ink(text) : \A j \in Ink(text) : i <= j,
                      CHOOSE i \in Ink(text) : \A j \in Ink(text) : j <= i)

\* The blank line between paragraphs, and after a heading.
Gap == <<White, White>>

WithLast(seq, x) == [seq EXCEPT ![Len(seq)] = x]

NoHeading == <<>>

Init ==
    /\ doc \in Documents
    /\ phase = "reading" /\ outcome = "none"
    /\ read = 0 /\ sections = <<[heading |-> NoHeading, paragraphs |-> <<>>]>>
    /\ section = 1 /\ taken = 0 /\ groups = <<>> /\ group = 1
    /\ rest = <<>> /\ pieces = <<>> /\ final = <<>>
    /\ index = 0 /\ chunks = <<>>

-----------------------------------------------------------------------------
(* Reading. *)

NextLine == doc.lines[read + 1]

\* PDF and TXT: the lines between blank ones make a paragraph.
ReadLine ==
    LET before == sections[1].paragraphs
        goesOn == read > 0 /\ ~Blank(doc.lines[read].text)
        after == IF goesOn THEN WithLast(before, before[Len(before)] \o <<White>> \o NextLine.text)
                           ELSE Append(before, NextLine.text)
    IN  /\ phase = "reading" /\ doc.kind # "docx" /\ read < Len(doc.lines)
        /\ read' = read + 1
        /\ sections' = IF Blank(NextLine.text) THEN sections
                       ELSE [sections EXCEPT ![1].paragraphs = after]
        /\ UNCHANGED <<doc, phase, grouper, splitter, index, chunks, outcome>>

\* DOCX: every heading starts a section.
ReadParagraph ==
    LET text == Strip(NextLine.text)
        last == sections[Len(sections)]
    IN  /\ phase = "reading" /\ doc.kind = "docx" /\ read < Len(doc.lines)
        /\ read' = read + 1
        /\ sections' =
              IF text = <<>> THEN sections
              ELSE IF NextLine.heading
                   THEN Append(sections, [heading |-> text, paragraphs |-> <<>>])
              ELSE WithLast(sections, [last EXCEPT !.paragraphs = Append(@, text)])
        /\ UNCHANGED <<doc, phase, grouper, splitter, index, chunks, outcome>>

Stripped(s) == [s EXCEPT !.paragraphs = [i \in DOMAIN s.paragraphs |-> Strip(s.paragraphs[i])]]

\* An exception: no chunk of the document is returned.
Refuse(why) ==
    /\ phase' = "ended" /\ outcome' = why
    /\ chunks' = <<>>

EndReading ==
    /\ phase = "reading" /\ read = Len(doc.lines)
    /\ sections' = [i \in DOMAIN sections |-> Stripped(sections[i])]
    /\ IF \A i \in DOMAIN sections : sections[i].paragraphs = <<>>
       THEN Refuse("empty")
       ELSE phase' = "grouping" /\ UNCHANGED <<chunks, outcome>>
    /\ UNCHANGED <<doc, read, grouper, splitter, index>>

-----------------------------------------------------------------------------
(* Grouping the paragraphs of a section. *)

Paragraphs == sections[section].paragraphs

\* mutant: the size of the group is not counted
Fits_Alone(g, paragraph) == Len(paragraph) <= Target

Fits(g, paragraph) == Len(g.text) + Len(Gap) + Len(paragraph) <= Target

TakeParagraph ==
    LET paragraph == Paragraphs[taken + 1]
        last == groups[Len(groups)]
    IN  /\ phase = "grouping" /\ taken < Len(Paragraphs)
        /\ taken' = taken + 1
        /\ groups' = IF groups # <<>> /\ Fits(last, paragraph)
                     THEN WithLast(groups, [last EXCEPT !.text = @ \o Gap \o paragraph, !.last = taken + 1])
                     ELSE Append(groups, [text |-> paragraph, first |-> taken + 1, last |-> taken + 1])
        /\ UNCHANGED <<doc, phase, reader, section, group, splitter, index, chunks, outcome>>

Heading == sections[section].heading

Whole(g) == IF Heading = NoHeading THEN g.text ELSE Heading \o Gap \o g.text

\* mutant: the size is checked before the heading is added
StartGroup_Bare(n) ==
    LET text == Whole(groups[n])
        fits == Len(groups[n].text) <= MaxSafe
    IN  /\ group' = n /\ phase' = "splitting" /\ final' = <<>>
        /\ pieces' = IF fits THEN <<text>> ELSE <<>>
        /\ rest' = IF fits THEN <<>> ELSE text

\* Text that fits is one piece as it is.
StartGroup(n) ==
    LET text == Whole(groups[n])
        fits == Len(text) <= MaxSafe
    IN  /\ group' = n /\ phase' = "splitting" /\ final' = <<>>
        /\ pieces' = IF fits THEN <<text>> ELSE <<>>
        /\ rest' = IF fits THEN <<>> ELSE text

EndGrouping ==
    /\ phase = "grouping" /\ taken = Len(Paragraphs) /\ groups # <<>>
    /\ StartGroup(1)
    /\ UNCHANGED <<doc, reader, section, taken, groups, index, chunks, outcome>>

\* On to the next section, or the end.
LeaveSection ==
    IF section < Len(sections)
    THEN /\ section' = section + 1 /\ taken' = 0 /\ groups' = <<>> /\ group' = 1
         /\ phase' = "grouping" /\ UNCHANGED outcome
    ELSE /\ phase' = "ended" /\ outcome' = "chunked"
         /\ UNCHANGED grouper

\* A heading with nothing under it is dropped.
SkipSection ==
    /\ phase = "grouping" /\ Paragraphs = <<>>
    /\ LeaveSection
    /\ UNCHANGED <<doc, reader, splitter, index, chunks>>

-----------------------------------------------------------------------------
(* Splitting a group that is too long. *)

\* White space after a stop ends a sentence.
Boundary(text, i) == i \in 1..(Len(text) - 1) /\ text[i] \in Stops /\ text[i + 1] = White

\* The first sentence of text is its first n characters, and the next one
\* starts after the m-th.
FirstSentence(text, n, m) ==
    /\ \A i \in 1..(n - 1) : ~Boundary(text, i)
    /\ Boundary(text, n) \/ n = Len(text)
    /\ \A i \in (n + 1)..m : text[i] = White
    /\ m < Len(text) => text[m + 1] # White

Joins(piece, sentence) == Len(piece) + 1 + Len(sentence) <= MaxSafe

TakeSentence ==
    /\ phase = "splitting" /\ rest # <<>>
    /\ \E n \in 1..Len(rest) : \E m \in n..Len(rest) :
          /\ FirstSentence(rest, n, m)
          /\ LET sentence == SubSeq(rest, 1, n)
                 last == pieces[Len(pieces)]
             IN  pieces' = IF pieces # <<>> /\ Joins(last, sentence)
                           THEN WithLast(pieces, last \o <<White>> \o sentence)
                           ELSE Append(pieces, sentence)
          /\ rest' = SubSeq(rest, m + 1, Len(rest))
    /\ UNCHANGED <<doc, phase, reader, grouper, final, index, chunks, outcome>>

\* mutant: a sentence is never cut
Window_Whole(piece) == piece

Window(piece) == SubSeq(piece, 1, IF Len(piece) <= MaxSafe THEN Len(piece) ELSE MaxSafe)

\* mutant: the next window starts one character late
Beyond_Late(piece) == SubSeq(piece, MaxSafe + 2, Len(piece))

Beyond(piece) == SubSeq(piece, MaxSafe + 1, Len(piece))

\* A piece that is still too long is cut anywhere.
CutPiece ==
    LET piece == Head(pieces)
    IN  /\ phase = "splitting" /\ rest = <<>> /\ pieces # <<>>
        /\ final' = Append(final, Window(piece))
        /\ pieces' = IF Len(piece) <= MaxSafe THEN Tail(pieces)
                                              ELSE <<Beyond(piece)>> \o Tail(pieces)
        /\ UNCHANGED <<doc, phase, reader, grouper, rest, index, chunks, outcome>>

\* mutant: the index counts within the section
Identity_InSection(k) == <<Heading, group, k>>

\* The part of the document a chunk's id is made of; k = 0: not split.
Identity(k) == <<Heading, index, k>>

NewChunks ==
    [k \in DOMAIN final |-> [id |-> Identity(IF Len(final) = 1 THEN 0 ELSE k), text |-> final[k]]]

\* A Chunk may not be blank (Chunk.__post_init__).
MakeChunks ==
    /\ phase = "splitting" /\ rest = <<>> /\ pieces = <<>>
    /\ IF \E k \in DOMAIN final : Blank(final[k])
       THEN Refuse("blank") /\ UNCHANGED <<grouper, splitter, index>>
       ELSE /\ chunks' = chunks \o NewChunks
            /\ index' = index + 1
            /\ IF group < Len(groups)
               THEN StartGroup(group + 1) /\ UNCHANGED <<section, taken, groups, outcome>>
               ELSE LeaveSection /\ UNCHANGED splitter
    /\ UNCHANGED <<doc, reader>>

Next ==
    \/ ReadLine \/ ReadParagraph \/ EndReading
    \/ TakeParagraph \/ EndGrouping \/ SkipSection
    \/ TakeSentence \/ CutPiece \/ MakeChunks

Spec == Init /\ [][Next]_vars
-----------------------------------------------------------------------------
(* Properties. *)

TypeOK ==
    /\ doc \in Document
    /\ phase \in {"reading", "grouping", "splitting", "ended"}
    /\ read \in 0..Len(doc.lines)
    /\ sections \in Seq([heading: Text, paragraphs: Seq(Text)]) /\ sections # <<>>
    /\ section \in 1..Len(sections)
    /\ taken \in 0..Len(Paragraphs)
    /\ groups \in Seq([text: Text, first: Nat \ {0}, last: Nat \ {0}])
    /\ group \in Nat \ {0}
    /\ rest \in Text /\ pieces \in Seq(Text) /\ final \in Seq(Text)
    /\ index \in Nat
    /\ chunks \in Seq([id: Text \X Nat \X Nat, text: Text])
    /\ outcome \in {"none", "empty", "blank", "chunked"}

\* Every chunk can be embedded, whatever the document (module docstring, and
\* 256: "guaranteeing every returned piece is embeddable"): it is under the
\* ceiling of the embeddings call, which would fail on every retry otherwise,
\* and not blank.
Embeddable ==
    \A i \in DOMAIN chunks : Len(chunks[i].text) <= MaxSafe /\ ~Blank(chunks[i].text)

\* No two chunks of a document have one id, repeated headings included: the
\* second would overwrite the first in the chunks table.
IdsDistinct ==
    \A i, j \in DOMAIN chunks : chunks[i].id = chunks[j].id => i = j

\* Every chunk can be stored: embedded on the first try or a retry, under an id
\* of its own.
Storable == Embeddable /\ IdsDistinct

\* A group is within the target, or it is a single paragraph (8-12); so only a
\* single paragraph, or a heading that is itself too long, is ever split.
GroupsFit ==
    \A i \in DOMAIN groups : groups[i].first < groups[i].last => Len(groups[i].text) <= Target

\* What is cut without regard to sentences is one sentence, too long alone.
CutsOnlyGiants ==
    \A i \in DOMAIN pieces :
        Len(pieces[i]) > MaxSafe => \A n \in DOMAIN pieces[i] : ~Boundary(pieces[i], n)

\* Paragraphs and sentences stay whole wherever the sizes allow it.
SplitsOnlyGiants == GroupsFit /\ CutsOnlyGiants
=============================================================================
