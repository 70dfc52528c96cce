------------------------------ MODULE Contents ------------------------------
(***************************************************************************)
(* What an uploaded document says: its sections, each a heading and one    *)
(* paragraph or more, given by the lines of the document at once.  It is   *)
(* the reference for the two loops of Chunking that read it.               *)
(***************************************************************************)
EXTENDS Naturals, Sublists

CONSTANT White

Blank(text) == \A i \in DOMAIN text : text[i] = White

InkOf(text) == Sublist(text, {i \in DOMAIN text : text[i] # White})

\* text without the white space around it.
Trimmed(text) ==
    LET ink == {i \in DOMAIN text : text[i] # White}
    IN  IF ink = {} THEN <<>> ELSE SubSeq(text, Min(ink), Max(ink))

TextLines(d) == {i \in DOMAIN d.lines : ~Blank(d.lines[i].text)}

\* The paragraphs of a PDF or TXT file are its longest runs of lines with text.
RunStarts(d) == {i \in TextLines(d) : i - 1 \notin TextLines(d)}

Run(d, i) == {j \in TextLines(d) : i <= j /\ i..j \subseteq TextLines(d)}

\* Every line after a character of white space, the first one as well.
RunText(d, i) ==
    FlattenSeq([j \in DOMAIN d.lines |-> IF j \in Run(d, i) THEN <<White>> \o d.lines[j].text ELSE <<>>])

PlainSection(d) ==
    [heading |-> <<>>,
     paragraphs |-> Sublist([i \in DOMAIN d.lines |-> Trimmed(RunText(d, i))], RunStarts(d))]

\* A section of a DOCX file starts with the first line, and after every heading.
Headings(d) == {i \in TextLines(d) : d.lines[i].heading}

Starts(d) == {1} \cup {h + 1 : h \in Headings(d)}

Under(d, s) == {i \in TextLines(d) : s <= i /\ (s..i) \cap Headings(d) = {}}

HeadedSection(d, s) ==
    [heading |-> IF s = 1 THEN <<>> ELSE Trimmed(d.lines[s - 1].text),
     paragraphs |-> Sublist([i \in DOMAIN d.lines |-> Trimmed(d.lines[i].text)], Under(d, s))]

HeadedSections(d) == Sublist([s \in 1..(Len(d.lines) + 1) |-> HeadedSection(d, s)], Starts(d))

WithText(sections) == Sublist(sections, {i \in DOMAIN sections : sections[i].paragraphs # <<>>})

Content(d) == WithText(IF d.kind = "docx" THEN HeadedSections(d) ELSE <<PlainSection(d)>>)
=============================================================================
