--------------------------- MODULE ChunkingProofs ---------------------------
(* Theorems of module Chunking, for every document and every size. *)
EXTENDS Delivery, SequenceTheorems, WellFoundedInduction, TLAPS

\* The first line of a paragraph has made one.
OpenParagraph ==
    doc.kind # "docx" /\ read > 0 /\ ~Blank(doc.lines[read].text)
        => sections[1].paragraphs # <<>>

\* Where each loop finds the others.
InStep ==
    /\ phase = "reading" => /\ section = 1 /\ taken = 0 /\ groups = <<>>
                            /\ rest = <<>> /\ pieces = <<>> /\ chunks = <<>>
                            /\ OpenParagraph
    /\ phase = "splitting" => group \in 1..Len(groups)

Shape == TypeOK /\ InStep

-----------------------------------------------------------------------------
(* Sequences. *)

\* A set of numbers has a least one.
LEMMA Least ==
    ASSUME NEW S \in SUBSET Nat, S # {}
    PROVE  \E i \in S : \A j \in S : i <= j
<1>1. PICK i \in S : \A j \in S : ~(<<j, i>> \in OpToRel(<, Nat))
    BY NatLessThanWellFounded, WFMin
<1>2. \A j \in S : ~(j < i)
    BY <1>1 DEF OpToRel
<1> QED BY <1>2

\* A bounded one has a greatest.
LEMMA Greatest ==
    ASSUME NEW n \in Nat, NEW S \in SUBSET (1..n), S # {}
    PROVE  \E i \in S : \A j \in S : j <= i
<1> DEFINE T == {n - i : i \in S}
<1>1. T \in SUBSET Nat /\ T # {}
    <2>1. \A i \in S : n - i \in Nat
        OBVIOUS
    <2>2. PICK i \in S : TRUE
        OBVIOUS
    <2>3. n - i \in T
        OBVIOUS
    <2> QED BY <2>1, <2>3
<1>2. PICK t \in T : \A u \in T : t <= u
    BY <1>1, Least
<1>3. PICK i \in S : t = n - i
    BY <1>2
<1>4. \A j \in S : n - i <= n - j
    BY <1>2, <1>3
<1> QED BY <1>4

LEMMA WithLastProperties ==
    ASSUME NEW S, NEW seq \in Seq(S), seq # <<>>, NEW x \in S
    PROVE  /\ WithLast(seq, x) \in Seq(S)
           /\ Len(WithLast(seq, x)) = Len(seq)
           /\ \A i \in DOMAIN seq : WithLast(seq, x)[i] = IF i = Len(seq) THEN x ELSE seq[i]
<1>1. Len(seq) \in 1..Len(seq)
    BY EmptySeq, LenProperties
<1> QED BY <1>1, ExceptSeq DEF WithLast

\* What is not blank has ink, from a first to a last character.
LEMMA InkSpan ==
    ASSUME NEW text \in Text, ~Blank(text)
    PROVE  \E i, j \in Ink(text) : /\ \A k \in Ink(text) : i <= k /\ k <= j
                                   /\ Strip(text) = SubSeq(text, i, j)
<1> DEFINE first == CHOOSE i \in Ink(text) : \A k \in Ink(text) : i <= k
           last == CHOOSE i \in Ink(text) : \A k \in Ink(text) : k <= i
<1>1. Ink(text) \in SUBSET (1..Len(text)) /\ Ink(text) # {}
    BY DEF Ink, Blank, Text
<1>2. Ink(text) \in SUBSET Nat /\ Len(text) \in Nat
    BY <1>1 DEF Text
<1>3. first \in Ink(text) /\ \A k \in Ink(text) : first <= k
    <2>1. \E i \in Ink(text) : \A k \in Ink(text) : i <= k
        BY <1>1, <1>2, Least
    <2> QED BY <2>1
<1>4. last \in Ink(text) /\ \A k \in Ink(text) : k <= last
    <2>1. \E i \in Ink(text) : \A k \in Ink(text) : k <= i
        BY <1>1, <1>2, Greatest
    <2> QED BY <2>1
<1>5. Strip(text) = SubSeq(text, first, last)
    BY DEF Strip
<1> QED BY <1>3, <1>4, <1>5

LEMMA StripType == \A text \in Text : Strip(text) \in Text
<1> SUFFICES ASSUME NEW text \in Text PROVE Strip(text) \in Text
    OBVIOUS
<1>1. CASE Blank(text)
    <2>1. <<>> \in Seq(Chars)
        OBVIOUS
    <2> QED BY <1>1, <2>1 DEF Strip, Text
<1>2. CASE ~Blank(text)
    <2>1. PICK i, j \in Ink(text) : Strip(text) = SubSeq(text, i, j)
        BY <1>2, InkSpan
    <2>2. i \in 1..Len(text) /\ j \in 1..Len(text)
        BY DEF Ink, Text
    <2> QED BY <2>1, <2>2 DEF Text
<1> QED BY <1>1, <1>2

LEMMA TextFacts ==
    /\ <<>> \in Text
    /\ \A s, t \in Text : s \o t \in Text /\ Len(s \o t) = Len(s) + Len(t)
    /\ Gap \in Text /\ <<White>> \in Text /\ Len(Gap) = 2 /\ Len(<<White>>) = 1
    /\ \A t \in Text : Len(t) \in Nat /\ DOMAIN t = 1..Len(t)
<1>1. <<>> \in Text
    BY EmptySeq DEF Text
<1>2. Gap \in Text /\ <<White>> \in Text /\ Len(Gap) = 2 /\ Len(<<White>>) = 1
    BY CharsAssumption DEF Text, Gap
<1>3. \A s, t \in Text : s \o t \in Text /\ Len(s \o t) = Len(s) + Len(t)
    BY ConcatProperties DEF Text
<1> QED BY <1>1, <1>2, <1>3, LenProperties DEF Text

\* Texts joined with a blank line, or with a space.
LEMMA JoinFacts ==
    \A s, t \in Text : /\ s \o Gap \o t \in Text
                       /\ Len(s \o Gap \o t) = Len(s) + 2 + Len(t)
                       /\ s \o <<White>> \o t \in Text
                       /\ Len(s \o <<White>> \o t) = Len(s) + 1 + Len(t)
<1> SUFFICES ASSUME NEW s \in Text, NEW t \in Text
             PROVE  /\ s \o Gap \o t \in Text
                    /\ Len(s \o Gap \o t) = Len(s) + 2 + Len(t)
                    /\ s \o <<White>> \o t \in Text
                    /\ Len(s \o <<White>> \o t) = Len(s) + 1 + Len(t)
    OBVIOUS
<1>1. s \o Gap \in Text /\ Len(s \o Gap) = Len(s) + 2
    BY TextFacts
<1>2. s \o <<White>> \in Text /\ Len(s \o <<White>>) = Len(s) + 1
    BY TextFacts
<1> QED BY <1>1, <1>2, TextFacts

Section == [heading: Text, paragraphs: Seq(Text)]

LEMMA InitShape == Init => Shape
<1> SUFFICES ASSUME Init PROVE Shape
    OBVIOUS
<1>1. doc \in Document /\ Len(doc.lines) \in Nat
    BY DocumentsAssumption DEF Init, Document
<1>2. sections \in Seq(Section) /\ Len(sections) = 1 /\ sections # <<>>
    <2>1. [heading |-> NoHeading, paragraphs |-> <<>>] \in Section
        BY TextFacts DEF Section, NoHeading
    <2> QED BY <2>1 DEF Init
<1>3. Paragraphs = <<>>
    BY DEF Init, Paragraphs
<1>4. taken \in 0..Len(Paragraphs)
    BY <1>3 DEF Init
<1>5. <<>> \in Seq(Text) /\ <<>> \in Seq([text: Text, first: Nat \ {0}, last: Nat \ {0}])
        /\ <<>> \in Seq([id: Text \X Nat \X Nat, text: Text])
    OBVIOUS
<1>6. TypeOK
    BY <1>1, <1>2, <1>4, <1>5, TextFacts DEF Init, TypeOK, Section
<1>7. InStep
    BY DEF Init, InStep, OpenParagraph
<1> QED BY <1>6, <1>7 DEF Shape
-----------------------------------------------------------------------------
(* Every step keeps the types. *)

LEMMA ReadLineShape == Shape /\ ReadLine => Shape'
<1> SUFFICES ASSUME Shape, ReadLine PROVE Shape'
    OBVIOUS
<1>1. /\ doc \in Document /\ Len(doc.lines) \in Nat /\ read \in 0..Len(doc.lines)
      /\ sections \in Seq(Section) /\ sections # <<>> /\ 1 \in DOMAIN sections
      /\ phase = "reading" /\ read < Len(doc.lines) /\ read' = read + 1 /\ doc' = doc
      /\ section = 1 /\ taken = 0
    <2>1. sections \in Seq(Section) /\ sections # <<>>
        BY DEF Shape, TypeOK, Section
    <2>2. 1 \in DOMAIN sections
        BY <2>1, EmptySeq, LenProperties
    <2> QED BY <2>1, <2>2 DEF Shape, TypeOK, InStep, ReadLine, Document
<1>2. NextLine.text \in Text /\ read + 1 \in 1..Len(doc.lines)
    <2>1. doc.lines \in Seq(Line) /\ read + 1 \in 1..Len(doc.lines)
        BY <1>1 DEF Document
    <2>2. doc.lines[read + 1] \in Line
        BY <2>1, ElementOfSeq
    <2> QED BY <2>1, <2>2 DEF NextLine, Line
<1> DEFINE before == sections[1].paragraphs
           goesOn == read > 0 /\ ~Blank(doc.lines[read].text)
           after == IF goesOn THEN WithLast(before, before[Len(before)] \o <<White>> \o NextLine.text)
                              ELSE Append(before, NextLine.text)
<1>3. before \in Seq(Text) /\ sections[1] \in Section
    <2>1. sections[1] \in Section
        BY <1>1, LenProperties, ElementOfSeq
    <2> QED BY <2>1 DEF Section
<1>4. after \in Seq(Text) /\ after # <<>>
    <2>1. CASE goesOn
        <3>1. before # <<>>
            BY <2>1, <1>1 DEF Shape, ReadLine, InStep, OpenParagraph
        <3>2. before[Len(before)] \in Text
            BY <3>1, <1>3, EmptySeq, LenProperties, ElementOfSeq
        <3>3. before[Len(before)] \o <<White>> \o NextLine.text \in Text
            BY <3>2, <1>2, TextFacts
        <3>4. after = WithLast(before, before[Len(before)] \o <<White>> \o NextLine.text)
            BY <2>1
        <3> DEFINE line == before[Len(before)] \o <<White>> \o NextLine.text
        <3> HIDE DEF after, before, line
        <3>5. WithLast(before, line) \in Seq(Text) /\ Len(WithLast(before, line)) = Len(before)
            <4>1. line \in Text
                BY <3>3 DEF line
            <4> QED BY <4>1, <3>1, <1>3, WithLastProperties
        <3>6. after = WithLast(before, line)
            BY <3>4 DEF line
        <3>7. Len(before) # 0
            BY <3>1, <1>3, EmptySeq
        <3>8. after # <<>>
            BY <3>5, <3>6, <3>7
        <3> QED BY <3>5, <3>6, <3>8
    <2>2. CASE ~goesOn
        <3>1. after = Append(before, NextLine.text)
            BY <2>2
        <3> HIDE DEF after, before
        <3> QED BY <3>1, <1>2, <1>3, AppendProperties
    <2> QED BY <2>1, <2>2
<1>5. sections' = IF Blank(NextLine.text) THEN sections
                  ELSE [sections EXCEPT ![1].paragraphs = after]
    BY DEF ReadLine
<1>6. /\ sections' \in Seq(Section) /\ sections' # <<>> /\ Len(sections') = Len(sections)
      /\ ~Blank(NextLine.text) => sections'[1].paragraphs # <<>>
    <2>1. CASE Blank(NextLine.text)
        BY <2>1, <1>1, <1>5
    <2>2. CASE ~Blank(NextLine.text)
        <3> HIDE DEF after
        <3>1. [sections[1] EXCEPT !.paragraphs = after] \in Section
            BY <1>3, <1>4 DEF Section
        <3>2. sections' = [sections EXCEPT ![1] = [sections[1] EXCEPT !.paragraphs = after]]
            BY <2>2, <1>5
        <3>3. sections' \in Seq(Section) /\ Len(sections') = Len(sections)
            BY <3>1, <3>2, <1>1, ExceptSeq
        <3>4. sections'[1] = [sections[1] EXCEPT !.paragraphs = after]
            BY <3>2, <1>1
        <3>5. sections'[1].paragraphs = after
            BY <3>4, <1>3 DEF Section
        <3> QED BY <3>3, <3>5, <1>1, <1>4
    <2> QED BY <2>1, <2>2
<1>7. taken' = 0 /\ section' = 1 /\ phase' = "reading"
    BY <1>1 DEF ReadLine, grouper
<1>8. section' \in 1..Len(sections') /\ taken' \in 0..Len(Paragraphs')
    <2>1. 1 \in 1..Len(sections')
        BY <1>1, <1>6
    <2>2. Paragraphs' \in Seq(Text)
        <3>1. sections'[1] \in Section
            BY <2>1, <1>6, ElementOfSeq
        <3> QED BY <3>1, <1>7 DEF Paragraphs, Section
    <2> QED BY <2>1, <2>2, <1>7
<1>9. TypeOK'
    BY <1>1, <1>6, <1>7, <1>8 DEF Shape, Section, TypeOK, ReadLine, grouper, splitter
<1>10. OpenParagraph'
    <2>1. doc'.lines[read'] = NextLine
        BY <1>1 DEF NextLine
    <2> QED BY <2>1, <1>6 DEF OpenParagraph, Blank
<1>11. InStep'
    BY <1>1, <1>7, <1>10 DEF Shape, InStep, ReadLine, grouper, splitter
<1> QED BY <1>9, <1>11 DEF Shape

LEMMA ReadParagraphShape == Shape /\ ReadParagraph => Shape'
<1> SUFFICES ASSUME Shape, ReadParagraph PROVE Shape'
    OBVIOUS
<1>1. /\ doc \in Document /\ Len(doc.lines) \in Nat /\ read \in 0..Len(doc.lines)
      /\ sections \in Seq(Section) /\ sections # <<>> /\ 1 \in DOMAIN sections
      /\ phase = "reading" /\ read < Len(doc.lines) /\ read' = read + 1 /\ doc' = doc
      /\ section = 1 /\ taken = 0 /\ doc.kind = "docx"
    <2>1. sections \in Seq(Section) /\ sections # <<>>
        BY DEF Shape, TypeOK, Section
    <2>2. 1 \in DOMAIN sections
        BY <2>1, EmptySeq, LenProperties
    <2> QED BY <2>1, <2>2 DEF Shape, TypeOK, InStep, ReadParagraph, Document
<1> DEFINE text == Strip(NextLine.text)
           last == sections[Len(sections)]
<1>2. text \in Text
    <2>1. doc.lines \in Seq(Line) /\ read + 1 \in 1..Len(doc.lines)
        BY <1>1 DEF Document
    <2>2. doc.lines[read + 1] \in Line
        BY <2>1, ElementOfSeq
    <2> QED BY <2>2, StripType DEF NextLine, Line
<1>3. last \in Section
    BY <1>1, EmptySeq, LenProperties, ElementOfSeq
<1>4. sections' \in Seq(Section) /\ sections' # <<>>
    <2>1. CASE text = <<>>
        BY <2>1, <1>1 DEF ReadParagraph
    <2>2. CASE text # <<>> /\ NextLine.heading
        <3>1. [heading |-> text, paragraphs |-> <<>>] \in Section
            BY <1>2 DEF Section
        <3>2. sections' = Append(sections, [heading |-> text, paragraphs |-> <<>>])
            BY <2>2 DEF ReadParagraph
        <3> QED BY <3>1, <3>2, <1>1, AppendProperties
    <2>3. CASE text # <<>> /\ ~NextLine.heading
        <3>1. Append(last.paragraphs, text) \in Seq(Text)
            BY <1>2, <1>3 DEF Section
        <3>2. [last EXCEPT !.paragraphs = Append(@, text)] \in Section
            BY <3>1, <1>3 DEF Section
        <3>3. sections' = WithLast(sections, [last EXCEPT !.paragraphs = Append(@, text)])
            BY <2>3 DEF ReadParagraph
        <3>4. sections' \in Seq(Section) /\ Len(sections') = Len(sections) /\ Len(sections) # 0
            BY <3>2, <3>3, <1>1, WithLastProperties
        <3> QED BY <3>4
    <2> QED BY <2>1, <2>2, <2>3
<1>5. taken' = 0 /\ section' = 1 /\ phase' = "reading"
    BY <1>1 DEF ReadParagraph, grouper
<1>6. section' \in 1..Len(sections') /\ taken' \in 0..Len(Paragraphs')
    <2>1. 1 \in 1..Len(sections')
        BY <1>4
    <2>2. Paragraphs' \in Seq(Text)
        <3>1. sections'[1] \in Section
            BY <2>1, <1>4, ElementOfSeq
        <3> QED BY <3>1, <1>5 DEF Paragraphs, Section
    <2> QED BY <2>1, <2>2, <1>5
<1>7. TypeOK'
    <2>1. UNCHANGED <<doc, phase, groups, group, rest, pieces, final, index, chunks, outcome>>
        BY DEF ReadParagraph, grouper, splitter
    <2>2. read' \in 0..Len(doc'.lines)
        BY <1>1
    <2> QED BY <2>1, <2>2, <1>4, <1>6 DEF Shape, Section, TypeOK
<1>8. InStep'
    BY <1>1, <1>5 DEF Shape, InStep, OpenParagraph, ReadParagraph, grouper, splitter
<1> QED BY <1>7, <1>8 DEF Shape

LEMMA EndReadingShape == Shape /\ EndReading => Shape'
<1> SUFFICES ASSUME Shape, EndReading PROVE Shape'
    OBVIOUS
<1>1. /\ sections \in Seq(Section) /\ sections # <<>>
      /\ section = 1 /\ taken = 0 /\ groups = <<>> /\ chunks = <<>>
    BY DEF Shape, TypeOK, InStep, EndReading, Section
<1>2. \A s \in Section : Stripped(s) \in Section
    <2> SUFFICES ASSUME NEW s \in Section PROVE Stripped(s) \in Section
        OBVIOUS
    <2> DEFINE ps == [i \in DOMAIN s.paragraphs |-> Strip(s.paragraphs[i])]
    <2>1. s.paragraphs \in Seq(Text)
        BY DEF Section
    <2>2. \A i \in 1..Len(s.paragraphs) : Strip(s.paragraphs[i]) \in Text
        BY <2>1, ElementOfSeq, StripType
    <2>3. ps \in Seq(Text)
        BY <2>1, <2>2, IsASeq
    <2> HIDE DEF ps
    <2>4. [s EXCEPT !.paragraphs = ps] \in Section
        BY <2>3 DEF Section
    <2> QED BY <2>4 DEF Stripped, ps
<1>3. sections' \in Seq(Section) /\ sections' # <<>>
    <2>1. sections' = [i \in 1..Len(sections) |-> Stripped(sections[i])]
        BY <1>1 DEF EndReading
    <2>2. \A i \in 1..Len(sections) : Stripped(sections[i]) \in Section
        BY <1>1, <1>2, ElementOfSeq
    <2>3. sections' \in Seq(Section)
        BY <1>1, <2>1, <2>2, IsASeq
    <2>4. DOMAIN sections' = 1..Len(sections) /\ Len(sections) \in Nat \ {0}
        BY <1>1, <2>1, EmptySeq
    <2> QED BY <2>3, <2>4
<1>4. section' \in 1..Len(sections') /\ taken' \in 0..Len(Paragraphs')
    <2>1. 1 \in 1..Len(sections')
        BY <1>3
    <2>2. section' = 1 /\ taken' = 0
        BY <1>1 DEF EndReading, grouper
    <2>3. Paragraphs' \in Seq(Text)
        <3>1. sections'[1] \in Section
            BY <2>1, <1>3, ElementOfSeq
        <3> QED BY <3>1, <2>2 DEF Paragraphs, Section
    <2> QED BY <2>1, <2>2, <2>3
<1>5. phase' \in {"grouping", "ended"} /\ chunks' = <<>> /\ outcome' \in {"none", "empty", "blank", "chunked"}
    <2>1. CASE \A i \in DOMAIN sections : sections[i].paragraphs = <<>>
        BY <2>1 DEF EndReading, Refuse
    <2>2. CASE ~\A i \in DOMAIN sections : sections[i].paragraphs = <<>>
        <3>1. outcome = outcome' /\ chunks' = chunks /\ phase' = "grouping"
            BY <2>2 DEF EndReading
        <3>2. outcome \in {"none", "empty", "blank", "chunked"}
            BY DEF Shape, TypeOK
        <3> QED BY <3>1, <3>2, <1>1
    <2> QED BY <2>1, <2>2
<1>6. TypeOK'
    <2>1. UNCHANGED <<doc, read, groups, group, rest, pieces, final, index>>
        BY DEF EndReading, grouper, splitter
    <2>2. <<>> \in Seq([id: Text \X Nat \X Nat, text: Text])
        OBVIOUS
    <2> QED BY <2>1, <2>2, <1>3, <1>4, <1>5 DEF Shape, Section, TypeOK
<1>7. InStep'
    BY <1>5 DEF InStep
<1> QED BY <1>6, <1>7 DEF Shape

Group == [text: Text, first: Nat \ {0}, last: Nat \ {0}]

LEMMA TakeParagraphShape ==
    Shape /\ TakeParagraph => Shape' /\ (GroupsFit => GroupsFit')
<1> SUFFICES ASSUME Shape, TakeParagraph PROVE Shape' /\ (GroupsFit => GroupsFit')
    OBVIOUS
<1> DEFINE paragraph == Paragraphs[taken + 1]
           last == groups[Len(groups)]
           longer == [last EXCEPT !.text = last.text \o Gap \o paragraph, !.last = taken + 1]
           alone == [text |-> paragraph, first |-> taken + 1, last |-> taken + 1]
<1>1. /\ sections \in Seq(Section) /\ section \in 1..Len(sections)
      /\ groups \in Seq(Group) /\ taken \in 0..Len(Paragraphs)
      /\ phase = "grouping" /\ taken < Len(Paragraphs) /\ taken' = taken + 1
    BY DEF Shape, TypeOK, TakeParagraph, Section, Group
<1>2. Paragraphs \in Seq(Text)
    <2>1. sections[section] \in Section
        BY <1>1, ElementOfSeq
    <2> QED BY <2>1 DEF Paragraphs, Section
<1>3. paragraph \in Text
    <2>1. taken + 1 \in 1..Len(Paragraphs)
        BY <1>1, <1>2
    <2> QED BY <2>1, <1>2, ElementOfSeq
<1>4. alone \in Group /\ taken + 1 \in Nat \ {0}
    <2>1. taken + 1 \in Nat \ {0}
        BY <1>1
    <2> QED BY <2>1, <1>3 DEF Group
<1>5. groups' \in Seq(Group) /\ (GroupsFit => GroupsFit')
    <2>1. CASE groups # <<>> /\ Fits(last, paragraph)
        <3>1. last \in Group
            BY <1>1, <2>1, EmptySeq, LenProperties, ElementOfSeq
        <3>2. last.text \o Gap \o paragraph \in Text
            BY <3>1, <1>3, TextFacts DEF Group
        <3>3. longer \in Group /\ longer.text = last.text \o Gap \o paragraph
            <4> DEFINE text == last.text \o Gap \o paragraph
            <4>1. longer = [last EXCEPT !.text = text, !.last = taken + 1] /\ text \in Text
                BY <3>2
            <4> HIDE DEF text, longer, last
            <4> QED BY <4>1, <3>1, <1>4 DEF Group, text
        <3>4. groups' = WithLast(groups, longer)
            BY <2>1 DEF TakeParagraph
        <3> HIDE DEF longer
        <3>5. /\ groups' \in Seq(Group) /\ Len(groups') = Len(groups)
              /\ \A i \in DOMAIN groups : groups'[i] = IF i = Len(groups) THEN longer ELSE groups[i]
            BY <3>3, <3>4, <1>1, <2>1, WithLastProperties
        <3>6. Len(longer.text) <= Target
            <4>1. last.text \in Text /\ Len(Gap) = 2
                BY <3>1, TextFacts DEF Group
            <4>2. longer.text = last.text \o Gap \o paragraph
                BY <3>3
            <4> HIDE DEF last, paragraph
            <4>3. Len(last.text \o Gap \o paragraph) = Len(last.text) + 2 + Len(paragraph)
                BY <4>1, <1>3, JoinFacts
            <4> QED BY <4>1, <4>2, <4>3, <2>1 DEF Fits
        <3>7. GroupsFit => GroupsFit'
            <4>1. DOMAIN groups' = DOMAIN groups
                BY <3>5, <1>1, LenProperties
            <4> QED BY <4>1, <3>5, <3>6 DEF GroupsFit
        <3> QED BY <3>5, <3>7
    <2>2. CASE ~(groups # <<>> /\ Fits(last, paragraph))
        <3>1. groups' = Append(groups, alone)
            BY <2>2 DEF TakeParagraph
        <3> HIDE DEF alone
        <3>2. /\ groups' \in Seq(Group) /\ Len(groups') = Len(groups) + 1
              /\ \A i \in 1..Len(groups) : groups'[i] = groups[i]
              /\ groups'[Len(groups) + 1] = alone
            BY <3>1, <1>1, <1>4, AppendProperties
        <3>3. GroupsFit => GroupsFit'
            <4>1. DOMAIN groups' = 1..(Len(groups) + 1) /\ DOMAIN groups = 1..Len(groups)
                    /\ Len(groups) \in Nat
                BY <3>2, <1>1, LenProperties
            <4>2. \A i \in 1..(Len(groups) + 1) : i \in 1..Len(groups) \/ i = Len(groups) + 1
                BY <4>1
            <4>3. ~(alone.first < alone.last)
                BY <1>1 DEF alone
            <4> QED BY <4>1, <4>2, <4>3, <3>2 DEF GroupsFit
        <3> QED BY <3>2, <3>3
    <2> QED BY <2>1, <2>2
<1>6. Paragraphs' = Paragraphs /\ Len(Paragraphs) \in Nat
    BY <1>2 DEF TakeParagraph, Paragraphs, reader
<1>7. Shape'
    <2>1. UNCHANGED <<doc, phase, read, sections, section, group, rest, pieces, final, index, chunks, outcome>>
        BY DEF TakeParagraph, reader, splitter
    <2>2. taken' \in 0..Len(Paragraphs')
        BY <1>1, <1>6
    <2>3. TypeOK'
        BY <2>1, <2>2, <1>5 DEF Shape, TypeOK, Group
    <2>4. InStep'
        BY <2>1, <1>1 DEF InStep
    <2> QED BY <2>3, <2>4 DEF Shape
<1> QED BY <1>5, <1>7

\* What a group's text is, and that one that fits is a piece.
LEMMA StartGroupShape ==
    ASSUME TypeOK, NEW n \in 1..Len(groups), StartGroup(n)
    PROVE  /\ group' = n /\ phase' = "splitting" /\ final' = <<>>
           /\ rest' \in Text /\ pieces' \in Seq(Text)
           /\ \A i \in DOMAIN pieces' : Len(pieces'[i]) <= MaxSafe
<1>1. groups[n] \in Group
    <2>1. groups \in Seq(Group)
        BY DEF TypeOK, Group
    <2> QED BY <2>1, ElementOfSeq
<1>2. Heading \in Text
    <2>1. sections \in Seq(Section) /\ section \in 1..Len(sections)
        BY DEF TypeOK, Section
    <2>2. sections[section] \in Section
        BY <2>1, ElementOfSeq
    <2> QED BY <2>2 DEF Heading, Section
<1> DEFINE text == Whole(groups[n])
<1>3. text \in Text
    BY <1>1, <1>2, JoinFacts DEF Whole, Group
<1>4. /\ group' = n /\ phase' = "splitting" /\ final' = <<>>
      /\ pieces' = IF Len(text) <= MaxSafe THEN <<text>> ELSE <<>>
      /\ rest' = IF Len(text) <= MaxSafe THEN <<>> ELSE text
    BY DEF StartGroup
<1> HIDE DEF text
<1>5. <<text>> \in Seq(Text) /\ Len(<<text>>) = 1 /\ <<text>>[1] = text
    BY <1>3
<1>6. <<>> \in Seq(Text) /\ DOMAIN <<>> = {}
    OBVIOUS
<1>7. CASE Len(text) <= MaxSafe
    BY <1>4, <1>5, <1>7, TextFacts
<1>8. CASE ~(Len(text) <= MaxSafe)
    BY <1>3, <1>4, <1>6, <1>8, TextFacts
<1> QED BY <1>7, <1>8

LEMMA EndGroupingShape == Shape /\ EndGrouping => Shape'
<1> SUFFICES ASSUME Shape, EndGrouping PROVE Shape'
    OBVIOUS
<1>1. TypeOK /\ StartGroup(1) /\ 1 \in 1..Len(groups)
    <2>1. groups \in Seq(Group) /\ groups # <<>>
        BY DEF Shape, TypeOK, Group, EndGrouping
    <2> QED BY <2>1, EmptySeq DEF Shape, EndGrouping
<1>2. /\ group' = 1 /\ phase' = "splitting" /\ final' = <<>>
      /\ rest' \in Text /\ pieces' \in Seq(Text)
    BY <1>1, StartGroupShape
<1>3. UNCHANGED <<doc, read, sections, section, taken, groups, index, chunks, outcome>>
    BY DEF EndGrouping, reader
<1>4. Paragraphs' = Paragraphs
    BY <1>3 DEF Paragraphs
<1>5. final' \in Seq(Text)
    BY <1>2
<1>6. TypeOK'
    BY <1>1, <1>2, <1>3, <1>4, <1>5 DEF TypeOK
<1>7. InStep'
    BY <1>1, <1>2, <1>3 DEF InStep
<1> QED BY <1>6, <1>7 DEF Shape

\* Only where the next section begins does LeaveSection change what TypeOK says.
LEMMA LeaveSectionShape ==
    ASSUME TypeOK, LeaveSection, UNCHANGED <<doc, read, sections>>
    PROVE  /\ section' \in 1..Len(sections') /\ taken' \in 0..Len(Paragraphs')
           /\ groups' \in Seq(Group) /\ (groups' = groups \/ groups' = <<>>)
           /\ group' \in Nat \ {0} /\ phase' \in {"grouping", "ended"}
           /\ outcome' \in {"none", "empty", "blank", "chunked"}
<1>1. /\ sections \in Seq(Section) /\ section \in 1..Len(sections) /\ Len(sections) \in Nat
      /\ groups \in Seq(Group)
    BY DEF TypeOK, Section, Group
<1>2. CASE section < Len(sections)
    <2>1. /\ section' = section + 1 /\ taken' = 0 /\ groups' = <<>> /\ group' = 1
          /\ phase' = "grouping" /\ outcome' = outcome
        BY <1>2 DEF LeaveSection
    <2>2. section' \in 1..Len(sections')
        BY <1>1, <1>2, <2>1
    <2>3. sections'[section'] \in Section
        BY <1>1, <2>2, ElementOfSeq
    <2>4. Paragraphs' \in Seq(Text)
        BY <2>3 DEF Paragraphs, Section
    <2>5. <<>> \in Seq(Group)
        OBVIOUS
    <2> QED BY <2>1, <2>2, <2>4, <2>5 DEF TypeOK
<1>3. CASE ~(section < Len(sections))
    <2>1. UNCHANGED <<section, taken, groups, group>> /\ phase' = "ended" /\ outcome' = "chunked"
        BY <1>3 DEF LeaveSection, grouper
    <2> QED BY <2>1, <1>1 DEF TypeOK, Paragraphs
<1> QED BY <1>2, <1>3

LEMMA SkipSectionShape == Shape /\ SkipSection => Shape'
<1> SUFFICES ASSUME Shape, SkipSection PROVE Shape'
    OBVIOUS
<1>1. TypeOK /\ LeaveSection /\ UNCHANGED <<doc, read, sections>>
    BY DEF Shape, SkipSection, reader
<1>2. /\ section' \in 1..Len(sections') /\ taken' \in 0..Len(Paragraphs')
      /\ groups' \in Seq(Group)
      /\ group' \in Nat \ {0} /\ phase' \in {"grouping", "ended"}
      /\ outcome' \in {"none", "empty", "blank", "chunked"}
    BY <1>1, LeaveSectionShape
<1>3. UNCHANGED <<rest, pieces, final, index, chunks>>
    BY DEF SkipSection, splitter
<1>4. TypeOK'
    BY <1>1, <1>2, <1>3 DEF TypeOK, Group
<1>5. InStep'
    BY <1>2 DEF InStep
<1> QED BY <1>4, <1>5 DEF Shape

\* A sentence has no boundary inside, and a piece gets one only if it still fits.
LEMMA TakeSentenceShape ==
    Shape /\ TakeSentence => Shape' /\ (CutsOnlyGiants => CutsOnlyGiants')
<1> SUFFICES ASSUME Shape, TakeSentence PROVE Shape' /\ (CutsOnlyGiants => CutsOnlyGiants')
    OBVIOUS
<1>1. PICK n \in 1..Len(rest) : \E m \in n..Len(rest) :
          /\ FirstSentence(rest, n, m)
          /\ pieces' = IF pieces # <<>> /\ Joins(pieces[Len(pieces)], SubSeq(rest, 1, n))
                       THEN WithLast(pieces, pieces[Len(pieces)] \o <<White>> \o SubSeq(rest, 1, n))
                       ELSE Append(pieces, SubSeq(rest, 1, n))
          /\ rest' = SubSeq(rest, m + 1, Len(rest))
    BY DEF TakeSentence
<1>2. PICK m \in n..Len(rest) :
          /\ FirstSentence(rest, n, m)
          /\ pieces' = IF pieces # <<>> /\ Joins(pieces[Len(pieces)], SubSeq(rest, 1, n))
                       THEN WithLast(pieces, pieces[Len(pieces)] \o <<White>> \o SubSeq(rest, 1, n))
                       ELSE Append(pieces, SubSeq(rest, 1, n))
          /\ rest' = SubSeq(rest, m + 1, Len(rest))
    BY <1>1
<1>3. rest \in Text /\ pieces \in Seq(Text) /\ Len(rest) \in Nat
    BY TextFacts DEF Shape, TypeOK
<1> DEFINE sentence == SubSeq(rest, 1, n)
           last == pieces[Len(pieces)]
           joined == last \o <<White>> \o sentence
<1>4. /\ sentence \in Text /\ Len(sentence) = n
      /\ \A i \in 1..n : sentence[i] = rest[i]
    BY <1>3, SubSeqProperties DEF Text
<1>5. \A i \in DOMAIN sentence : ~Boundary(sentence, i)
    <2> SUFFICES ASSUME NEW i \in 1..n, Boundary(sentence, i) PROVE FALSE
        BY <1>4, TextFacts
    <2>1. i \in 1..(n - 1) /\ sentence[i] \in Stops /\ sentence[i + 1] = White
        BY <1>4 DEF Boundary
    <2>2. rest[i] \in Stops /\ rest[i + 1] = White /\ i \in 1..(Len(rest) - 1)
        BY <2>1, <1>3, <1>4
    <2> QED BY <2>1, <2>2, <1>2 DEF FirstSentence, Boundary
<1>6. rest' \in Text
    <2>1. rest' = SubSeq(rest, m + 1, Len(rest)) /\ m \in Nat
        BY <1>2
    <2> QED BY <2>1, <1>3, SubSeqProperties DEF Text
<1>7. pieces' \in Seq(Text) /\ (CutsOnlyGiants => CutsOnlyGiants')
    <2> HIDE DEF sentence
    <2>1. CASE pieces # <<>> /\ Joins(last, sentence)
        <3>1. last \in Text
            BY <2>1, <1>3, EmptySeq, LenProperties, ElementOfSeq
        <3> HIDE DEF last
        <3>2. joined \in Text /\ Len(joined) <= MaxSafe
            BY <3>1, <1>4, <2>1, JoinFacts DEF Joins
        <3>3. pieces' = WithLast(pieces, joined)
            BY <1>2, <2>1 DEF sentence, last
        <3> HIDE DEF joined
        <3>4. /\ pieces' \in Seq(Text) /\ Len(pieces') = Len(pieces)
              /\ \A i \in DOMAIN pieces : pieces'[i] = IF i = Len(pieces) THEN joined ELSE pieces[i]
            BY <3>2, <3>3, <1>3, <2>1, WithLastProperties
        <3>5. DOMAIN pieces' = DOMAIN pieces
            BY <3>4, <1>3, LenProperties
        <3>6. \A i \in DOMAIN pieces' : Len(pieces'[i]) > MaxSafe => pieces'[i] = pieces[i]
            BY <3>2, <3>4, <3>5, SizesAssumption, TextFacts
        <3>7. CutsOnlyGiants => CutsOnlyGiants'
            BY <3>5, <3>6 DEF CutsOnlyGiants
        <3> QED BY <3>4, <3>7
    <2>2. CASE ~(pieces # <<>> /\ Joins(last, sentence))
        <3>1. pieces' = Append(pieces, sentence)
            BY <1>2, <2>2 DEF sentence
        <3>2. /\ pieces' \in Seq(Text) /\ Len(pieces') = Len(pieces) + 1
              /\ \A i \in 1..Len(pieces) : pieces'[i] = pieces[i]
              /\ pieces'[Len(pieces) + 1] = sentence
            BY <3>1, <1>3, <1>4, AppendProperties
        <3>3. DOMAIN pieces' = 1..(Len(pieces) + 1) /\ DOMAIN pieces = 1..Len(pieces)
                /\ Len(pieces) \in Nat
            BY <3>2, <1>3, LenProperties
        <3>4. \A i \in 1..(Len(pieces) + 1) : i \in 1..Len(pieces) \/ i = Len(pieces) + 1
            BY <3>3
        <3>5. CutsOnlyGiants => CutsOnlyGiants'
            BY <3>2, <3>3, <3>4, <1>5 DEF CutsOnlyGiants
        <3> QED BY <3>2, <3>5
    <2> QED BY <2>1, <2>2
<1>8. /\ UNCHANGED <<doc, phase, read, sections, section, taken, groups, group, final, index, chunks, outcome>>
      /\ phase = "splitting"
    BY DEF TakeSentence, reader, grouper
<1>9. Paragraphs' = Paragraphs
    BY <1>8 DEF Paragraphs
<1>10. TypeOK'
    BY <1>6, <1>7, <1>8, <1>9 DEF Shape, TypeOK
<1>11. InStep'
    BY <1>8 DEF Shape, InStep
<1> QED BY <1>7, <1>10, <1>11 DEF Shape

\* Every checked piece fits.
FinalFits == \A k \in DOMAIN final : Len(final[k]) <= MaxSafe

LEMMA CutPieceShape ==
    Shape /\ CutPiece =>
        Shape' /\ (FinalFits => FinalFits') /\ (CutsOnlyGiants => CutsOnlyGiants')
<1> SUFFICES ASSUME Shape, CutPiece
             PROVE  Shape' /\ (FinalFits => FinalFits') /\ (CutsOnlyGiants => CutsOnlyGiants')
    OBVIOUS
<1> DEFINE piece == Head(pieces)
<1>1. /\ pieces \in Seq(Text) /\ pieces # <<>> /\ final \in Seq(Text)
      /\ MaxSafe \in Nat /\ MaxSafe > 0 /\ phase = "splitting"
    BY SizesAssumption DEF Shape, TypeOK, CutPiece
<1>2. /\ piece \in Text /\ piece = pieces[1] /\ Tail(pieces) \in Seq(Text)
      /\ Len(Tail(pieces)) = Len(pieces) - 1 /\ Len(pieces) \in Nat \ {0}
      /\ \A i \in 1..(Len(pieces) - 1) : Tail(pieces)[i] = pieces[i + 1]
    BY <1>1, EmptySeq, HeadTailProperties
<1>3. Len(piece) \in Nat /\ piece \in Seq(Chars)
    BY <1>2, TextFacts DEF Text
<1>4. Window(piece) \in Text /\ Len(Window(piece)) <= MaxSafe
    <2>1. CASE Len(piece) <= MaxSafe
        <3>1. Window(piece) = SubSeq(piece, 1, Len(piece))
            BY <2>1 DEF Window
        <3> HIDE DEF piece
        <3>2. SubSeq(piece, 1, Len(piece)) = piece
            BY <1>3, SubSeqFull
        <3> QED BY <3>1, <3>2, <2>1, <1>3 DEF Text
    <2>2. CASE ~(Len(piece) <= MaxSafe)
        <3>1. Window(piece) = SubSeq(piece, 1, MaxSafe)
            BY <2>2 DEF Window
        <3> HIDE DEF piece
        <3>2. MaxSafe \in 1..Len(piece) /\ 1 \in 1..Len(piece)
            BY <1>1, <1>3, <2>2
        <3>3. SubSeq(piece, 1, MaxSafe) \in Seq(Chars) /\ Len(SubSeq(piece, 1, MaxSafe)) = MaxSafe
            BY <3>2, <1>1, <1>3
        <3> QED BY <3>1, <3>3, <1>1 DEF Text
    <2> QED BY <2>1, <2>2
<1>5. final' \in Seq(Text) /\ (FinalFits => FinalFits')
    <2>1. final' = Append(final, Window(piece))
        BY DEF CutPiece
    <2>2. /\ final' \in Seq(Text) /\ Len(final') = Len(final) + 1
          /\ \A k \in 1..Len(final) : final'[k] = final[k]
          /\ final'[Len(final) + 1] = Window(piece)
        BY <2>1, <1>1, <1>4, AppendProperties
    <2>3. DOMAIN final' = 1..(Len(final) + 1) /\ DOMAIN final = 1..Len(final) /\ Len(final) \in Nat
        BY <2>2, <1>1, LenProperties
    <2>4. \A k \in 1..(Len(final) + 1) : k \in 1..Len(final) \/ k = Len(final) + 1
        BY <2>3
    <2> QED BY <2>2, <2>3, <2>4, <1>4 DEF FinalFits
<1>6. pieces' \in Seq(Text) /\ (CutsOnlyGiants => CutsOnlyGiants')
    <2>1. CASE Len(piece) <= MaxSafe
        <3>1. pieces' = Tail(pieces)
            BY <2>1 DEF CutPiece
        <3>2. \A i \in DOMAIN pieces' : i + 1 \in DOMAIN pieces /\ pieces'[i] = pieces[i + 1]
            BY <3>1, <1>1, <1>2, LenProperties
        <3> QED BY <3>1, <3>2, <1>2 DEF CutsOnlyGiants
    <2>2. CASE ~(Len(piece) <= MaxSafe)
        <3> DEFINE beyond == Beyond(piece)
        <3>1. /\ beyond \in Text /\ Len(beyond) = Len(piece) - MaxSafe
              /\ \A i \in 1..(Len(piece) - MaxSafe) : beyond[i] = piece[MaxSafe + i]
            <4>1. MaxSafe + 1 \in 1..Len(piece) /\ Len(piece) \in 1..Len(piece)
                BY <1>1, <1>3, <2>2
            <4>2. /\ SubSeq(piece, MaxSafe + 1, Len(piece)) \in Seq(Chars)
                  /\ Len(SubSeq(piece, MaxSafe + 1, Len(piece))) = Len(piece) - MaxSafe
                  /\ \A i \in 1..(Len(piece) - MaxSafe) :
                        SubSeq(piece, MaxSafe + 1, Len(piece))[i] = piece[MaxSafe + i]
                BY <4>1, <1>1, <1>3
            <4> QED BY <4>2 DEF Beyond, Text
        <3>2. pieces' = <<beyond>> \o Tail(pieces)
            BY <2>2 DEF CutPiece
        <3> HIDE DEF beyond
        <3>3. <<beyond>> \in Seq(Text) /\ Len(<<beyond>>) = 1 /\ <<beyond>>[1] = beyond
            BY <3>1
        <3>4. /\ pieces' \in Seq(Text) /\ Len(pieces') = Len(pieces)
              /\ pieces'[1] = beyond
              /\ \A i \in 2..Len(pieces) : pieces'[i] = pieces[i]
            BY <3>2, <3>3, <1>2, ConcatProperties
        <3>5. ASSUME CutsOnlyGiants PROVE CutsOnlyGiants'
            <4>1. DOMAIN pieces' = 1..Len(pieces) /\ DOMAIN pieces = 1..Len(pieces)
                BY <3>4, <1>1, LenProperties
            <4>2. \A i \in 1..Len(pieces) : i = 1 \/ i \in 2..Len(pieces)
                BY <1>2
            <4>3. \A j \in DOMAIN piece : ~Boundary(piece, j)
                <5>1. 1 \in DOMAIN pieces /\ Len(pieces[1]) > MaxSafe
                    BY <4>1, <1>1, <1>2, <1>3, <2>2
                <5>2. \A j \in DOMAIN pieces[1] : ~Boundary(pieces[1], j)
                    BY <5>1, <3>5 DEF CutsOnlyGiants
                <5> QED BY <5>2, <1>2
            <4>4. \A j \in DOMAIN beyond : ~Boundary(beyond, j)
                <5> SUFFICES ASSUME NEW j \in DOMAIN beyond, Boundary(beyond, j) PROVE FALSE
                    OBVIOUS
                <5>1. /\ j \in 1..(Len(piece) - MaxSafe - 1) /\ beyond[j] \in Stops
                      /\ beyond[j + 1] = White
                    BY <3>1 DEF Boundary
                <5>2. piece[MaxSafe + j] \in Stops /\ piece[MaxSafe + j + 1] = White
                    BY <5>1, <3>1, <1>1, <1>3
                <5>3. MaxSafe + j \in 1..(Len(piece) - 1) /\ MaxSafe + j \in DOMAIN piece
                    BY <5>1, <1>1, <1>3, TextFacts
                <5> QED BY <5>2, <5>3, <4>3 DEF Boundary
            <4> QED BY <4>1, <4>2, <4>4, <3>4, <3>5 DEF CutsOnlyGiants
        <3> QED BY <3>4, <3>5
    <2> QED BY <2>1, <2>2
<1>7. UNCHANGED <<doc, phase, read, sections, section, taken, groups, group, rest, index, chunks, outcome>>
    BY DEF CutPiece, reader, grouper
<1>8. Paragraphs' = Paragraphs
    BY <1>7 DEF Paragraphs
<1>9. TypeOK'
    BY <1>5, <1>6, <1>7, <1>8 DEF Shape, TypeOK
<1>10. InStep'
    BY <1>1, <1>7 DEF Shape, InStep
<1> QED BY <1>5, <1>6, <1>9, <1>10 DEF Shape

\* The chunks of a group differ in the last part of their ids, and from those of
\* every other group in the second.
IdsInv ==
    /\ \A i \in DOMAIN chunks : chunks[i].id[2] < index
    /\ IdsDistinct

Chunk == [id: Text \X Nat \X Nat, text: Text]

LEMMA NewChunksProperties ==
    ASSUME TypeOK
    PROVE  /\ NewChunks \in Seq(Chunk) /\ DOMAIN NewChunks = DOMAIN final
           /\ \A k \in DOMAIN final :
                 /\ NewChunks[k].text = final[k]
                 /\ NewChunks[k].id = Identity(IF Len(final) = 1 THEN 0 ELSE k)
                 /\ NewChunks[k].id[2] = index
           /\ \A k, l \in DOMAIN final : NewChunks[k].id = NewChunks[l].id => k = l
<1>1. final \in Seq(Text) /\ index \in Nat /\ Len(final) \in Nat /\ DOMAIN final = 1..Len(final)
    BY LenProperties DEF TypeOK
<1>2. Heading \in Text
    <2>1. sections \in Seq(Section) /\ section \in 1..Len(sections)
        BY DEF TypeOK, Section
    <2>2. sections[section] \in Section
        BY <2>1, ElementOfSeq
    <2> QED BY <2>2 DEF Heading, Section
<1> DEFINE part(k) == IF Len(final) = 1 THEN 0 ELSE k
           new(k) == [id |-> Identity(part(k)), text |-> final[k]]
<1>3. \A k \in Nat : /\ Identity(k) \in Text \X Nat \X Nat
                     /\ Identity(k)[2] = index /\ Identity(k)[3] = k
    BY <1>1, <1>2 DEF Identity
<1>4. \A k \in 1..Len(final) : part(k) \in Nat
    BY <1>1
<1>5. NewChunks = [k \in 1..Len(final) |-> new(k)]
    BY <1>1 DEF NewChunks
<1> HIDE DEF part
<1>6. \A k \in 1..Len(final) : new(k) \in Chunk
    BY <1>1, <1>3, <1>4, ElementOfSeq DEF Chunk
<1>7. /\ \A k \in 1..Len(final) : NewChunks[k].text = final[k] /\ NewChunks[k].id = Identity(part(k))
      /\ \A k \in 1..Len(final) : NewChunks[k].id[2] = index
    BY <1>3, <1>4, <1>5
<1>8. \A k, l \in 1..Len(final) : NewChunks[k].id = NewChunks[l].id => k = l
    <2> SUFFICES ASSUME NEW k \in 1..Len(final), NEW l \in 1..Len(final),
                        NewChunks[k].id = NewChunks[l].id
                 PROVE  k = l
        OBVIOUS
    <2>1. Identity(part(k)) = Identity(part(l))
        BY <1>7
    <2>2. part(k) = part(l)
        BY <2>1, <1>3, <1>4
    <2>3. Len(final) = 1 => k = 1 /\ l = 1
        BY <1>1
    <2> QED BY <2>2, <2>3 DEF part
<1> HIDE DEF new
<1>9. NewChunks \in Seq(Chunk)
    BY <1>1, <1>5, <1>6, IsASeq
<1>10. DOMAIN NewChunks = DOMAIN final
    BY <1>1, <1>5
<1> QED BY <1>1, <1>7, <1>8, <1>9, <1>10 DEF part

\* What a whole group adds: embeddable chunks, whose ids no earlier one has.
LEMMA AddedChunks ==
    ASSUME TypeOK, chunks' = chunks \o NewChunks, index' = index + 1,
           ~\E k \in DOMAIN final : Blank(final[k])
    PROVE  /\ chunks' \in Seq(Chunk)
           /\ (FinalFits /\ Embeddable => Embeddable')
           /\ (IdsInv => IdsInv')
<1>1. /\ chunks \in Seq(Chunk) /\ index \in Nat /\ final \in Seq(Text)
      /\ DOMAIN chunks = 1..Len(chunks) /\ Len(chunks) \in Nat
    BY LenProperties DEF TypeOK, Chunk
<1>2. /\ NewChunks \in Seq(Chunk) /\ Len(NewChunks) = Len(final)
      /\ DOMAIN final = 1..Len(final) /\ Len(final) \in Nat
    BY <1>1, NewChunksProperties, LenProperties
<1>3. /\ chunks' \in Seq(Chunk) /\ Len(chunks') = Len(chunks) + Len(final)
      /\ \A i \in 1..Len(chunks) : chunks'[i] = chunks[i]
      /\ \A k \in 1..Len(final) : chunks'[Len(chunks) + k] = NewChunks[k]
    <2> DEFINE new == NewChunks
    <2>1. new \in Seq(Chunk) /\ Len(new) = Len(final) /\ chunks' = chunks \o new
        BY <1>2
    <2> HIDE DEF new
    <2>2. /\ chunks \o new \in Seq(Chunk) /\ Len(chunks \o new) = Len(chunks) + Len(new)
          /\ \A i \in 1..Len(chunks) + Len(new) :
                (chunks \o new)[i] = IF i <= Len(chunks) THEN chunks[i] ELSE new[i - Len(chunks)]
        BY <1>1, <2>1, ConcatProperties
    <2>3. \A k \in 1..Len(final) : /\ Len(chunks) + k \in 1..Len(chunks) + Len(new)
                                   /\ ~(Len(chunks) + k <= Len(chunks))
                                   /\ (Len(chunks) + k) - Len(chunks) = k
        BY <1>1, <1>2, <2>1
    <2>4. \A k \in 1..Len(final) : chunks'[Len(chunks) + k] = new[k]
        BY <2>1, <2>2, <2>3
    <2>5. \A i \in 1..Len(chunks) : i \in 1..Len(chunks) + Len(new) /\ i <= Len(chunks)
        BY <1>1, <1>2, <2>1
    <2>6. \A i \in 1..Len(chunks) : chunks'[i] = chunks[i]
        BY <2>1, <2>2, <2>5
    <2> QED BY <2>1, <2>2, <2>4, <2>6 DEF new
<1>4. DOMAIN chunks' = 1..(Len(chunks) + Len(final))
    BY <1>3, LenProperties
<1>5. \A i \in DOMAIN chunks' :
          \/ i \in 1..Len(chunks) /\ chunks'[i] = chunks[i]
          \/ \E k \in 1..Len(final) : i = Len(chunks) + k /\ chunks'[i] = NewChunks[k]
    <2> SUFFICES ASSUME NEW i \in DOMAIN chunks', ~(i \in 1..Len(chunks))
                 PROVE  \E k \in 1..Len(final) : i = Len(chunks) + k /\ chunks'[i] = NewChunks[k]
        BY <1>3
    <2>1. i - Len(chunks) \in 1..Len(final) /\ i = Len(chunks) + (i - Len(chunks))
        BY <1>1, <1>2, <1>4
    <2> QED BY <2>1, <1>3
<1>6. FinalFits /\ Embeddable => Embeddable'
    <2>1. \A k \in 1..Len(final) : NewChunks[k].text = final[k] /\ ~Blank(final[k])
        BY <1>2, NewChunksProperties
    <2> SUFFICES ASSUME FinalFits, Embeddable, NEW i \in DOMAIN chunks'
                 PROVE  Len(chunks'[i].text) <= MaxSafe /\ ~Blank(chunks'[i].text)
        BY DEF Embeddable, Blank
    <2>2. CASE i \in 1..Len(chunks) /\ chunks'[i] = chunks[i]
        BY <2>2, <1>1 DEF Embeddable
    <2>3. CASE \E k \in 1..Len(final) : i = Len(chunks) + k /\ chunks'[i] = NewChunks[k]
        BY <2>1, <2>3, <1>2 DEF FinalFits
    <2> QED BY <2>2, <2>3, <1>5
<1>7. ASSUME IdsInv PROVE IdsInv'
    <2>1. \A k \in 1..Len(final) : NewChunks[k].id[2] = index
        BY <1>2, NewChunksProperties
    <2>2. \A i \in 1..Len(chunks) : chunks[i].id[2] < index /\ chunks[i].id[2] \in Nat
        <3>1. \A i \in 1..Len(chunks) : chunks[i] \in Chunk
            BY <1>1, ElementOfSeq
        <3> QED BY <3>1, <1>1, <1>7 DEF IdsInv, Chunk
    <2>3. \A i \in DOMAIN chunks' : chunks'[i].id[2] < index'
        BY <1>1, <1>5, <2>1, <2>2
    <2>4. IdsDistinct'
        <3> SUFFICES ASSUME NEW i \in DOMAIN chunks', NEW j \in DOMAIN chunks',
                            chunks'[i].id = chunks'[j].id
                     PROVE  i = j
            BY DEF IdsDistinct
        <3> DEFINE old(x) == x \in 1..Len(chunks) /\ chunks'[x] = chunks[x]
                   new(x) == \E k \in 1..Len(final) : x = Len(chunks) + k /\ chunks'[x] = NewChunks[k]
        <3>1. CASE old(i) /\ old(j)
            BY <3>1, <1>1, <1>7 DEF IdsInv, IdsDistinct
        <3>2. \A x : old(x) => chunks'[x].id[2] < index /\ chunks'[x].id[2] \in Nat
            BY <2>2
        <3>3. \A x : new(x) => chunks'[x].id[2] = index
            BY <2>1
        <3>5. ~(old(i) /\ new(j)) /\ ~(new(i) /\ old(j))
            <4>1. chunks'[i].id[2] = chunks'[j].id[2]
                OBVIOUS
            <4>2. /\ old(i) => chunks'[i].id[2] < index /\ chunks'[i].id[2] \in Nat
                  /\ old(j) => chunks'[j].id[2] < index /\ chunks'[j].id[2] \in Nat
                  /\ new(i) => chunks'[i].id[2] = index
                  /\ new(j) => chunks'[j].id[2] = index
                BY <3>2, <3>3
            <4> HIDE DEF old, new
            <4> DEFINE a == chunks'[i].id[2]
                       b == chunks'[j].id[2]
            <4> HIDE DEF a, b
            <4>3. /\ a = b
                  /\ old(i) => a < index /\ a \in Nat
                  /\ old(j) => b < index /\ b \in Nat
                  /\ new(i) => a = index
                  /\ new(j) => b = index
                BY <4>1, <4>2 DEF a, b
            <4>4. ~(a < index /\ a \in Nat /\ b = index) /\ ~(b < index /\ b \in Nat /\ a = index)
                BY <4>3, <1>1
            <4> QED BY <4>3, <4>4
        <3>4. CASE new(i) /\ new(j)
            <4>1. PICK k \in 1..Len(final) : i = Len(chunks) + k /\ chunks'[i] = NewChunks[k]
                BY <3>4
            <4>2. PICK l \in 1..Len(final) : j = Len(chunks) + l /\ chunks'[j] = NewChunks[l]
                BY <3>4
            <4>3. NewChunks[k].id = NewChunks[l].id
                BY <4>1, <4>2
            <4>4. k \in DOMAIN final /\ l \in DOMAIN final
                BY <1>2
            <4>5. k = l
                BY <4>3, <4>4, NewChunksProperties
            <4> QED BY <4>1, <4>2, <4>5
        <3>6. (old(i) \/ new(i)) /\ (old(j) \/ new(j))
            BY <1>5
        <3> QED BY <3>1, <3>4, <3>5, <3>6
    <2> QED BY <2>3, <2>4 DEF IdsInv
<1> QED BY <1>3, <1>6, <1>7

\* All of it is inductive together.
Inv ==
    /\ Shape
    /\ GroupsFit /\ CutsOnlyGiants
    /\ FinalFits /\ Embeddable
    /\ IdsInv

LEMMA MakeChunksInv == Inv /\ MakeChunks => Inv'
<1> SUFFICES ASSUME Inv, MakeChunks PROVE Inv'
    OBVIOUS
<1>1. /\ TypeOK /\ phase = "splitting" /\ group \in 1..Len(groups)
      /\ groups \in Seq(Group) /\ Len(groups) \in Nat /\ index \in Nat
      /\ chunks \in Seq(Chunk)
    BY LenProperties DEF Inv, Shape, TypeOK, InStep, MakeChunks, Group, Chunk
<1>2. UNCHANGED <<doc, read, sections>>
    BY DEF MakeChunks, reader
<1>3. CASE \E k \in DOMAIN final : Blank(final[k])
    <2>1. /\ UNCHANGED <<section, taken, groups, group, rest, pieces, final, index>>
          /\ phase' = "ended" /\ outcome' = "blank" /\ chunks' = <<>>
        BY <1>3 DEF MakeChunks, Refuse, grouper, splitter
    <2>2. chunks' \in Seq(Chunk) /\ DOMAIN chunks' = {}
        BY <2>1
    <2>3. Paragraphs' = Paragraphs
        BY <1>2, <2>1 DEF Paragraphs
    <2>4. TypeOK'
        BY <1>1, <1>2, <2>1, <2>2, <2>3 DEF TypeOK, Chunk
    <2>5. InStep'
        BY <2>1 DEF InStep
    <2>6. GroupsFit' /\ CutsOnlyGiants' /\ FinalFits'
        BY <2>1 DEF Inv, GroupsFit, CutsOnlyGiants, FinalFits
    <2>7. Embeddable' /\ IdsInv'
        BY <2>2 DEF Embeddable, IdsInv, IdsDistinct
    <2> QED BY <2>4, <2>5, <2>6, <2>7 DEF Inv, Shape
<1>4. CASE ~\E k \in DOMAIN final : Blank(final[k])
    <2>1. chunks' = chunks \o NewChunks /\ index' = index + 1
        BY <1>4 DEF MakeChunks
    <2>2. chunks' \in Seq(Chunk) /\ Embeddable' /\ IdsInv'
        BY <1>1, <1>4, <2>1, AddedChunks DEF Inv
    <2>3. CASE group < Len(groups)
        <3>1. StartGroup(group + 1) /\ UNCHANGED <<section, taken, groups, outcome>>
            BY <1>4, <2>3 DEF MakeChunks
        <3>2. group + 1 \in 1..Len(groups)
            BY <1>1, <2>3
        <3>3. /\ group' = group + 1 /\ phase' = "splitting" /\ final' = <<>>
              /\ rest' \in Text /\ pieces' \in Seq(Text)
              /\ \A i \in DOMAIN pieces' : Len(pieces'[i]) <= MaxSafe
            BY <1>1, <3>1, <3>2, StartGroupShape
        <3>4. Paragraphs' = Paragraphs
            BY <1>2, <3>1 DEF Paragraphs
        <3>5. final' \in Seq(Text) /\ DOMAIN final' = {}
            BY <3>3
        <3>6. TypeOK'
            BY <1>1, <1>2, <2>1, <2>2, <3>1, <3>2, <3>3, <3>4, <3>5 DEF TypeOK, Chunk
        <3>7. InStep'
            BY <3>1, <3>2, <3>3 DEF InStep
        <3>8. GroupsFit' /\ FinalFits'
            BY <3>1, <3>5 DEF Inv, GroupsFit, FinalFits
        <3>9. CutsOnlyGiants'
            <4>1. \A i \in DOMAIN pieces' : pieces'[i] \in Text
                BY <3>3, LenProperties, ElementOfSeq
            <4>2. \A i \in DOMAIN pieces' : ~(Len(pieces'[i]) > MaxSafe)
                BY <3>3, <4>1, SizesAssumption, TextFacts
            <4> QED BY <4>2 DEF CutsOnlyGiants
        <3> QED BY <2>2, <3>6, <3>7, <3>8, <3>9 DEF Inv, Shape
    <2>4. CASE ~(group < Len(groups))
        <3>1. LeaveSection /\ UNCHANGED <<rest, pieces, final>>
            BY <1>4, <2>4 DEF MakeChunks, splitter
        <3>2. /\ section' \in 1..Len(sections') /\ taken' \in 0..Len(Paragraphs')
              /\ groups' \in Seq(Group) /\ (groups' = groups \/ groups' = <<>>)
              /\ group' \in Nat \ {0} /\ phase' \in {"grouping", "ended"}
              /\ outcome' \in {"none", "empty", "blank", "chunked"}
            BY <1>1, <1>2, <3>1, LeaveSectionShape
        <3>3. TypeOK'
            BY <1>1, <1>2, <2>1, <2>2, <3>1, <3>2 DEF TypeOK, Group, Chunk
        <3>4. InStep'
            BY <3>2 DEF InStep
        <3>5. GroupsFit'
            BY <3>2 DEF Inv, GroupsFit
        <3>6. CutsOnlyGiants' /\ FinalFits'
            BY <3>1 DEF Inv, CutsOnlyGiants, FinalFits
        <3> QED BY <2>2, <3>3, <3>4, <3>5, <3>6 DEF Inv, Shape
    <2> QED BY <2>3, <2>4
<1> QED BY <1>3, <1>4

LEMMA InitInv == Init => Inv
<1> SUFFICES ASSUME Init PROVE Inv
    OBVIOUS
<1>1. groups = <<>> /\ pieces = <<>> /\ final = <<>> /\ chunks = <<>>
    BY DEF Init
<1>2. DOMAIN <<>> = {}
    OBVIOUS
<1> QED BY <1>1, <1>2, InitShape
        DEF Inv, GroupsFit, CutsOnlyGiants, FinalFits, Embeddable, IdsInv, IdsDistinct

LEMMA NextInv == Inv /\ [Next]_vars => Inv'
<1> SUFFICES ASSUME Inv, [Next]_vars PROVE Inv'
    OBVIOUS
<1>1. CASE ReadLine
    <2>1. Shape'
        BY <1>1, ReadLineShape DEF Inv
    <2>2. UNCHANGED <<groups, pieces, final, chunks, index>>
        BY <1>1 DEF ReadLine, grouper, splitter
    <2> QED BY <2>1, <2>2 DEF Inv, GroupsFit, CutsOnlyGiants, FinalFits, Embeddable, IdsInv, IdsDistinct
<1>2. CASE ReadParagraph
    <2>1. Shape'
        BY <1>2, ReadParagraphShape DEF Inv
    <2>2. UNCHANGED <<groups, pieces, final, chunks, index>>
        BY <1>2 DEF ReadParagraph, grouper, splitter
    <2> QED BY <2>1, <2>2 DEF Inv, GroupsFit, CutsOnlyGiants, FinalFits, Embeddable, IdsInv, IdsDistinct
<1>3. CASE EndReading
    <2>1. Shape'
        BY <1>3, EndReadingShape DEF Inv
    <2>2. UNCHANGED <<groups, pieces, final, index>> /\ (chunks' = chunks \/ chunks' = <<>>)
        BY <1>3 DEF EndReading, Refuse, grouper, splitter
    <2>3. DOMAIN <<>> = {}
        OBVIOUS
    <2>4. GroupsFit' /\ CutsOnlyGiants' /\ FinalFits'
        BY <2>2 DEF Inv, GroupsFit, CutsOnlyGiants, FinalFits
    <2>5. Embeddable' /\ IdsInv'
        BY <2>2, <2>3 DEF Inv, Embeddable, IdsInv, IdsDistinct
    <2> QED BY <2>1, <2>4, <2>5 DEF Inv
<1>4. CASE TakeParagraph
    <2>1. Shape' /\ GroupsFit'
        BY <1>4, TakeParagraphShape DEF Inv
    <2>2. UNCHANGED <<pieces, final, chunks, index>>
        BY <1>4 DEF TakeParagraph, splitter
    <2> QED BY <2>1, <2>2 DEF Inv, CutsOnlyGiants, FinalFits, Embeddable, IdsInv, IdsDistinct
<1>5. CASE EndGrouping
    <2>1. Shape'
        BY <1>5, EndGroupingShape DEF Inv
    <2>2. UNCHANGED <<groups, chunks, index>>
        BY <1>5 DEF EndGrouping
    <2>3. TypeOK /\ StartGroup(1) /\ 1 \in 1..Len(groups)
        <3>1. groups \in Seq(Group) /\ groups # <<>>
            BY <1>5 DEF Inv, Shape, TypeOK, Group, EndGrouping
        <3> QED BY <1>5, <3>1, EmptySeq DEF Inv, Shape, EndGrouping
    <2>4. /\ final' = <<>> /\ pieces' \in Seq(Text)
          /\ \A i \in DOMAIN pieces' : Len(pieces'[i]) <= MaxSafe
        BY <2>3, StartGroupShape
    <2>5. CutsOnlyGiants'
        <3>1. \A i \in DOMAIN pieces' : pieces'[i] \in Text
            BY <2>4, LenProperties, ElementOfSeq
        <3>2. \A i \in DOMAIN pieces' : ~(Len(pieces'[i]) > MaxSafe)
            BY <2>4, <3>1, SizesAssumption, TextFacts
        <3> QED BY <3>2 DEF CutsOnlyGiants
    <2>6. FinalFits'
        BY <2>4 DEF FinalFits
    <2> QED BY <2>1, <2>2, <2>5, <2>6 DEF Inv, GroupsFit, Embeddable, IdsInv, IdsDistinct
<1>6. CASE SkipSection
    <2>1. Shape'
        BY <1>6, SkipSectionShape DEF Inv
    <2>2. UNCHANGED <<pieces, final, chunks, index>>
        BY <1>6 DEF SkipSection, splitter
    <2>3. groups' = groups \/ groups' = <<>>
        BY <1>6 DEF SkipSection, LeaveSection, grouper
    <2>4. GroupsFit'
        BY <2>3 DEF Inv, GroupsFit
    <2> QED BY <2>1, <2>2, <2>4 DEF Inv, CutsOnlyGiants, FinalFits, Embeddable, IdsInv, IdsDistinct
<1>7. CASE TakeSentence
    <2>1. Shape' /\ CutsOnlyGiants'
        BY <1>7, TakeSentenceShape DEF Inv
    <2>2. UNCHANGED <<groups, final, chunks, index>>
        BY <1>7 DEF TakeSentence, grouper
    <2> QED BY <2>1, <2>2 DEF Inv, GroupsFit, FinalFits, Embeddable, IdsInv, IdsDistinct
<1>8. CASE CutPiece
    <2>1. Shape' /\ FinalFits' /\ CutsOnlyGiants'
        BY <1>8, CutPieceShape DEF Inv
    <2>2. UNCHANGED <<groups, chunks, index>>
        BY <1>8 DEF CutPiece, grouper
    <2> QED BY <2>1, <2>2 DEF Inv, GroupsFit, Embeddable, IdsInv, IdsDistinct
<1>9. CASE MakeChunks
    BY <1>9, MakeChunksInv
<1>10. CASE UNCHANGED vars
    <2>1. UNCHANGED <<doc, phase, read, sections, section, taken, groups, group,
                      rest, pieces, final, index, chunks, outcome>>
        BY <1>10 DEF vars, reader, grouper, splitter
    <2>2. TypeOK'
        BY <2>1 DEF Inv, Shape, TypeOK, Paragraphs
    <2>3. InStep'
        BY <2>1 DEF Inv, Shape, InStep, OpenParagraph, Blank
    <2> QED BY <2>1, <2>2, <2>3
            DEF Inv, Shape, GroupsFit, CutsOnlyGiants, FinalFits, Embeddable, IdsInv, IdsDistinct
<1> QED BY <1>1, <1>2, <1>3, <1>4, <1>5, <1>6, <1>7, <1>8, <1>9, <1>10 DEF Next

LEMMA InvHolds == Spec => []Inv
<1> QED BY InitInv, NextInv, PTL DEF Spec
-----------------------------------------------------------------------------
(* FlattenSeq adds up. *)

\* f[i] is the concatenation of the first i sequences of ss.
Sums(f, ss, S, n) ==
    /\ \A i \in 0..n : f[i] \in Seq(S)
    /\ f[0] = <<>>
    /\ \A i \in 1..n : f[i] = f[i - 1] \o ss[i]

\* There are such sums, and they are what FlattenSeq adds up, whatever the
\* set of the elements is taken to be.
LEMMA SumsExist ==
    ASSUME NEW S, NEW ss \in Seq(Seq(S))
    PROVE  \E f : Sums(f, ss, S, Len(ss))
<1> DEFINE bad == {n \in 0..Len(ss) : ~\E f : Sums(f, ss, S, n)}
<1>1. Len(ss) \in Nat /\ \A i \in 1..Len(ss) : ss[i] \in Seq(S)
    BY LenProperties, ElementOfSeq
<1>2. SUFFICES ASSUME bad # {} PROVE FALSE
    <2>1. Len(ss) \in 0..Len(ss)
        BY <1>1
    <2> QED BY <2>1
<1>3. PICK n \in bad : \A m \in bad : n <= m
    <2>1. bad \in SUBSET Nat
        BY <1>1
    <2> QED BY <2>1, <1>2, Least
<1>4. n # 0
    <2> DEFINE f == [i \in 0..0 |-> <<>>]
    <2>1. Sums(f, ss, S, 0)
        BY DEF Sums
    <2> QED BY <2>1
<1>5. n - 1 \in 0..Len(ss) /\ n - 1 \notin bad /\ n \in 1..Len(ss)
    <2>1. n \in 0..Len(ss) /\ (n - 1 \in bad => n <= n - 1)
        BY <1>3
    <2> HIDE DEF bad
    <2> QED BY <1>1, <1>4, <2>1
<1>6. PICK f : Sums(f, ss, S, n - 1)
    BY <1>5
<1> DEFINE g == [i \in 0..n |-> IF i = n THEN f[n - 1] \o ss[n] ELSE f[i]]
<1>7. Sums(g, ss, S, n)
    <2>1. f[n - 1] \o ss[n] \in Seq(S)
        BY <1>1, <1>5, <1>6, ConcatProperties DEF Sums
    <2>2. \A i \in 0..n : g[i] \in Seq(S)
        BY <2>1, <1>5, <1>6 DEF Sums
    <2>3. g[0] = <<>>
        BY <1>5, <1>6 DEF Sums
    <2>4. \A i \in 1..n : g[i] = g[i - 1] \o ss[i]
        <3> SUFFICES ASSUME NEW i \in 1..n PROVE g[i] = g[i - 1] \o ss[i]
            OBVIOUS
        <3>1. n \in Nat /\ i - 1 \in 0..n /\ i - 1 # n /\ g[i - 1] = f[i - 1]
            BY <1>5
        <3>4. g[i] = IF i = n THEN f[n - 1] \o ss[n] ELSE f[i]
            BY <3>1
        <3> HIDE DEF g
        <3>2. CASE i = n
            BY <3>1, <3>2, <3>4
        <3>3. CASE i # n
            <4>1. i \in 1..(n - 1)
                BY <3>1, <3>3
            <4>2. f[i] = f[i - 1] \o ss[i]
                BY <4>1, <1>6 DEF Sums
            <4> QED BY <3>1, <3>3, <3>4, <4>2
        <3> QED BY <3>2, <3>3
    <2> QED BY <2>2, <2>3, <2>4 DEF Sums
<1> QED BY <1>3, <1>7

\* And only one list of them.
LEMMA SumsUnique ==
    ASSUME NEW S, NEW T, NEW n \in Nat, NEW ss, NEW tt, NEW f, NEW g,
           Sums(f, ss, S, n), Sums(g, tt, T, n), \A i \in 1..n : ss[i] = tt[i]
    PROVE  \A i \in 0..n : f[i] = g[i]
<1> DEFINE bad == {i \in 0..n : f[i] # g[i]}
<1>1. SUFFICES ASSUME bad # {} PROVE FALSE
    OBVIOUS
<1>2. PICK i \in bad : \A j \in bad : i <= j
    <2>1. bad \in SUBSET Nat
        OBVIOUS
    <2> QED BY <2>1, <1>1, Least
<1>3. i # 0
    BY DEF Sums
<1>4. i \in 1..n /\ i - 1 \in 0..n /\ i - 1 \notin bad
    BY <1>2, <1>3
<1>5. f[i] = g[i]
    BY <1>4 DEF Sums
<1> QED BY <1>5, <1>2

\* FlattenSeq is the last sum.
LEMMA FlattenIsSum ==
    ASSUME NEW S, NEW ss \in Seq(Seq(S)), NEW f, Sums(f, ss, S, Len(ss))
    PROVE  FlattenSeq(ss) = f[Len(ss)] 
<1>1. Len(ss) \in Nat /\ ss \in [1..Len(ss) -> Seq(S)]
    BY LenProperties, ElementOfSeq
<1>2. CASE Len(ss) = 0
    <2>1. ss = <<>>
        BY <1>2, EmptySeq
    <2> QED BY <1>2, <2>1 DEF FlattenSeq, Sums
<1>3. CASE Len(ss) # 0
    <2> DEFINE flatten == CHOOSE g : g = [i \in 1..Len(ss) |-> IF i = 1 THEN ss[i] ELSE g[i - 1] \o ss[i]]
               h == [i \in 1..Len(ss) |-> f[i]]
    <2>1. FlattenSeq(ss) = flatten[Len(ss)]
        BY <1>3 DEF FlattenSeq
    <2>2. h = [i \in 1..Len(ss) |-> IF i = 1 THEN ss[i] ELSE h[i - 1] \o ss[i]]
        <3>1. \A i \in 1..Len(ss) : h[i] = IF i = 1 THEN ss[i] ELSE h[i - 1] \o ss[i]
            <4> SUFFICES ASSUME NEW i \in 1..Len(ss) PROVE h[i] = IF i = 1 THEN ss[i] ELSE h[i - 1] \o ss[i]
                OBVIOUS
            <4>1. CASE i = 1
                <5>0. 1 \in 1..Len(ss) /\ 1 - 1 = 0
                    BY <1>1, <1>3
                <5>1. f[1] = <<>> \o ss[1] /\ ss[1] \in Seq(S)
                    <6>1. f[1] = f[1 - 1] \o ss[1] /\ f[0] = <<>>
                        BY <5>0 DEF Sums
                    <6> QED BY <5>0, <6>1, <1>1
                <5> QED BY <4>1, <5>1, ConcatEmptySeq
            <4>2. CASE i # 1
                <5>1. i - 1 \in 1..Len(ss)
                    BY <1>1, <4>2
                <5> QED BY <5>1, <4>2 DEF Sums
            <4> QED BY <4>1, <4>2
        <3> QED BY <3>1
    <2> HIDE DEF h
    <2>3. flatten = [i \in 1..Len(ss) |-> IF i = 1 THEN ss[i] ELSE flatten[i - 1] \o ss[i]]
        BY <2>2
    <2> HIDE DEF flatten
    <2> DEFINE g == [i \in 0..Len(ss) |-> IF i = 0 THEN <<>> ELSE flatten[i]]
               bad == {i \in 0..Len(ss) : g[i] # f[i]}
    <2>4. bad = {}
        <3> SUFFICES ASSUME bad # {} PROVE FALSE
            OBVIOUS
        <3>1. PICK i \in bad : \A j \in bad : i <= j
            <4>1. bad \in SUBSET Nat
                BY <1>1
            <4> QED BY <4>1, Least
        <3>2. i # 0
            BY DEF Sums
        <3>3. i \in 1..Len(ss) /\ i - 1 \in 0..Len(ss) /\ i - 1 \notin bad
            BY <1>1, <3>1, <3>2
        <3>4. f[i] = f[i - 1] \o ss[i] /\ g[i - 1] = f[i - 1]
            BY <3>3 DEF Sums
        <3>5. g[i] = g[i - 1] \o ss[i]
            <4>1. CASE i = 1
                <5>1. ss[1] \in Seq(S)
                    BY <1>1, <1>3
                <5>2. flatten[1] = ss[1] /\ g[0] = <<>> /\ g[1] = flatten[1]
                    BY <1>1, <1>3, <2>3
                <5>3. <<>> \o ss[1] = ss[1] /\ i - 1 = 0
                    BY <4>1, <5>1, ConcatEmptySeq
                <5> QED BY <4>1, <5>2, <5>3
            <4>2. CASE i # 1
                <5>1. i - 1 # 0 /\ i # 0
                    BY <3>3, <4>2
                <5>2. g[i] = flatten[i] /\ g[i - 1] = flatten[i - 1]
                    BY <3>3, <5>1
                <5>3. flatten[i] = flatten[i - 1] \o ss[i]
                    BY <3>3, <4>2, <2>3
                <5> QED BY <5>2, <5>3
            <4> QED BY <4>1, <4>2
        <3> QED BY <3>1, <3>4, <3>5
    <2>5. g[Len(ss)] = f[Len(ss)]
        <3>1. Len(ss) \in 0..Len(ss)
            BY <1>1
        <3> QED BY <3>1, <2>4
    <2> QED BY <1>1, <1>3, <2>1, <2>5
<1> QED BY <1>2, <1>3

LEMMA FlattenSums ==
    ASSUME NEW S, NEW ss \in Seq(Seq(S))
    PROVE  \E f : Sums(f, ss, S, Len(ss)) /\ FlattenSeq(ss) = f[Len(ss)]
<1> QED BY SumsExist, FlattenIsSum

\* What FlattenSeq makes of sequences over S is a sequence over S.
LEMMA FlattenType ==
    ASSUME NEW S, NEW ss \in Seq(Seq(S))
    PROVE  FlattenSeq(ss) \in Seq(S)
<1>1. PICK f : Sums(f, ss, S, Len(ss)) /\ FlattenSeq(ss) = f[Len(ss)]
    BY FlattenSums
<1>2. Len(ss) \in Nat
    OBVIOUS
<1> QED BY <1>1, <1>2 DEF Sums

LEMMA FlattenEmpty == FlattenSeq(<<>>) = <<>>
<1>1. Len(<<>>) = 0
    OBVIOUS
<1> QED BY <1>1 DEF FlattenSeq

\* FlattenSeq of a concatenation.
LEMMA FlattenConcat ==
    ASSUME NEW S, NEW ss \in Seq(Seq(S)), NEW tt \in Seq(Seq(S))
    PROVE  FlattenSeq(ss \o tt) = FlattenSeq(ss) \o FlattenSeq(tt)
<1> DEFINE a == Len(ss)
           b == Len(tt)
<1>1. /\ a \in Nat /\ b \in Nat /\ ss \o tt \in Seq(Seq(S)) /\ Len(ss \o tt) = a + b
      /\ \A i \in 1..a : (ss \o tt)[i] = ss[i]
      /\ \A i \in 1..b : (ss \o tt)[a + i] = tt[i]
      /\ \A i \in 1..b : tt[i] \in Seq(S)
    BY ConcatProperties, LenProperties, ElementOfSeq
<1>2. PICK f : Sums(f, ss \o tt, S, a + b) /\ FlattenSeq(ss \o tt) = f[a + b]
    BY <1>1, FlattenSums
<1>3. PICK g : Sums(g, ss, S, a) /\ FlattenSeq(ss) = g[a]
    BY FlattenSums
<1>4. PICK h : Sums(h, tt, S, b) /\ FlattenSeq(tt) = h[b]
    BY FlattenSums
<1> HIDE DEF a, b
<1>5. f[a] = g[a]
    <2>1. Sums(f, ss, S, a)
        <3>1. \A i \in 1..a : i \in 1..(a + b)
            BY <1>1
        <3>2. \A i \in 0..a : i \in 0..(a + b)
            BY <1>1
        <3>3. \A i \in 1..a : f[i] = f[i - 1] \o ss[i]
            BY <1>1, <1>2, <3>1 DEF Sums
        <3> QED BY <1>2, <3>2, <3>3 DEF Sums
    <2>2. \A i \in 0..a : f[i] = g[i]
        BY <2>1, <1>1, <1>3, SumsUnique
    <2> QED BY <2>2, <1>1
<1> DEFINE bad == {i \in 0..b : f[a + i] # f[a] \o h[i]}
<1>6. bad = {}
    <2> SUFFICES ASSUME bad # {} PROVE FALSE
        OBVIOUS
    <2>1. PICK i \in bad : \A j \in bad : i <= j
        <3>1. bad \in SUBSET Nat
            <4>1. bad \subseteq 0..b
                OBVIOUS
            <4> HIDE DEF bad
            <4> QED BY <4>1, <1>1
        <3> QED BY <3>1, Least
    <2>2. i # 0
        <3>1. f[a] \in Seq(S) /\ h[0] = <<>>
            BY <1>1, <1>2, <1>4 DEF Sums
        <3>2. a + 0 = a /\ f[a] \o <<>> = f[a]
            BY <1>1, <3>1, ConcatEmptySeq
        <3>3. f[a + 0] = f[a] \o h[0]
            BY <3>1, <3>2
        <3> QED BY <3>3
    <2>3. /\ i \in 1..b /\ i - 1 \in 0..b /\ i - 1 \notin bad
          /\ a + i \in 1..(a + b) /\ (a + i) - 1 = a + (i - 1)
        <3>1. i \in 0..b /\ (i - 1 \in bad => i <= i - 1)
            BY <2>1
        <3> HIDE DEF bad
        <3> QED BY <1>1, <2>2, <3>1
    <2>4. f[a + i] = f[a + (i - 1)] \o (ss \o tt)[a + i]
        BY <1>2, <2>3 DEF Sums
    <2>5. f[a + (i - 1)] = f[a] \o h[i - 1]
        BY <2>3
    <2>6. h[i] = h[i - 1] \o tt[i] /\ h[i - 1] \in Seq(S) /\ tt[i] \in Seq(S) /\ f[a] \in Seq(S)
        <3>1. a \in 0..(a + b)
            BY <1>1
        <3> HIDE DEF bad
        <3>2. h[i] = h[i - 1] \o tt[i] /\ h[i - 1] \in Seq(S)
            BY <1>4, <2>3 DEF Sums
        <3> QED BY <3>1, <3>2, <1>1, <1>2, <2>3 DEF Sums
    <2>7. (f[a] \o h[i - 1]) \o tt[i] = f[a] \o (h[i - 1] \o tt[i])
        <3> DEFINE x == f[a]
                   y == h[i - 1]
                   z == tt[i]
        <3>1. x \in Seq(S) /\ y \in Seq(S) /\ z \in Seq(S)
            BY <2>6
        <3> HIDE DEF x, y, z
        <3>2. (x \o y) \o z = x \o (y \o z)
            BY <3>1, ConcatAssociative
        <3> QED BY <3>2 DEF x, y, z
    <2>8. f[a + i] = f[a] \o h[i]
        BY <1>1, <2>3, <2>4, <2>5, <2>6, <2>7
    <2> QED BY <2>1, <2>8
<1>7. f[a + b] = f[a] \o h[b]
    <2>1. b \in 0..b
        BY <1>1
    <2> QED BY <1>6, <2>1
<1> QED BY <1>2, <1>3, <1>4, <1>5, <1>7

LEMMA FlattenOne ==
    ASSUME NEW S, NEW s \in Seq(S)
    PROVE  FlattenSeq(<<s>>) = s
<1>1. <<s>> \in Seq(Seq(S)) /\ Len(<<s>>) = 1 /\ <<s>>[1] = s
    OBVIOUS
<1>2. PICK f : Sums(f, <<s>>, S, 1) /\ FlattenSeq(<<s>>) = f[1]
    BY <1>1, FlattenSums
<1>3. f[1] = f[1 - 1] \o s /\ f[0] = <<>>
    BY <1>1, <1>2 DEF Sums
<1>4. <<>> \o s = s /\ 1 - 1 = 0
    BY ConcatEmptySeq
<1>5. f[1] = f[0] \o s
    BY <1>3, <1>4
<1> QED BY <1>2, <1>3, <1>4, <1>5

LEMMA FlattenAppend ==
    ASSUME NEW S, NEW ss \in Seq(Seq(S)), NEW s \in Seq(S)
    PROVE  FlattenSeq(Append(ss, s)) = FlattenSeq(ss) \o s
<1>1. Append(ss, s) = ss \o <<s>> /\ <<s>> \in Seq(Seq(S))
    BY AppendIsConcat
<1>2. FlattenSeq(ss \o <<s>>) = FlattenSeq(ss) \o FlattenSeq(<<s>>)
    BY <1>1, FlattenConcat
<1>3. FlattenSeq(<<s>>) = s
    BY FlattenOne
<1> QED BY <1>1, <1>2, <1>3

\* What all of the sequences lack, their concatenation lacks.
LEMMA FlattenOfEmpty ==
    ASSUME NEW S, NEW ss \in Seq(Seq(S)), \A i \in 1..Len(ss) : ss[i] = <<>>
    PROVE  FlattenSeq(ss) = <<>>
<1>1. PICK f : Sums(f, ss, S, Len(ss)) /\ FlattenSeq(ss) = f[Len(ss)]
    BY FlattenSums
<1> DEFINE g == [i \in 0..Len(ss) |-> <<>>]
<1>2. Sums(g, ss, S, Len(ss))
    <2>1. Len(ss) \in Nat /\ <<>> \in Seq(S) /\ <<>> \o <<>> = <<>>
        BY ConcatEmptySeq
    <2>2. \A i \in 0..Len(ss) : g[i] = <<>>
        OBVIOUS
    <2>3. \A i \in 1..Len(ss) : g[i] = <<>> /\ g[i - 1] = <<>>
        BY <2>1
    <2> HIDE DEF g
    <2>4. \A i \in 1..Len(ss) : g[i] = g[i - 1] \o ss[i]
        BY <2>1, <2>3
    <2>5. g[0] = <<>> /\ \A i \in 0..Len(ss) : g[i] \in Seq(S)
        BY <2>1, <2>2
    <2> QED BY <2>4, <2>5 DEF Sums
<1>3. Len(ss) \in Nat /\ Len(ss) \in 0..Len(ss)
    OBVIOUS
<1>4. \A i \in 0..Len(ss) : f[i] = g[i]
    BY <1>1, <1>2, <1>3, SumsUnique
<1> QED BY <1>1, <1>3, <1>4
-----------------------------------------------------------------------------
(* The operators of module Passages. *)

\* The operators that module Passages takes from Contents are those of Chunking.
LEMMA PromiseFlatten == \A s : Promise!FlattenSeq(s) = FlattenSeq(s)
<1> QED BY DEF Promise!FlattenSeq, FlattenSeq

LEMMA PromiseSublist == \A s, S : Promise!Sublist(s, S) = Sublist(s, S)
<1> QED BY PromiseFlatten DEF Promise!Sublist, Sublist

LEMMA PromiseTrimmed == \A text \in Text : Promise!Trimmed(text) = Strip(text)
<1> SUFFICES ASSUME NEW text \in Text PROVE Promise!Trimmed(text) = Strip(text)
    OBVIOUS
<1> DEFINE ink == {i \in DOMAIN text : text[i] # White}
<1>1. ink = Ink(text) /\ (Blank(text) <=> ink = {})
    BY DEF Ink, Blank
<1>2. Promise!Trimmed(text) = IF ink = {} THEN <<>> ELSE SubSeq(text, Promise!Min(ink), Promise!Max(ink))
    BY DEF Promise!Trimmed
<1>3. Promise!Min(ink) = CHOOSE i \in ink : \A j \in ink : i <= j
    BY DEF Promise!Min
<1>4. Promise!Max(ink) = CHOOSE i \in ink : \A j \in ink : j <= i
    BY DEF Promise!Max
<1> HIDE DEF ink
<1>5. Strip(text) = IF ink = {} THEN <<>> ELSE SubSeq(text, CHOOSE i \in ink : \A j \in ink : i <= j,
                      CHOOSE i \in ink : \A j \in ink : j <= i)
    BY <1>1 DEF Strip
<1> QED BY <1>2, <1>3, <1>4, <1>5
-----------------------------------------------------------------------------
(* Lists by comprehension. *)

\* What a list by comprehension is made of.
Kept(seq, S) == [i \in DOMAIN seq |-> IF i \in S THEN <<seq[i]>> ELSE <<>>]

LEMMA KeptType ==
    ASSUME NEW T, NEW seq \in Seq(T), NEW S
    PROVE  /\ Kept(seq, S) \in Seq(Seq(T)) /\ Len(Kept(seq, S)) = Len(seq)
           /\ \A i \in 1..Len(seq) : Kept(seq, S)[i] = IF i \in S THEN <<seq[i]>> ELSE <<>>
           /\ Sublist(seq, S) = FlattenSeq(Kept(seq, S))
<1>1. Len(seq) \in Nat /\ DOMAIN seq = 1..Len(seq)
    BY LenProperties
<1>2. \A i \in 1..Len(seq) : (IF i \in S THEN <<seq[i]>> ELSE <<>>) \in Seq(T)
    <2> SUFFICES ASSUME NEW i \in 1..Len(seq) PROVE (IF i \in S THEN <<seq[i]>> ELSE <<>>) \in Seq(T)
        OBVIOUS
    <2>1. seq[i] \in T
        BY ElementOfSeq
    <2>2. <<seq[i]>> \in Seq(T) /\ <<>> \in Seq(T)
        BY <2>1
    <2> QED BY <2>2
<1>3. Kept(seq, S) = [i \in 1..Len(seq) |-> IF i \in S THEN <<seq[i]>> ELSE <<>>]
    BY <1>1 DEF Kept
<1>4. Kept(seq, S) \in Seq(Seq(T))
    BY <1>1, <1>2, <1>3, IsASeq
<1>5. Len(Kept(seq, S)) = Len(seq)
    BY <1>1, <1>3, <1>4, LenProperties
<1> QED BY <1>3, <1>4, <1>5 DEF Sublist, Kept

LEMMA SublistType ==
    ASSUME NEW T, NEW seq \in Seq(T), NEW S
    PROVE  Sublist(seq, S) \in Seq(T)
<1> QED BY KeptType, FlattenType

\* Only what is at the numbers of S matters.
LEMMA SublistSame ==
    ASSUME NEW T, NEW s \in Seq(T), NEW t \in Seq(T), NEW S, NEW U, Len(s) = Len(t),
           \A i \in 1..Len(s) : (i \in S <=> i \in U) /\ (i \in S => s[i] = t[i])
    PROVE  Sublist(s, S) = Sublist(t, U)
<1>5. /\ Kept(s, S) \in Seq(Seq(T)) /\ Len(Kept(s, S)) = Len(s)
      /\ \A i \in 1..Len(s) : Kept(s, S)[i] = IF i \in S THEN <<s[i]>> ELSE <<>>
    BY KeptType
<1>6. /\ Kept(t, U) \in Seq(Seq(T)) /\ Len(Kept(t, U)) = Len(s)
      /\ \A i \in 1..Len(s) : Kept(t, U)[i] = IF i \in U THEN <<t[i]>> ELSE <<>>
    BY KeptType
<1>1. \A i \in 1..Len(s) : Kept(s, S)[i] = Kept(t, U)[i]
    BY <1>5, <1>6
<1>2. Kept(s, S) \in Seq(Seq(T)) /\ Kept(t, U) \in Seq(Seq(T)) /\ Len(Kept(s, S)) = Len(s) /\ Len(Kept(t, U)) = Len(s)
    BY <1>5, <1>6
<1>3. Kept(s, S) = Kept(t, U)
    BY <1>1, <1>2, SeqEqual
<1>4. Sublist(s, S) = FlattenSeq(Kept(s, S)) /\ Sublist(t, U) = FlattenSeq(Kept(t, U))
    BY KeptType
<1> QED BY <1>3, <1>4

\* The numbers of S as a sequence that starts after n sees them.
After(S, n) == {i \in Nat : n + i \in S}

\* A sublist of a concatenation, in two parts.
LEMMA SublistConcat ==
    ASSUME NEW T, NEW s \in Seq(T), NEW t \in Seq(T), NEW S
    PROVE  Sublist(s \o t, S) = Sublist(s, S) \o Sublist(t, After(S, Len(s)))
<1> DEFINE U == S
           V == After(S, Len(s))
<1>a. \A i \in 1..Len(s) : i \in S <=> i \in U
    OBVIOUS
<1>b. \A i \in 1..Len(t) : (Len(s) + i) \in S <=> i \in V
    BY DEF After
<1> HIDE DEF U, V
<1>1. /\ s \o t \in Seq(T) /\ Len(s \o t) = Len(s) + Len(t) /\ Len(s) \in Nat /\ Len(t) \in Nat
      /\ \A i \in 1..(Len(s) + Len(t)) : (s \o t)[i] = IF i <= Len(s) THEN s[i] ELSE t[i - Len(s)]
    BY ConcatProperties, LenProperties
<1> DEFINE a == Kept(s \o t, S)
           b == Kept(s, U)
           c == Kept(t, V)
<1>2. /\ a \in Seq(Seq(T)) /\ b \in Seq(Seq(T)) /\ c \in Seq(Seq(T))
      /\ Len(a) = Len(s) + Len(t) /\ Len(b) = Len(s) /\ Len(c) = Len(t)
      /\ \A i \in 1..(Len(s) + Len(t)) : a[i] = IF i \in S THEN <<(s \o t)[i]>> ELSE <<>>
      /\ \A i \in 1..Len(s) : b[i] = IF i \in U THEN <<s[i]>> ELSE <<>>
      /\ \A i \in 1..Len(t) : c[i] = IF i \in V THEN <<t[i]>> ELSE <<>>
    <2>1. /\ a \in Seq(Seq(T)) /\ Len(a) = Len(s \o t)
          /\ \A i \in 1..Len(s \o t) : a[i] = IF i \in S THEN <<(s \o t)[i]>> ELSE <<>>
        <3> DEFINE st == s \o t
        <3>1. st \in Seq(T)
            BY <1>1
        <3> HIDE DEF st
        <3>2. /\ Kept(st, S) \in Seq(Seq(T)) /\ Len(Kept(st, S)) = Len(st)
              /\ \A i \in 1..Len(st) : Kept(st, S)[i] = IF i \in S THEN <<st[i]>> ELSE <<>>
            BY <3>1, KeptType
        <3> QED BY <3>2 DEF st
    <2>2. /\ b \in Seq(Seq(T)) /\ Len(b) = Len(s)
          /\ \A i \in 1..Len(s) : b[i] = IF i \in U THEN <<s[i]>> ELSE <<>>
        BY KeptType
    <2>3. /\ c \in Seq(Seq(T)) /\ Len(c) = Len(t)
          /\ \A i \in 1..Len(t) : c[i] = IF i \in V THEN <<t[i]>> ELSE <<>>
        BY KeptType
    <2> HIDE DEF a, b, c
    <2> QED BY <2>1, <2>2, <2>3, <1>1
<1>3. /\ Sublist(s \o t, S) = FlattenSeq(a) /\ Sublist(s, U) = FlattenSeq(b)
      /\ Sublist(t, V) = FlattenSeq(c)
    BY <1>1, KeptType
<1> HIDE DEF a, b, c
<1>4. /\ b \o c \in Seq(Seq(T)) /\ Len(b \o c) = Len(s) + Len(t)
      /\ \A i \in 1..(Len(s) + Len(t)) : (b \o c)[i] = IF i <= Len(s) THEN b[i] ELSE c[i - Len(s)]
    <2>1. /\ b \o c \in Seq(Seq(T)) /\ Len(b \o c) = Len(b) + Len(c)
          /\ \A i \in 1..(Len(b) + Len(c)) : (b \o c)[i] = IF i <= Len(b) THEN b[i] ELSE c[i - Len(b)]
        <3>1. b \in Seq(Seq(T)) /\ c \in Seq(Seq(T))
            BY <1>2
        <3> QED BY <3>1, ConcatProperties
    <2> QED BY <1>2, <2>1
<1>5. \A i \in 1..(Len(s) + Len(t)) : a[i] = (b \o c)[i]
    <2> SUFFICES ASSUME NEW i \in 1..(Len(s) + Len(t)) PROVE a[i] = (b \o c)[i]
        OBVIOUS
    <2>1. CASE i <= Len(s)
        <3>1. i \in 1..Len(s)
            BY <1>1, <2>1
        <3> QED BY <3>1, <2>1, <1>a, <1>1, <1>2, <1>4
    <2>2. CASE ~(i <= Len(s))
        <3>1. i - Len(s) \in 1..Len(t) /\ Len(s) + (i - Len(s)) = i
            BY <1>1, <2>2
        <3>2. i \in S <=> i - Len(s) \in V
            BY <3>1, <1>b
        <3> QED BY <3>1, <3>2, <2>2, <1>1, <1>2, <1>4
    <2> QED BY <2>1, <2>2
<1>6. a = b \o c
    BY <1>2, <1>4, <1>5, SeqEqual
<1>7. FlattenSeq(b \o c) = FlattenSeq(b) \o FlattenSeq(c)
    BY <1>2, FlattenConcat
<1> QED BY <1>3, <1>6, <1>7 DEF U, V

LEMMA SublistNone ==
    ASSUME NEW T, NEW seq \in Seq(T), NEW S, \A i \in 1..Len(seq) : i \notin S
    PROVE  Sublist(seq, S) = <<>>
<1>1. \A i \in 1..Len(seq) : Kept(seq, S)[i] = <<>>
    BY KeptType
<1>2. Kept(seq, S) \in Seq(Seq(T)) /\ Len(Kept(seq, S)) = Len(seq) /\ Sublist(seq, S) = FlattenSeq(Kept(seq, S))
    BY KeptType
<1> QED BY <1>1, <1>2, FlattenOfEmpty

LEMMA SublistOne ==
    ASSUME NEW T, NEW x \in T, NEW S
    PROVE  Sublist(<<x>>, S) = IF 1 \in S THEN <<x>> ELSE <<>>
<1>1. <<x>> \in Seq(T) /\ Len(<<x>>) = 1 /\ <<x>>[1] = x
    OBVIOUS
<1> DEFINE y == IF 1 \in S THEN <<x>> ELSE <<>>
<1>2. y \in Seq(T)
    BY <1>1
<1>3. /\ Kept(<<x>>, S) \in Seq(Seq(T)) /\ Len(Kept(<<x>>, S)) = 1
      /\ Kept(<<x>>, S)[1] = y /\ Sublist(<<x>>, S) = FlattenSeq(Kept(<<x>>, S))
    <2> DEFINE one == <<x>>
    <2>1. one \in Seq(T) /\ Len(one) = 1 /\ one[1] = x
        BY <1>1
    <2> HIDE DEF one
    <2>2. /\ Kept(one, S) \in Seq(Seq(T)) /\ Len(Kept(one, S)) = Len(one)
          /\ \A i \in 1..Len(one) : Kept(one, S)[i] = IF i \in S THEN <<one[i]>> ELSE <<>>
          /\ Sublist(one, S) = FlattenSeq(Kept(one, S))
        BY <2>1, KeptType
    <2>3. Kept(one, S)[1] = IF 1 \in S THEN <<one[1]>> ELSE <<>>
        BY <2>1, <2>2
    <2> QED BY <2>1, <2>2, <2>3 DEF one
<1> HIDE DEF y
<1>4. Kept(<<x>>, S) = <<y>>
    <2>1. <<y>> \in Seq(Seq(T)) /\ Len(<<y>>) = 1 /\ <<y>>[1] = y
        BY <1>2
    <2> QED BY <2>1, <1>3, SeqEqual
<1>5. FlattenSeq(<<y>>) = y
    BY <1>2, FlattenOne
<1> QED BY <1>3, <1>4, <1>5 DEF y

\* An element at the end is in it, or not.
LEMMA SublistAppend ==
    ASSUME NEW T, NEW seq \in Seq(T), NEW x \in T, NEW S
    PROVE  Sublist(Append(seq, x), S) =
              IF Len(seq) + 1 \in S THEN Append(Sublist(seq, S), x) ELSE Sublist(seq, S)
<1> DEFINE b == <<x>>
           V == After(S, Len(seq))
<1>1. /\ b \in Seq(T) /\ Len(b) = 1 /\ Append(seq, x) = seq \o b /\ Sublist(seq, S) \in Seq(T)
      /\ Len(seq) \in Nat
    BY AppendIsConcat, SublistType
<1>2. Sublist(b, V) = IF 1 \in V THEN b ELSE <<>>
    BY SublistOne
<1>5. 1 \in V <=> Len(seq) + 1 \in S
    BY DEF After
<1> HIDE DEF b, V
<1>6. Sublist(seq \o b, S) = Sublist(seq, S) \o Sublist(b, V)
    BY <1>1, SublistConcat DEF V
<1>7. Sublist(seq, S) \o <<>> = Sublist(seq, S) /\ Sublist(seq, S) \o b = Append(Sublist(seq, S), x)
    BY <1>1, ConcatEmptySeq, AppendIsConcat DEF b
<1> QED BY <1>1, <1>2, <1>5, <1>6, <1>7

\* The last one that is kept can be told apart from those before.
LEMMA SublistLast ==
    ASSUME NEW T, NEW seq \in Seq(T), NEW S, NEW m \in 1..Len(seq), m \in S,
           \A i \in 1..Len(seq) : i \in S => i <= m
    PROVE  Sublist(seq, S) = Append(Sublist(SubSeq(seq, 1, m - 1), S), seq[m])
<1> DEFINE a == SubSeq(seq, 1, m - 1)
           b == SubSeq(seq, 1, m)
           c == SubSeq(seq, m + 1, Len(seq))
<1>1. Len(seq) \in Nat /\ seq[m] \in T /\ m \in Nat
    BY ElementOfSeq, LenProperties
<1>2. a \in Seq(T) /\ Len(a) = m - 1
    BY <1>1, SubSeqProperties, ElementOfSeq
<1>3. c \in Seq(T) /\ Len(c) = Len(seq) - m
    BY <1>1, SubSeqProperties, ElementOfSeq
<1>4. b = Append(a, seq[m]) /\ b \in Seq(T) /\ Len(b) = m
    <2>1. SubSeq(seq, 1, m) = SubSeq(seq, 1, m - 1) \o <<seq[m]>>
        BY <1>1, SubSeqRecursiveSecond
    <2>2. a \o <<seq[m]>> = Append(a, seq[m])
        BY <1>1, <1>2, AppendIsConcat
    <2>3. b = Append(a, seq[m])
        BY <2>1, <2>2
    <2> HIDE DEF a, b
    <2> QED BY <1>1, <1>2, <2>3, AppendProperties
<1>5. seq = b \o c
    <2>1. SubSeq(seq, 1, m) \o SubSeq(seq, m + 1, Len(seq)) = SubSeq(seq, 1, Len(seq))
        BY <1>1, ConcatAdjacentSubSeq
    <2>2. SubSeq(seq, 1, Len(seq)) = seq
        BY SubSeqFull
    <2> QED BY <2>1, <2>2
<1>6. \A i \in 1..Len(c) : ~((Len(b) + i) \in S)
    BY <1>1, <1>3, <1>4
<1>7. Sublist(b \o c, S) = Sublist(b, S) \o Sublist(c, After(S, Len(b)))
    <2> HIDE DEF b, c
    <2> QED BY <1>3, <1>4, SublistConcat
<1>8. Sublist(c, After(S, Len(b))) = <<>> /\ Sublist(b, S) \in Seq(T)
    <2>1. \A i \in 1..Len(c) : i \notin After(S, Len(b))
        BY <1>6 DEF After
    <2> HIDE DEF b, c
    <2>2. Sublist(c, After(S, Len(b))) = <<>>
        BY <2>1, <1>3, SublistNone
    <2> QED BY <2>2, <1>4, SublistType
<1>9. Sublist(b, S) \o <<>> = Sublist(b, S)
    BY <1>8, ConcatEmptySeq
<1> HIDE DEF a, b, c
<1>10. Sublist(b, S) = Append(Sublist(a, S), seq[m])
    <2>1. Len(a) + 1 = m
        BY <1>1, <1>2
    <2> QED BY <2>1, <1>1, <1>2, <1>4, SublistAppend
<1> QED BY <1>5, <1>7, <1>8, <1>9, <1>10 DEF a

\* What seq has of V, in order.
Among(seq, V) == Sublist(seq, {i \in DOMAIN seq : seq[i] \in V})

LEMMA AmongConcat ==
    ASSUME NEW T, NEW s \in Seq(T), NEW t \in Seq(T), NEW V
    PROVE  Among(s \o t, V) = Among(s, V) \o Among(t, V)
<1>1. /\ s \o t \in Seq(T)
      /\ Len(s \o t) = Len(s) + Len(t) /\ Len(s) \in Nat /\ Len(t) \in Nat
      /\ \A i \in 1..(Len(s) + Len(t)) : (s \o t)[i] = IF i <= Len(s) THEN s[i] ELSE t[i - Len(s)]
      /\ DOMAIN (s \o t) = 1..(Len(s) + Len(t)) /\ DOMAIN s = 1..Len(s) /\ DOMAIN t = 1..Len(t)
    BY ConcatProperties, LenProperties
<1> DEFINE a == {i \in DOMAIN (s \o t) : (s \o t)[i] \in V}
           b == {i \in DOMAIN s : s[i] \in V}
           c == {i \in DOMAIN t : t[i] \in V}
<1>2. \A i \in 1..Len(s) : i \in a <=> i \in b
    <2> SUFFICES ASSUME NEW i \in 1..Len(s) PROVE i \in a <=> i \in b
        OBVIOUS
    <2>1. i \in 1..(Len(s) + Len(t)) /\ (s \o t)[i] = s[i]
        BY <1>1
    <2> QED BY <2>1, <1>1
<1>3. \A i \in 1..Len(t) : i \in After(a, Len(s)) <=> i \in c
    <2> SUFFICES ASSUME NEW i \in 1..Len(t) PROVE i \in After(a, Len(s)) <=> i \in c
        OBVIOUS
    <2>1. /\ Len(s) + i \in 1..(Len(s) + Len(t)) /\ ~(Len(s) + i <= Len(s)) /\ (Len(s) + i) - Len(s) = i
          /\ i \in Nat
        BY <1>1
    <2>2. (s \o t)[Len(s) + i] = t[i]
        BY <2>1, <1>1
    <2> QED BY <2>1, <2>2, <1>1 DEF After
<1> HIDE DEF a, b, c
<1>4. Sublist(s \o t, a) = Sublist(s, a) \o Sublist(t, After(a, Len(s)))
    BY SublistConcat
<1>5. Sublist(s, a) = Sublist(s, b)
    BY <1>2, SublistSame
<1>6. Sublist(t, After(a, Len(s))) = Sublist(t, c)
    BY <1>3, SublistSame
<1> QED BY <1>4, <1>5, <1>6 DEF Among, a, b, c

LEMMA AmongType ==
    ASSUME NEW T, NEW seq \in Seq(T), NEW V
    PROVE  Among(seq, V) \in Seq(T)
<1> QED BY SublistType DEF Among

LEMMA AmongNone ==
    ASSUME NEW T, NEW seq \in Seq(T), NEW V, \A i \in 1..Len(seq) : seq[i] \notin V
    PROVE  Among(seq, V) = <<>>
<1> QED BY SublistNone DEF Among

LEMMA AmongOne ==
    ASSUME NEW T, NEW x \in T, NEW V
    PROVE  Among(<<x>>, V) = IF x \in V THEN <<x>> ELSE <<>>
<1> DEFINE S == {i \in DOMAIN <<x>> : <<x>>[i] \in V}
<1>1. 1 \in S <=> x \in V
    OBVIOUS
<1> HIDE DEF S
<1>2. Sublist(<<x>>, S) = IF 1 \in S THEN <<x>> ELSE <<>>
    BY SublistOne
<1> QED BY <1>1, <1>2 DEF Among, S
-----------------------------------------------------------------------------
(* The ink of a text, and of several. *)

\* The characters of a text that are not white space.
Inked(text) == Among(text, Chars \ {White})

LEMMA PromiseInk == \A text \in Text : Promise!InkOf(text) = Inked(text)
<1> SUFFICES ASSUME NEW text \in Text PROVE Promise!InkOf(text) = Inked(text)
    OBVIOUS
<1>1. \A i \in DOMAIN text : text[i] \in Chars
    BY LenProperties, ElementOfSeq DEF Text
<1>2. {i \in DOMAIN text : text[i] # White} = {i \in DOMAIN text : text[i] \in Chars \ {White}}
    BY <1>1
<1> QED BY <1>2, PromiseSublist DEF Promise!InkOf, Inked, Among

\* Ink is kept by concatenation, and white space has none.
LEMMA InkedFacts ==
    /\ \A s \in Text : Inked(s) \in Text
    /\ \A s, t \in Text : Inked(s \o t) = Inked(s) \o Inked(t)
    /\ \A s \in Text : Blank(s) => Inked(s) = <<>>
<1>1. \A s \in Text : Inked(s) \in Text
    BY AmongType DEF Text, Inked
<1>2. \A s, t \in Text : Inked(s \o t) = Inked(s) \o Inked(t)
    BY AmongConcat DEF Text, Inked
<1>3. \A s \in Text : Blank(s) => Inked(s) = <<>>
    <2> SUFFICES ASSUME NEW s \in Text, Blank(s) PROVE Inked(s) = <<>>
        OBVIOUS
    <2>1. \A i \in 1..Len(s) : s[i] \notin Chars \ {White}
        BY TextFacts DEF Blank
    <2>2. s \in Seq(Chars)
        BY DEF Text
    <2> DEFINE V == Chars \ {White}
    <2>3. \A i \in 1..Len(s) : s[i] \notin V
        BY <2>1
    <2> HIDE DEF V
    <2>4. Among(s, V) = <<>>
        BY <2>2, <2>3, AmongNone
    <2> QED BY <2>4 DEF Inked, V
<1> QED BY <1>1, <1>2, <1>3

LEMMA TextConcat ==
    /\ \A s \in Text : s \o <<>> = s /\ <<>> \o s = s
    /\ \A s, t, u \in Text : (s \o t) \o u = s \o (t \o u)
<1>1. \A s \in Text : s \o <<>> = s /\ <<>> \o s = s
    BY ConcatEmptySeq DEF Text
<1>2. \A s, t, u \in Text : (s \o t) \o u = s \o (t \o u)
    BY ConcatAssociative DEF Text
<1> QED BY <1>1, <1>2

\* Four texts, concatenated in three ways.
Regrouped(a, b, x, y) ==
    /\ a \o (b \o x) \o y = a \o b \o (x \o y)
    /\ a \o ((b \o x) \o y) = a \o b \o (x \o y)

LEMMA Regroup ==
    ASSUME NEW a, NEW b, NEW x, NEW y, a \in Text, b \in Text, x \in Text, y \in Text
    PROVE  Regrouped(a, b, x, y)
<1> DEFINE ab == a \o b
           bx == b \o x
<1>1. ab \in Text /\ bx \in Text
    BY TextFacts
<1>2. a \o (b \o x) = (a \o b) \o x
    BY TextConcat
<1> HIDE DEF ab
<1>3. ab \o (x \o y) = (ab \o x) \o y
    BY <1>1, TextConcat
<1> HIDE DEF bx
<1>4. a \o (bx \o y) = (a \o bx) \o y
    BY <1>1, TextConcat
<1> QED BY <1>2, <1>3, <1>4 DEF ab, bx, Regrouped

\* White space between two texts has no ink.
LEMMA InkedAround ==
    ASSUME NEW s \in Text, NEW w \in Text, NEW t \in Text, Blank(w)
    PROVE  Inked(s \o w \o t) = Inked(s) \o Inked(t)
<1>1. s \o w \in Text /\ Inked(s) \in Text
    BY TextFacts, InkedFacts
<1>2. Inked((s \o w) \o t) = Inked(s \o w) \o Inked(t)
    BY <1>1, InkedFacts
<1>3. Inked(s \o w) = Inked(s) \o Inked(w) /\ Inked(w) = <<>>
    BY InkedFacts
<1> QED BY <1>1, <1>2, <1>3, TextConcat

\* The ink of several texts, one after the other.
InkedAll(texts) == FlattenSeq([k \in DOMAIN texts |-> Inked(texts[k])])

Inks(texts) == [k \in DOMAIN texts |-> Inked(texts[k])]

LEMMA InksProperties ==
    ASSUME NEW texts \in Seq(Text)
    PROVE  /\ Inks(texts) \in Seq(Text) /\ Len(Inks(texts)) = Len(texts)
           /\ \A k \in 1..Len(texts) : Inks(texts)[k] = Inked(texts[k])
           /\ InkedAll(texts) = FlattenSeq(Inks(texts)) /\ InkedAll(texts) \in Text
<1>1. Len(texts) \in Nat /\ DOMAIN texts = 1..Len(texts)
    BY LenProperties
<1>2. \A k \in 1..Len(texts) : Inked(texts[k]) \in Text
    BY ElementOfSeq, InkedFacts
<1>3. Inks(texts) = [k \in 1..Len(texts) |-> Inked(texts[k])]
    BY <1>1 DEF Inks
<1>4. Inks(texts) \in Seq(Text)
    BY <1>1, <1>2, <1>3, IsASeq
<1>5. Len(Inks(texts)) = Len(texts)
    BY <1>1, <1>3, <1>4, LenProperties
<1>6. InkedAll(texts) = FlattenSeq(Inks(texts))
    BY DEF InkedAll, Inks
<1>7. FlattenSeq(Inks(texts)) \in Text
    BY <1>4, FlattenType DEF Text
<1> QED BY <1>3, <1>4, <1>5, <1>6, <1>7

LEMMA InkedAllConcat ==
    ASSUME NEW s \in Seq(Text), NEW t \in Seq(Text)
    PROVE  InkedAll(s \o t) = InkedAll(s) \o InkedAll(t)
<1>1. /\ s \o t \in Seq(Text) /\ Len(s \o t) = Len(s) + Len(t) /\ Len(s) \in Nat /\ Len(t) \in Nat
      /\ \A i \in 1..(Len(s) + Len(t)) : (s \o t)[i] = IF i <= Len(s) THEN s[i] ELSE t[i - Len(s)]
    BY ConcatProperties, LenProperties
<1> DEFINE a == Inks(s)
           b == Inks(t)
           st == s \o t
           c == Inks(st)
<1>2. a \in Seq(Text) /\ Len(a) = Len(s) /\ (\A k \in 1..Len(s) : a[k] = Inked(s[k])) /\ InkedAll(s) = FlattenSeq(a)
    BY InksProperties
<1>3. b \in Seq(Text) /\ Len(b) = Len(t) /\ (\A k \in 1..Len(t) : b[k] = Inked(t[k])) /\ InkedAll(t) = FlattenSeq(b)
    BY InksProperties
<1>4. /\ c \in Seq(Text) /\ Len(c) = Len(s) + Len(t) /\ InkedAll(st) = FlattenSeq(c)
      /\ \A k \in 1..(Len(s) + Len(t)) : c[k] = Inked(st[k])
    <2>1. st \in Seq(Text) /\ Len(st) = Len(s) + Len(t)
        BY <1>1
    <2> HIDE DEF st
    <2> QED BY <2>1, InksProperties
<1> HIDE DEF a, b, c
<1>5. /\ a \o b \in Seq(Text) /\ Len(a \o b) = Len(s) + Len(t)
      /\ \A i \in 1..(Len(s) + Len(t)) : (a \o b)[i] = IF i <= Len(s) THEN a[i] ELSE b[i - Len(s)]
    <2>1. a \in Seq(Text) /\ b \in Seq(Text)
        BY <1>2, <1>3
    <2>2. /\ a \o b \in Seq(Text) /\ Len(a \o b) = Len(a) + Len(b)
          /\ \A i \in 1..(Len(a) + Len(b)) : (a \o b)[i] = IF i <= Len(a) THEN a[i] ELSE b[i - Len(a)]
        BY <2>1, ConcatProperties
    <2> QED BY <2>2, <1>2, <1>3
<1>6. \A i \in 1..(Len(s) + Len(t)) : c[i] = (a \o b)[i]
    <2> SUFFICES ASSUME NEW i \in 1..(Len(s) + Len(t)) PROVE c[i] = (a \o b)[i]
        OBVIOUS
    <2>1. CASE i <= Len(s)
        <3>1. i \in 1..Len(s)
            BY <1>1, <2>1
        <3> QED BY <3>1, <2>1, <1>1, <1>2, <1>4, <1>5
    <2>2. CASE ~(i <= Len(s))
        <3>1. i - Len(s) \in 1..Len(t)
            BY <1>1, <2>2
        <3> QED BY <3>1, <2>2, <1>1, <1>3, <1>4, <1>5
    <2> QED BY <2>1, <2>2
<1>7. c = a \o b
    BY <1>4, <1>5, <1>6, SeqEqual
<1>8. FlattenSeq(a \o b) = FlattenSeq(a) \o FlattenSeq(b)
    BY <1>2, <1>3, FlattenConcat DEF Text
<1> QED BY <1>2, <1>3, <1>4, <1>7, <1>8

LEMMA InkedAllFacts ==
    /\ InkedAll(<<>>) = <<>>
    /\ \A t \in Text : InkedAll(<<t>>) = Inked(t)
    /\ \A s \in Seq(Text), t \in Text : InkedAll(Append(s, t)) = InkedAll(s) \o Inked(t)
<1>1. InkedAll(<<>>) = <<>>
    <2>1. Inks(<<>>) = <<>>
        BY DEF Inks
    <2> QED BY <2>1, FlattenEmpty DEF InkedAll, Inks
<1>2. ASSUME NEW t \in Text PROVE InkedAll(<<t>>) = Inked(t)
    <2> DEFINE one == <<t>>
    <2>1. one \in Seq(Text) /\ Len(one) = 1 /\ one[1] = t
        OBVIOUS
    <2> HIDE DEF one
    <2>2. Inks(one) \in Seq(Text) /\ Len(Inks(one)) = 1 /\ Inks(one)[1] = Inked(t) /\ InkedAll(one) = FlattenSeq(Inks(one))
        BY <2>1, InksProperties
    <2>3. Inks(one) = <<Inked(t)>>
        <3>1. Inked(t) \in Text
            BY InkedFacts
        <3>2. <<Inked(t)>> \in Seq(Text) /\ Len(<<Inked(t)>>) = 1 /\ <<Inked(t)>>[1] = Inked(t)
            BY <3>1
        <3> QED BY <3>2, <2>2, SeqEqual
    <2>4. FlattenSeq(<<Inked(t)>>) = Inked(t)
        BY InkedFacts, FlattenOne DEF Text
    <2> QED BY <2>2, <2>3, <2>4 DEF one
<1>3. ASSUME NEW s \in Seq(Text), NEW t \in Text PROVE InkedAll(Append(s, t)) = InkedAll(s) \o Inked(t)
    <2>1. <<t>> \in Seq(Text) /\ Append(s, t) = s \o <<t>>
        BY AppendIsConcat
    <2>2. InkedAll(s \o <<t>>) = InkedAll(s) \o InkedAll(<<t>>)
        BY <2>1, InkedAllConcat
    <2> QED BY <2>1, <2>2, <1>2
<1> QED BY <1>1, <1>2, <1>3

\* The ink of texts put one after the other.
LEMMA InkedFlatten ==
    ASSUME NEW s \in Seq(Text), NEW t \in Text
    PROVE  Inked(FlattenSeq(Append(s, t))) = Inked(FlattenSeq(s)) \o Inked(t)
<1>1. FlattenSeq(Append(s, t)) = FlattenSeq(s) \o t /\ FlattenSeq(s) \in Text
    BY FlattenAppend, FlattenType DEF Text
<1> QED BY <1>1, InkedFacts
-----------------------------------------------------------------------------
(* What the loops keep, that the promise is kept by. *)

\* Text that begins and ends with ink.
Solid(text) == text # <<>> /\ text[1] # White /\ text[Len(text)] # White

\* No paragraph is blank, and from the end of reading on none has white space
\* around it.
SectionsSolid ==
    \A k \in DOMAIN sections :
        /\ sections[k].heading = NoHeading \/ Solid(sections[k].heading)
        /\ \A i \in DOMAIN sections[k].paragraphs :
              /\ ~Blank(sections[k].paragraphs[i])
              /\ phase # "reading" \/ doc.kind = "docx" => Solid(sections[k].paragraphs[i])

\* The part that the first n lines have in the run that starts at i.
RunPart(i, n) ==
    FlattenSeq([j \in 1..n |-> IF j \in Promise!Run(doc, i) THEN <<White>> \o doc.lines[j].text ELSE <<>>])

RunParts(n) == [i \in 1..n |-> RunPart(i, n)]

\* Every paragraph after a character of white space.
Led(paragraphs) == [k \in DOMAIN paragraphs |-> <<White>> \o paragraphs[k]]

\* What they have in the section that starts at line s.
SectionPart(s, n) ==
    [heading |-> IF s = 1 THEN <<>> ELSE Strip(doc.lines[s - 1].text),
     paragraphs |-> Sublist([i \in 1..n |-> Strip(doc.lines[i].text)], Promise!Under(doc, s))]

SectionParts(n) == [s \in 1..(n + 1) |-> SectionPart(s, n)]

\* What is read is what the lines read so far have in the sections of the
\* document.
ReadSoFar ==
    phase = "reading" =>
        IF doc.kind = "docx"
        THEN sections = Sublist(SectionParts(read), Promise!Starts(doc))
        ELSE /\ Len(sections) = 1 /\ sections[1].heading = NoHeading
             /\ Led(sections[1].paragraphs) = Sublist(RunParts(read), Promise!RunStarts(doc))

\* White space as long as a chunk.
HasVoid(text) ==
    \E i \in DOMAIN text : /\ i + MaxSafe - 1 <= Len(text)
                           /\ \A j \in i..(i + MaxSafe - 1) : text[j] = White

\* What a group has of its section.
Whereof(g) ==
    /\ g.first <= g.last /\ g.last <= Len(Paragraphs)
    /\ Solid(g.text)
    /\ Inked(g.text) = Inked(FlattenSeq(SubSeq(Paragraphs, g.first, g.last)))
    /\ HasVoid(g.text) => \E j \in g.first..g.last : HasVoid(Paragraphs[j])

\* The groups take the paragraphs of the section in order, each one once.
GroupsInOrder ==
    /\ groups = <<>> => taken = 0
    /\ groups # <<>> => groups[1].first = 1 /\ groups[Len(groups)].last = taken
    /\ \A i \in 1..(Len(groups) - 1) : groups[i + 1].first = groups[i].last + 1
    /\ \A i \in DOMAIN groups : Whereof(groups[i])

\* If a section before this one had paragraphs, there are chunks.
Grouped ==
    phase \in {"grouping", "splitting"} =>
        /\ GroupsInOrder
        /\ \E k \in DOMAIN sections : sections[k].paragraphs # <<>>
        /\ (\E k \in 1..(section - 1) : sections[k].paragraphs # <<>>) => chunks # <<>>

\* part is somewhere in text.
Within(part, text) ==
    \E d \in 0..(Len(text) - Len(part)) : \A k \in DOMAIN part : part[k] = text[d + k]

\* A piece of a text: where it may be cut anywhere it is a part of the text.
Piece(text, whole) ==
    /\ text # <<>> /\ text[Len(text)] # White
    /\ Len(text) > MaxSafe => Within(text, whole)

\* text is the end of whole.
Rest(text, whole) ==
    /\ text # <<>> => text[1] # White
    /\ Len(text) <= Len(whole)
    /\ \A k \in DOMAIN text : text[k] = whole[(Len(whole) - Len(text)) + k]

\* Nothing of whole is lost or moved while it is cut: it is in fin, parts and tail.
Cut(fin, parts, tail, whole) ==
    /\ InkedAll(fin) \o InkedAll(parts) \o Inked(tail) = Inked(whole)
    /\ Rest(tail, whole)
    /\ \A i \in DOMAIN parts : Piece(parts[i], whole)
    /\ \A k \in DOMAIN fin : Blank(fin[k]) => Len(fin[k]) = MaxSafe /\ Within(fin[k], whole)
    /\ tail # <<>> \/ parts # <<>> \/ fin # <<>>

Split ==
    phase = "splitting" =>
        /\ taken = Len(Paragraphs)
        /\ Cut(final, pieces, rest, Whole(groups[group]))

Running == phase # "ended" => outcome = "none"
-----------------------------------------------------------------------------
(* Text without white space around it. *)

LEMMA SolidFacts ==
    \A t \in Text : Solid(t) => /\ ~Blank(t) /\ Strip(t) = t /\ Len(t) \in Nat \ {0}
<1> SUFFICES ASSUME NEW t \in Text, Solid(t)
             PROVE  ~Blank(t) /\ Strip(t) = t /\ Len(t) \in Nat \ {0}
    OBVIOUS
<1>1. Len(t) \in Nat \ {0} /\ DOMAIN t = 1..Len(t)
    BY TextFacts, EmptySeq DEF Text, Solid
<1>2. 1 \in Ink(t) /\ Len(t) \in Ink(t) /\ Ink(t) \subseteq 1..Len(t)
    BY <1>1 DEF Ink, Solid
<1>3. ~Blank(t)
    BY <1>1 DEF Blank, Solid
<1>4. PICK i, j \in Ink(t) : /\ \A k \in Ink(t) : i <= k /\ k <= j
                             /\ Strip(t) = SubSeq(t, i, j)
    BY <1>3, InkSpan
<1>5. i = 1 /\ j = Len(t)
    <2>1. i <= 1 /\ Len(t) <= j
        BY <1>2, <1>4
    <2>2. i \in 1..Len(t) /\ j \in 1..Len(t)
        BY <1>2
    <2>3. Len(t) \in Nat
        BY <1>1
    <2> QED BY <2>1, <2>2, <2>3
<1>6. SubSeq(t, 1, Len(t)) = t
    BY SubSeqFull DEF Text
<1> QED BY <1>1, <1>3, <1>4, <1>5, <1>6

LEMMA StripSolid ==
    \A t \in Text : ~Blank(t) => Solid(Strip(t)) /\ Strip(t) \in Text
<1> SUFFICES ASSUME NEW t \in Text, ~Blank(t) PROVE Solid(Strip(t)) /\ Strip(t) \in Text
    OBVIOUS
<1>1. PICK i, j \in Ink(t) : /\ \A k \in Ink(t) : i <= k /\ k <= j
                             /\ Strip(t) = SubSeq(t, i, j)
    BY InkSpan
<1>2. i \in 1..Len(t) /\ j \in 1..Len(t) /\ Len(t) \in Nat /\ t[i] # White /\ t[j] # White /\ i <= j
    BY <1>1, TextFacts DEF Ink
<1>3. /\ SubSeq(t, i, j) \in Seq(Chars) /\ Len(SubSeq(t, i, j)) = j - i + 1
      /\ \A k \in 1..(j - i + 1) : SubSeq(t, i, j)[k] = t[i + k - 1]
    BY <1>2, SubSeqProperties, ElementOfSeq DEF Text
<1> DEFINE s == SubSeq(t, i, j)
<1>4. s[1] = t[i] /\ s[Len(s)] = t[j]
    <2>1. 1 \in 1..(j - i + 1) /\ (j - i + 1) \in 1..(j - i + 1) /\ i + 1 - 1 = i /\ i + (j - i + 1) - 1 = j
        BY <1>2
    <2> QED BY <2>1, <1>3
<1>5. s # <<>>
    <2>1. Len(s) # 0
        BY <1>2, <1>3
    <2> HIDE DEF s
    <2> QED BY <2>1
<1> QED BY <1>1, <1>2, <1>3, <1>4, <1>5 DEF Solid, Text

LEMMA BlankStrip == \A t \in Text : Strip(t) = <<>> <=> Blank(t)
<1> QED BY StripSolid DEF Strip, Solid

\* White space in front is not told apart from none.
LEMMA StripLed == \A t \in Text : Strip(<<White>> \o t) = Strip(t)
<1> SUFFICES ASSUME NEW t \in Text PROVE Strip(<<White>> \o t) = Strip(t)
    OBVIOUS
<1> DEFINE w == <<White>>
           u == w \o t
<1>1. w \in Seq(Chars) /\ Len(w) = 1 /\ w[1] = White
    BY CharsAssumption
<1> HIDE DEF w
<1>2. /\ u \in Seq(Chars) /\ Len(u) = 1 + Len(t) /\ Len(t) \in Nat
      /\ \A i \in 1..(1 + Len(t)) : u[i] = IF i <= 1 THEN w[i] ELSE t[i - 1]
      /\ DOMAIN t = 1..Len(t) /\ DOMAIN u = 1..(1 + Len(t))
    <2>1. /\ u \in Seq(Chars) /\ Len(u) = Len(w) + Len(t)
          /\ \A i \in 1..(Len(w) + Len(t)) : u[i] = IF i <= Len(w) THEN w[i] ELSE t[i - Len(w)]
        BY <1>1, ConcatProperties DEF Text
    <2> HIDE DEF u
    <2> QED BY <2>1, <1>1, LenProperties DEF Text
<1> HIDE DEF u
<1>3. u[1] = White /\ \A k \in 1..Len(t) : u[k + 1] = t[k]
    <2>1. \A k \in 1..Len(t) : k + 1 \in 1..(1 + Len(t)) /\ ~(k + 1 <= 1) /\ (k + 1) - 1 = k
        BY <1>2
    <2>2. 1 \in 1..(1 + Len(t)) /\ 1 <= 1
        BY <1>2
    <2> QED BY <2>1, <2>2, <1>1, <1>2
<1>4. \A k \in DOMAIN u : k = 1 \/ (k - 1 \in 1..Len(t) /\ (k - 1) + 1 = k)
    BY <1>2
<1>5. CASE Blank(t)
    <2>1. Blank(u)
        BY <1>2, <1>3, <1>4, <1>5 DEF Blank
    <2> QED BY <2>1, <1>5 DEF Strip, u, w
<1>6. CASE ~Blank(t)
    <2>1. Ink(u) = {k + 1 : k \in Ink(t)}
        <3>1. \A k \in Ink(u) : \E l \in Ink(t) : k = l + 1
            <4> SUFFICES ASSUME NEW k \in Ink(u) PROVE k - 1 \in Ink(t) /\ k = (k - 1) + 1
                OBVIOUS
            <4>1. k \in DOMAIN u /\ u[k] # White
                BY DEF Ink
            <4>2. k # 1
                BY <4>1, <1>3
            <4> QED BY <4>1, <4>2, <1>2, <1>3, <1>4 DEF Ink
        <3>2. \A l \in Ink(t) : l + 1 \in Ink(u)
            <4> SUFFICES ASSUME NEW l \in Ink(t) PROVE l + 1 \in Ink(u)
                OBVIOUS
            <4>1. l \in 1..Len(t) /\ t[l] # White
                BY <1>2 DEF Ink
            <4> QED BY <4>1, <1>2, <1>3 DEF Ink
        <3> QED BY <3>1, <3>2
    <2>2. ~Blank(u)
        BY <1>2, <1>3, <1>6 DEF Blank
    <2>3. u \in Text
        BY <1>2 DEF Text
    <2>4. PICK i, j \in Ink(t) : /\ \A k \in Ink(t) : i <= k /\ k <= j
                                 /\ Strip(t) = SubSeq(t, i, j)
        BY <1>6, InkSpan
    <2>5. PICK a, b \in Ink(u) : /\ \A k \in Ink(u) : a <= k /\ k <= b
                                 /\ Strip(u) = SubSeq(u, a, b)
        BY <2>2, <2>3, InkSpan
    <2>6. i \in 1..Len(t) /\ j \in 1..Len(t) /\ i <= j
        BY <2>4, <1>2 DEF Ink
    <2>7. a = i + 1 /\ b = j + 1
        <3>1. i + 1 \in Ink(u) /\ j + 1 \in Ink(u)
            BY <2>1
        <3>2. PICK k \in Ink(t) : a = k + 1
            BY <2>1
        <3>3. PICK l \in Ink(t) : b = l + 1
            BY <2>1
        <3>4. a <= i + 1 /\ j + 1 <= b /\ i <= k /\ l <= j
            BY <3>1, <2>4, <2>5
        <3>5. k \in Nat /\ l \in Nat
            BY <1>2 DEF Ink
        <3> QED BY <2>6, <3>2, <3>3, <3>4, <3>5
    <2>8. /\ SubSeq(t, i, j) \in Seq(Chars) /\ Len(SubSeq(t, i, j)) = j - i + 1
          /\ \A k \in 1..(j - i + 1) : SubSeq(t, i, j)[k] = t[i + k - 1]
        BY <2>6, <1>2, SubSeqProperties, ElementOfSeq DEF Text
    <2>9. /\ SubSeq(u, a, b) \in Seq(Chars) /\ Len(SubSeq(u, a, b)) = j - i + 1
          /\ \A k \in 1..(j - i + 1) : SubSeq(u, a, b)[k] = u[i + k]
        <3>1. a \in 1..Len(u) /\ b \in 1..Len(u) /\ b - a + 1 = j - i + 1 /\ a <= b
            BY <2>6, <2>7, <1>2
        <3>2. /\ SubSeq(u, a, b) \in Seq(Chars) /\ Len(SubSeq(u, a, b)) = b - a + 1
              /\ \A k \in 1..(b - a + 1) : SubSeq(u, a, b)[k] = u[a + k - 1]
            BY <3>1, <1>2, SubSeqProperties, ElementOfSeq
        <3>3. \A k \in 1..(j - i + 1) : a + k - 1 = i + k
            BY <2>6, <2>7
        <3> QED BY <3>1, <3>2, <3>3
    <2>10. \A k \in 1..(j - i + 1) : u[i + k] = t[i + k - 1]
        <3> SUFFICES ASSUME NEW k \in 1..(j - i + 1) PROVE u[i + k] = t[i + k - 1]
            OBVIOUS
        <3>1. i + k - 1 \in 1..Len(t) /\ (i + k - 1) + 1 = i + k
            BY <2>6, <1>2
        <3>2. u[(i + k - 1) + 1] = t[i + k - 1]
            BY <3>1, <1>3
        <3> QED BY <3>1, <3>2
    <2>11. SubSeq(u, a, b) = SubSeq(t, i, j)
        <3> DEFINE x == SubSeq(u, a, b)
                   y == SubSeq(t, i, j)
        <3>1. \A k \in 1..(j - i + 1) : x[k] = y[k]
            BY <2>8, <2>9, <2>10
        <3>2. x \in Seq(Chars) /\ y \in Seq(Chars) /\ Len(x) = Len(y) /\ Len(x) = j - i + 1
            BY <2>8, <2>9
        <3> HIDE DEF x, y
        <3>3. x = y
            BY <3>1, <3>2, SeqEqual
        <3> QED BY <3>3 DEF x, y
    <2> QED BY <2>4, <2>5, <2>11 DEF u, w
<1> QED BY <1>5, <1>6

\* A long enough piece of white space does not reach over a blank line.
LEMMA JoinedVoid ==
    ASSUME NEW s \in Text, NEW t \in Text, Solid(s), Solid(t)
    PROVE  /\ Solid(s \o Gap \o t)
           /\ HasVoid(s \o Gap \o t) => HasVoid(s) \/ HasVoid(t)
<1> DEFINE g == Gap
           sg == s \o g
           u == sg \o t
<1>1. /\ g \in Seq(Chars) /\ Len(g) = 2 /\ s \in Seq(Chars) /\ t \in Seq(Chars)
      /\ Len(s) \in Nat \ {0} /\ Len(t) \in Nat \ {0}
      /\ DOMAIN s = 1..Len(s) /\ DOMAIN t = 1..Len(t)
    BY TextFacts, SolidFacts DEF Text
<1> HIDE DEF g
<1>2. /\ sg \in Seq(Chars) /\ Len(sg) = Len(s) + 2
      /\ \A i \in 1..Len(s) : sg[i] = s[i]
    <2>1. /\ sg \in Seq(Chars) /\ Len(sg) = Len(s) + Len(g)
          /\ \A i \in 1..(Len(s) + Len(g)) : sg[i] = IF i <= Len(s) THEN s[i] ELSE g[i - Len(s)]
        BY <1>1, ConcatProperties
    <2> HIDE DEF sg
    <2> QED BY <2>1, <1>1
<1> HIDE DEF sg
<1>3. /\ u \in Seq(Chars) /\ Len(u) = Len(s) + 2 + Len(t)
      /\ \A i \in 1..Len(s) : u[i] = s[i]
      /\ \A i \in 1..Len(t) : u[Len(s) + 2 + i] = t[i]
      /\ DOMAIN u = 1..(Len(s) + 2 + Len(t))
    <2>1. /\ u \in Seq(Chars) /\ Len(u) = Len(sg) + Len(t)
          /\ \A i \in 1..(Len(sg) + Len(t)) : u[i] = IF i <= Len(sg) THEN sg[i] ELSE t[i - Len(sg)]
        BY <1>1, <1>2, ConcatProperties
    <2> HIDE DEF u
    <2>2. \A i \in 1..Len(s) : i \in 1..(Len(sg) + Len(t)) /\ i <= Len(sg)
        BY <1>1, <1>2
    <2>3. \A i \in 1..Len(t) : /\ Len(s) + 2 + i \in 1..(Len(sg) + Len(t)) /\ ~(Len(s) + 2 + i <= Len(sg))
                               /\ Len(s) + 2 + i - Len(sg) = i
        BY <1>1, <1>2
    <2>4. \A i \in 1..Len(s) : u[i] = s[i]
        BY <2>1, <2>2, <1>2
    <2>5. \A i \in 1..Len(t) : u[Len(s) + 2 + i] = t[i]
        BY <2>1, <2>3
    <2> QED BY <2>1, <2>4, <2>5, <1>1, <1>2, LenProperties
<1>4. s[1] # White /\ s[Len(s)] # White /\ t[1] # White /\ t[Len(t)] # White
    BY DEF Solid
<1> HIDE DEF u
<1>5. Solid(u)
    <2>1. u[1] = s[1] /\ u[Len(u)] = t[Len(t)] /\ Len(u) # 0
        BY <1>1, <1>3
    <2> QED BY <2>1, <1>4 DEF Solid
<1>6. ASSUME HasVoid(u) PROVE HasVoid(s) \/ HasVoid(t)
    <2>1. PICK i \in 1..Len(u) : /\ i + MaxSafe - 1 <= Len(u)
                                 /\ \A j \in i..(i + MaxSafe - 1) : u[j] = White
        BY <1>6, <1>3 DEF HasVoid
    <2>2. MaxSafe \in Nat /\ MaxSafe > 3 /\ Len(u) \in Nat /\ i \in Nat
        BY SizesAssumption, <1>1, <1>3
    <2>3. u[Len(s)] # White /\ u[Len(s) + 3] # White
        <3>1. Len(s) \in 1..Len(s) /\ 1 \in 1..Len(t) /\ Len(s) + 2 + 1 = Len(s) + 3
            BY <1>1
        <3>2. u[Len(s) + 2 + 1] = t[1]
            BY <3>1, <1>3
        <3> QED BY <3>1, <3>2, <1>3, <1>4
    <2>4. Len(s) \notin i..(i + MaxSafe - 1) /\ Len(s) + 3 \notin i..(i + MaxSafe - 1)
        BY <2>1, <2>3
    <2>5. i + MaxSafe - 1 < Len(s) \/ Len(s) + 3 < i
        BY <2>2, <2>4, <1>1
    <2>6. CASE i + MaxSafe - 1 < Len(s)
        <3>1. i \in 1..Len(s) /\ i + MaxSafe - 1 <= Len(s)
            BY <2>2, <2>6, <1>1
        <3>2. \A j \in i..(i + MaxSafe - 1) : j \in 1..Len(s)
            BY <2>2, <2>6, <1>1, <2>1
        <3>3. \A j \in i..(i + MaxSafe - 1) : s[j] = White
            BY <3>2, <2>1, <1>3
        <3> QED BY <3>1, <3>3, <1>1 DEF HasVoid
    <2>7. CASE Len(s) + 3 < i
        <3> DEFINE k == i - (Len(s) + 2)
        <3>1. k \in 1..Len(t) /\ k + MaxSafe - 1 <= Len(t)
            BY <2>1, <2>2, <2>7, <1>1, <1>3
        <3>2. ASSUME NEW j \in k..(k + MaxSafe - 1) PROVE t[j] = White
            <4>1. Len(s) + 2 + j \in i..(i + MaxSafe - 1) /\ j \in 1..Len(t)
                BY <2>1, <2>2, <3>1, <1>1
            <4>2. u[Len(s) + 2 + j] = White
                BY <4>1, <2>1
            <4> QED BY <4>1, <4>2, <1>3
        <3> HIDE DEF k
        <3> QED BY <3>1, <3>2, <1>1 DEF HasVoid
    <2> QED BY <2>5, <2>6, <2>7
<1> QED BY <1>5, <1>6 DEF u, sg, g

\* White space as long as a chunk in a part is in the text.
LEMMA BlankWithin ==
    ASSUME NEW part \in Text, NEW text \in Text, Blank(part), Len(part) = MaxSafe, Within(part, text)
    PROVE  HasVoid(text)
<1>1. PICK d \in 0..(Len(text) - Len(part)) : \A k \in DOMAIN part : part[k] = text[d + k]
    BY DEF Within
<1>2. MaxSafe \in Nat /\ MaxSafe > 0 /\ Len(text) \in Nat /\ DOMAIN part = 1..MaxSafe /\ DOMAIN text = 1..Len(text)
    BY SizesAssumption, TextFacts
<1>3. d + 1 \in 1..Len(text) /\ (d + 1) + MaxSafe - 1 <= Len(text)
    BY <1>1, <1>2
<1>4. ASSUME NEW j \in (d + 1)..((d + 1) + MaxSafe - 1) PROVE text[j] = White
    <2>1. j - d \in 1..MaxSafe /\ d + (j - d) = j
        BY <1>1, <1>2
    <2>2. part[j - d] = White /\ part[j - d] = text[d + (j - d)]
        BY <2>1, <1>1, <1>2 DEF Blank
    <2> QED BY <2>1, <2>2
<1> QED BY <1>2, <1>3, <1>4 DEF HasVoid
-----------------------------------------------------------------------------
(* Which lines make which paragraph and section. *)

LEMMA PromiseLines ==
    ASSUME doc \in Document
    PROVE  /\ doc.lines \in Seq(Line) /\ Len(doc.lines) \in Nat /\ DOMAIN doc.lines = 1..Len(doc.lines)
           /\ \A i : i \in Promise!TextLines(doc) <=> i \in 1..Len(doc.lines) /\ ~Blank(doc.lines[i].text)
           /\ \A i : i \in Promise!RunStarts(doc) <=>
                        i \in Promise!TextLines(doc) /\ i - 1 \notin Promise!TextLines(doc)
           /\ \A i, j : j \in Promise!Run(doc, i) <=>
                        j \in Promise!TextLines(doc) /\ i <= j /\ \A k \in i..j : k \in Promise!TextLines(doc)
           /\ \A h : h \in Promise!Headings(doc) <=> h \in Promise!TextLines(doc) /\ doc.lines[h].heading
           /\ \A s : s \in Promise!Starts(doc) <=> s = 1 \/ \E h \in Promise!Headings(doc) : s = h + 1
           /\ \A s, i : i \in Promise!Under(doc, s) <=>
                        i \in Promise!TextLines(doc) /\ s <= i /\ \A k \in s..i : k \notin Promise!Headings(doc)
<1>1. doc.lines \in Seq(Line)
    BY DEF Document
<1>2. Len(doc.lines) \in Nat /\ DOMAIN doc.lines = 1..Len(doc.lines)
    BY <1>1, LenProperties
<1>3. \A i : i \in Promise!TextLines(doc) <=> i \in 1..Len(doc.lines) /\ ~Blank(doc.lines[i].text)
    BY <1>2 DEF Promise!TextLines, Promise!Blank, Blank
<1>4. \A i : i \in Promise!RunStarts(doc) <=>
                        i \in Promise!TextLines(doc) /\ i - 1 \notin Promise!TextLines(doc)
    BY DEF Promise!RunStarts
<1>5. \A i, j : j \in Promise!Run(doc, i) <=>
                        j \in Promise!TextLines(doc) /\ i <= j /\ \A k \in i..j : k \in Promise!TextLines(doc)
    BY DEF Promise!Run
<1>6. \A h : h \in Promise!Headings(doc) <=> h \in Promise!TextLines(doc) /\ doc.lines[h].heading
    BY DEF Promise!Headings
<1>7. \A s : s \in Promise!Starts(doc) <=> s = 1 \/ \E h \in Promise!Headings(doc) : s = h + 1
    BY DEF Promise!Starts
<1>8. \A s, i : i \in Promise!Under(doc, s) <=>
                        i \in Promise!TextLines(doc) /\ s <= i /\ \A k \in s..i : k \notin Promise!Headings(doc)
    BY DEF Promise!Under
<1> QED BY <1>1, <1>2, <1>3, <1>4, <1>5, <1>6, <1>7, <1>8

LEMMA LineText ==
    ASSUME doc \in Document, NEW i \in 1..Len(doc.lines)
    PROVE  /\ doc.lines[i].text \in Text /\ Strip(doc.lines[i].text) \in Text
           /\ <<White>> \o doc.lines[i].text \in Text /\ doc.lines[i].heading \in BOOLEAN
<1>1. doc.lines[i] \in Line
    BY ElementOfSeq DEF Document
<1>2. doc.lines[i].text \in Text /\ doc.lines[i].heading \in BOOLEAN
    BY <1>1 DEF Line
<1> QED BY <1>2, TextFacts, StripType

\* What the line j adds to the run that starts at i.
LineOf(i, j) == IF j \in Promise!Run(doc, i) THEN <<White>> \o doc.lines[j].text ELSE <<>>

LEMMA RunPartProperties ==
    ASSUME doc \in Document, NEW i, NEW n \in 0..Len(doc.lines)
    PROVE  /\ RunPart(i, n) \in Text
           /\ n < Len(doc.lines) => RunPart(i, n + 1) = RunPart(i, n) \o LineOf(i, n + 1)
           /\ (\A j \in 1..n : j \notin Promise!Run(doc, i)) => RunPart(i, n) = <<>>
<1>1. n \in Nat /\ Len(doc.lines) \in Nat
    BY PromiseLines
<1>2. \A j \in 1..Len(doc.lines) : LineOf(i, j) \in Text
    BY LineText, TextFacts DEF LineOf
<1> DEFINE a == [j \in 1..n |-> LineOf(i, j)]
           b == [j \in 1..(n + 1) |-> LineOf(i, j)]
<1>3. a \in Seq(Text) /\ Len(a) = n
    <2>1. \A j \in 1..n : LineOf(i, j) \in Text
        BY <1>1, <1>2
    <2>2. a \in Seq(Text)
        BY <1>1, <2>1, IsASeq
    <2> QED BY <1>1, <2>2, LenProperties
<1>4. RunPart(i, n) = FlattenSeq(a)
    BY DEF RunPart, LineOf
<1>5. RunPart(i, n) \in Text
    BY <1>3, <1>4, FlattenType DEF Text
<1>6. ASSUME n < Len(doc.lines) PROVE RunPart(i, n + 1) = RunPart(i, n) \o LineOf(i, n + 1)
    <2>1. LineOf(i, n + 1) \in Text
        BY <1>1, <1>2, <1>6
    <2>2. b \in Seq(Text) /\ Len(b) = n + 1
        <3>1. \A j \in 1..(n + 1) : LineOf(i, j) \in Text
            BY <1>1, <1>2, <1>6
        <3>2. b \in Seq(Text)
            BY <1>1, <3>1, IsASeq
        <3> QED BY <1>1, <3>2, LenProperties
    <2>3. b = Append(a, LineOf(i, n + 1))
        <3> DEFINE c == Append(a, LineOf(i, n + 1))
        <3>1. c \in Seq(Text) /\ Len(c) = n + 1 /\ (\A j \in 1..n : c[j] = a[j]) /\ c[n + 1] = LineOf(i, n + 1)
            <4> HIDE DEF a
            <4> QED BY <1>3, <2>1, AppendProperties
        <3>2. \A j \in 1..n : a[j] = LineOf(i, j)
            OBVIOUS
        <3> HIDE DEF c, a
        <3>3. \A j \in 1..(n + 1) : b[j] = c[j]
            <4> SUFFICES ASSUME NEW j \in 1..(n + 1) PROVE b[j] = c[j]
                OBVIOUS
            <4>1. b[j] = LineOf(i, j)
                OBVIOUS
            <4>2. j \in 1..n \/ j = n + 1
                BY <1>1
            <4> QED BY <3>1, <3>2, <4>1, <4>2
        <3> HIDE DEF b
        <3>4. b = c
            BY <2>2, <3>1, <3>3, SeqEqual
        <3> QED BY <3>4 DEF c
    <2>4. RunPart(i, n + 1) = FlattenSeq(b)
        BY DEF RunPart, LineOf
    <2> HIDE DEF a, b
    <2> QED BY <1>3, <1>4, <2>1, <2>3, <2>4, FlattenAppend DEF Text
<1>7. ASSUME \A j \in 1..n : j \notin Promise!Run(doc, i) PROVE RunPart(i, n) = <<>>
    <2>1. \A j \in 1..Len(a) : a[j] = <<>>
        BY <1>3, <1>7 DEF LineOf
    <2> HIDE DEF a
    <2> QED BY <1>3, <1>4, <2>1, FlattenOfEmpty DEF Text
<1> QED BY <1>5, <1>6, <1>7

LEMMA RunPartsType ==
    ASSUME doc \in Document, NEW n \in 0..Len(doc.lines)
    PROVE  /\ RunParts(n) \in Seq(Text) /\ Len(RunParts(n)) = n
           /\ \A i \in 1..n : RunParts(n)[i] = RunPart(i, n)
<1>1. n \in Nat
    BY PromiseLines
<1>2. \A i \in 1..n : RunPart(i, n) \in Text
    BY RunPartProperties
<1>3. RunParts(n) \in Seq(Text)
    BY <1>1, <1>2, IsASeq DEF RunParts
<1>4. Len(RunParts(n)) = n
    BY <1>1, <1>3, LenProperties DEF RunParts
<1> QED BY <1>3, <1>4 DEF RunParts

LEMMA LedProperties ==
    ASSUME NEW ps \in Seq(Text)
    PROVE  /\ Led(ps) \in Seq(Text) /\ Len(Led(ps)) = Len(ps)
           /\ \A k \in 1..Len(ps) : Led(ps)[k] = <<White>> \o ps[k]
<1>1. Len(ps) \in Nat /\ DOMAIN ps = 1..Len(ps)
    BY LenProperties
<1>2. \A k \in 1..Len(ps) : <<White>> \o ps[k] \in Text
    BY ElementOfSeq, TextFacts
<1>3. Led(ps) = [k \in 1..Len(ps) |-> <<White>> \o ps[k]]
    BY <1>1 DEF Led
<1>4. Led(ps) \in Seq(Text)
    BY <1>1, <1>2, <1>3, IsASeq
<1>5. Len(Led(ps)) = Len(ps)
    BY <1>1, <1>3, <1>4, LenProperties
<1> QED BY <1>3, <1>4, <1>5

LEMMA LedAppend ==
    ASSUME NEW ps \in Seq(Text), NEW x \in Text
    PROVE  Led(Append(ps, x)) = Append(Led(ps), <<White>> \o x)
<1> DEFINE y == <<White>> \o x
           a == Append(ps, x)
<1>1. y \in Text
    BY TextFacts
<1>2. a \in Seq(Text) /\ Len(a) = Len(ps) + 1 /\ (\A k \in 1..Len(ps) : a[k] = ps[k]) /\ a[Len(ps) + 1] = x
    BY AppendProperties
<1> HIDE DEF y, a
<1>3. /\ Led(ps) \in Seq(Text) /\ Len(Led(ps)) = Len(ps) /\ Len(ps) \in Nat
      /\ \A k \in 1..Len(ps) : Led(ps)[k] = <<White>> \o ps[k]
    BY LedProperties, LenProperties
<1>4. /\ Led(a) \in Seq(Text) /\ Len(Led(a)) = Len(ps) + 1
      /\ \A k \in 1..(Len(ps) + 1) : Led(a)[k] = <<White>> \o a[k]
    BY <1>2, LedProperties
<1> DEFINE b == Append(Led(ps), y)
<1>5. b \in Seq(Text) /\ Len(b) = Len(ps) + 1 /\ (\A k \in 1..Len(ps) : b[k] = Led(ps)[k]) /\ b[Len(ps) + 1] = y
    <2> DEFINE l == Led(ps)
    <2>1. l \in Seq(Text) /\ Len(l) = Len(ps)
        BY <1>3
    <2> HIDE DEF l
    <2>2. Append(l, y) \in Seq(Text) /\ Len(Append(l, y)) = Len(l) + 1 /\ (\A k \in 1..Len(l) : Append(l, y)[k] = l[k]) /\ Append(l, y)[Len(l) + 1] = y
        BY <1>1, <2>1, AppendProperties
    <2> QED BY <2>1, <2>2 DEF l
<1> HIDE DEF b
<1>6. \A k \in 1..(Len(ps) + 1) : Led(a)[k] = b[k]
    <2> SUFFICES ASSUME NEW k \in 1..(Len(ps) + 1) PROVE Led(a)[k] = b[k]
        OBVIOUS
    <2>1. CASE k \in 1..Len(ps)
        BY <2>1, <1>2, <1>3, <1>4, <1>5
    <2>2. CASE k = Len(ps) + 1
        <3>1. Led(a)[k] = <<White>> \o x
            BY <2>2, <1>2, <1>4
        <3> QED BY <3>1, <2>2, <1>5 DEF y
    <2> QED BY <1>3, <2>1, <2>2
<1>7. Led(a) = b
    BY <1>4, <1>5, <1>6, SeqEqual
<1> QED BY <1>7 DEF a, b, y

LEMMA WithLastFront ==
    ASSUME NEW S, NEW s \in Seq(S), s # <<>>, NEW x \in S
    PROVE  /\ SubSeq(s, 1, Len(s) - 1) \in Seq(S)
           /\ s = Append(SubSeq(s, 1, Len(s) - 1), s[Len(s)]) /\ s[Len(s)] \in S
           /\ WithLast(s, x) = Append(SubSeq(s, 1, Len(s) - 1), x)
<1> DEFINE f == SubSeq(s, 1, Len(s) - 1)
<1>1. Len(s) \in Nat \ {0} /\ Len(s) \in 1..Len(s) /\ s[Len(s)] \in S
    BY EmptySeq, ElementOfSeq
<1>2. f \in Seq(S) /\ Len(f) = Len(s) - 1 /\ \A i \in 1..(Len(s) - 1) : f[i] = s[i]
    <2>1. \A i \in 1..(Len(s) - 1) : s[i] \in S
        BY <1>1, ElementOfSeq
    <2>2. /\ f \in Seq(S) /\ Len(f) = IF 1 <= Len(s) - 1 THEN Len(s) - 1 - 1 + 1 ELSE 0
          /\ \A i \in 1..(Len(s) - 1 - 1 + 1) : f[i] = s[1 + i - 1]
        BY <1>1, <2>1, SubSeqProperties
    <2> HIDE DEF f
    <2>3. \A i \in 1..(Len(s) - 1) : i \in 1..(Len(s) - 1 - 1 + 1) /\ 1 + i - 1 = i
        BY <1>1
    <2>4. \A n \in Nat \ {0} : (IF 1 <= n - 1 THEN n - 1 - 1 + 1 ELSE 0) = n - 1
        <3> SUFFICES ASSUME NEW n \in Nat \ {0} PROVE (IF 1 <= n - 1 THEN n - 1 - 1 + 1 ELSE 0) = n - 1
            OBVIOUS
        <3>1. CASE n = 1
            BY <3>1
        <3>2. CASE n # 1
            BY <3>2
        <3> QED BY <3>1, <3>2
    <2>5. Len(f) = Len(s) - 1
        BY <1>1, <2>2, <2>4
    <2>6. \A i \in 1..(Len(s) - 1) : f[i] = s[i]
        BY <2>2, <2>3
    <2> QED BY <2>2, <2>5, <2>6
<1> HIDE DEF f
<1>3. ASSUME NEW y \in S, NEW t \in Seq(S), Len(t) = Len(s), t[Len(s)] = y, \A i \in 1..(Len(s) - 1) : t[i] = s[i]
      PROVE  t = Append(f, y)
    <2>1. /\ Append(f, y) \in Seq(S) /\ Len(Append(f, y)) = Len(s)
          /\ (\A i \in 1..(Len(s) - 1) : Append(f, y)[i] = s[i]) /\ Append(f, y)[Len(s)] = y
        <3>1. /\ Append(f, y) \in Seq(S) /\ Len(Append(f, y)) = Len(f) + 1
              /\ (\A i \in 1..Len(f) : Append(f, y)[i] = f[i]) /\ Append(f, y)[Len(f) + 1] = y
            BY <1>2, AppendProperties
        <3> QED BY <3>1, <1>1, <1>2
    <2>2. \A i \in 1..Len(s) : t[i] = Append(f, y)[i]
        <3>1. \A i \in 1..Len(s) : i \in 1..(Len(s) - 1) \/ i = Len(s)
            BY <1>1
        <3> QED BY <3>1, <2>1, <1>3
    <2> QED BY <1>3, <2>1, <2>2, SeqEqual
<1>4. s = Append(f, s[Len(s)])
    BY <1>1, <1>3
<1>5. WithLast(s, x) = Append(f, x)
    <2>1. /\ WithLast(s, x) \in Seq(S) /\ Len(WithLast(s, x)) = Len(s)
          /\ \A i \in DOMAIN s : WithLast(s, x)[i] = IF i = Len(s) THEN x ELSE s[i]
        BY WithLastProperties
    <2>2. DOMAIN s = 1..Len(s)
        BY LenProperties
    <2>3. WithLast(s, x)[Len(s)] = x /\ \A i \in 1..(Len(s) - 1) : WithLast(s, x)[i] = s[i]
        BY <1>1, <2>1, <2>2
    <2> DEFINE t == WithLast(s, x)
    <2>4. t \in Seq(S) /\ Len(t) = Len(s) /\ t[Len(s)] = x /\ \A i \in 1..(Len(s) - 1) : t[i] = s[i]
        BY <2>1, <2>3
    <2> HIDE DEF t
    <2>5. t = Append(f, x)
        BY <1>3, <2>4
    <2> QED BY <2>5 DEF t
<1> QED BY <1>1, <1>2, <1>4, <1>5 DEF f

LEMMA AppendSame ==
    ASSUME NEW T, NEW s \in Seq(T), NEW t \in Seq(T), NEW x \in T, NEW y \in T, Append(s, x) = Append(t, y)
    PROVE  s = t /\ x = y
<1>1. /\ Len(Append(s, x)) = Len(s) + 1 /\ (\A i \in 1..Len(s) : Append(s, x)[i] = s[i]) /\ Append(s, x)[Len(s) + 1] = x
    BY AppendProperties
<1>2. /\ Len(Append(t, y)) = Len(t) + 1 /\ (\A i \in 1..Len(t) : Append(t, y)[i] = t[i]) /\ Append(t, y)[Len(t) + 1] = y
    BY AppendProperties
<1>3. Len(s) = Len(t)
    BY <1>1, <1>2, LenProperties
<1>4. s = t
    BY <1>1, <1>2, <1>3, SeqEqual
<1> QED BY <1>1, <1>2, <1>3, <1>4

LEMMA FrontOf ==
    ASSUME NEW T, NEW s \in Seq(T), NEW m \in 1..(Len(s) + 1)
    PROVE  /\ SubSeq(s, 1, m - 1) \in Seq(T) /\ Len(SubSeq(s, 1, m - 1)) = m - 1
           /\ \A i \in 1..(m - 1) : SubSeq(s, 1, m - 1)[i] = s[i]
<1> DEFINE f == SubSeq(s, 1, m - 1)
<1>1. Len(s) \in Nat /\ \A i \in 1..(m - 1) : s[i] \in T
    <2>1. Len(s) \in Nat /\ \A i \in 1..(m - 1) : i \in 1..Len(s)
        BY LenProperties
    <2> QED BY <2>1, ElementOfSeq
<1>2. /\ f \in Seq(T) /\ Len(f) = IF 1 <= m - 1 THEN m - 1 - 1 + 1 ELSE 0
      /\ \A i \in 1..(m - 1 - 1 + 1) : f[i] = s[1 + i - 1]
    BY <1>1, SubSeqProperties
<1> HIDE DEF f
<1>3. (IF 1 <= m - 1 THEN m - 1 - 1 + 1 ELSE 0) = m - 1
    <2>1. CASE m = 1
        BY <2>1
    <2>2. CASE m # 1
        <3>1. m \in Nat
            BY <1>1
        <3> QED BY <2>2, <3>1
    <2> QED BY <2>1, <2>2
<1>4. \A i \in 1..(m - 1) : i \in 1..(m - 1 - 1 + 1) /\ 1 + i - 1 = i
    BY <1>1
<1>5. Len(f) = m - 1
    BY <1>2, <1>3
<1>6. \A i \in 1..(m - 1) : f[i] = s[i]
    BY <1>2, <1>4
<1> QED BY <1>2, <1>5, <1>6 DEF f

\* The parts, but for the one that starts at the line itself, line by line.
LEMMA NoRunGoesOn ==
    ASSUME doc \in Document, NEW n \in Nat, n < Len(doc.lines),
           \A i \in 1..n : n + 1 \notin Promise!Run(doc, i)
    PROVE  Sublist(RunParts(n + 1), Promise!RunStarts(doc)) =
              IF n + 1 \in Promise!RunStarts(doc)
              THEN Append(Sublist(RunParts(n), Promise!RunStarts(doc)), LineOf(n + 1, n + 1))
              ELSE Sublist(RunParts(n), Promise!RunStarts(doc))
<1> DEFINE S == Promise!RunStarts(doc)
           a == RunParts(n)
           b == RunParts(n + 1)
           x == RunPart(n + 1, n + 1)
<1>1. n \in 0..Len(doc.lines) /\ n + 1 \in 0..Len(doc.lines) /\ n + 1 \in 1..(n + 1) /\ Len(doc.lines) \in Nat
    BY PromiseLines
<1>2. a \in Seq(Text) /\ Len(a) = n /\ (\A i \in 1..n : a[i] = RunPart(i, n))
    BY <1>1, RunPartsType
<1>3. b \in Seq(Text) /\ Len(b) = n + 1 /\ (\A i \in 1..(n + 1) : b[i] = RunPart(i, n + 1))
    BY <1>1, RunPartsType
<1>4. \A i \in 1..n : RunPart(i, n + 1) = RunPart(i, n)
    <2> SUFFICES ASSUME NEW i \in 1..n PROVE RunPart(i, n + 1) = RunPart(i, n)
        OBVIOUS
    <2>1. LineOf(i, n + 1) = <<>>
        BY DEF LineOf
    <2>2. RunPart(i, n) \in Text /\ RunPart(i, n + 1) = RunPart(i, n) \o LineOf(i, n + 1)
        BY <1>1, RunPartProperties
    <2> QED BY <2>1, <2>2, TextConcat
<1>5. x \in Text
    BY <1>1, RunPartProperties
<1>6. x = LineOf(n + 1, n + 1)
    <2>1. \A j \in 1..n : j \notin Promise!Run(doc, n + 1)
        BY PromiseLines
    <2>2. RunPart(n + 1, n) = <<>> /\ RunPart(n + 1, n + 1) = RunPart(n + 1, n) \o LineOf(n + 1, n + 1)
        BY <1>1, <2>1, RunPartProperties
    <2>3. LineOf(n + 1, n + 1) \in Text
        BY <1>1, LineText, TextFacts DEF LineOf
    <2> QED BY <2>2, <2>3, TextConcat
<1> HIDE DEF a, b, S, x
<1>7. b = Append(a, x)
    <2>1. /\ Append(a, x) \in Seq(Text) /\ Len(Append(a, x)) = n + 1
          /\ (\A i \in 1..n : Append(a, x)[i] = a[i]) /\ Append(a, x)[n + 1] = x
        BY <1>2, <1>5, AppendProperties
    <2>2. \A i \in 1..(n + 1) : b[i] = Append(a, x)[i]
        <3> SUFFICES ASSUME NEW i \in 1..(n + 1) PROVE b[i] = Append(a, x)[i]
            OBVIOUS
        <3>1. CASE i \in 1..n
            BY <3>1, <2>1, <1>2, <1>3, <1>4
        <3>2. CASE i = n + 1
            BY <3>2, <2>1, <1>3 DEF x
        <3>3. \A m \in Nat : \A j \in 1..(m + 1) : j \in 1..m \/ j = m + 1
            OBVIOUS
        <3>4. i \in 1..n \/ i = n + 1
            BY <3>3
        <3> QED BY <3>1, <3>2, <3>4
    <2> QED BY <1>3, <2>1, <2>2, SeqEqual
<1>8. Sublist(Append(a, x), S) = IF Len(a) + 1 \in S THEN Append(Sublist(a, S), x) ELSE Sublist(a, S)
    BY <1>2, <1>5, SublistAppend
<1> QED BY <1>2, <1>6, <1>7, <1>8 DEF a, b, S

\* The next line, with text after a line with text, is at the end of the last run.
LEMMA RunGoesOn ==
    ASSUME doc \in Document, NEW n \in Nat \ {0}, n < Len(doc.lines),
           n \in Promise!TextLines(doc), n + 1 \in Promise!TextLines(doc)
    PROVE  \E front \in Seq(Text), x \in Text :
              /\ Sublist(RunParts(n), Promise!RunStarts(doc)) = Append(front, x)
              /\ Sublist(RunParts(n + 1), Promise!RunStarts(doc)) =
                    Append(front, x \o (<<White>> \o doc.lines[n + 1].text))
<1> DEFINE S == Promise!RunStarts(doc)
           L == Promise!TextLines(doc)
           a == RunParts(n)
           b == RunParts(n + 1)
           C == {i \in 1..n : \A k \in i..n : k \in L}
<1>1. n \in 0..Len(doc.lines) /\ n + 1 \in 0..Len(doc.lines) /\ n + 1 \in 1..Len(doc.lines) /\ Len(doc.lines) \in Nat
    BY PromiseLines
<1>2. a \in Seq(Text) /\ Len(a) = n /\ (\A i \in 1..n : a[i] = RunPart(i, n))
    BY <1>1, RunPartsType
<1>3. b \in Seq(Text) /\ Len(b) = n + 1 /\ (\A i \in 1..(n + 1) : b[i] = RunPart(i, n + 1))
    BY <1>1, RunPartsType
<1>4. n \in C
    <2>1. n \in 1..n /\ \A k \in n..n : k = n
        OBVIOUS
    <2> QED BY <2>1
<1>5. PICK m \in C : \A i \in C : m <= i
    <2>1. C \in SUBSET Nat
        OBVIOUS
    <2> HIDE DEF C
    <2> QED BY <1>4, <2>1, Least
<1>6. m \in 1..n /\ \A k \in m..n : k \in L
    BY <1>5
<1>7. m \in S
    <2>1. m \in L
        BY <1>6
    <2>2. ASSUME m - 1 \in L PROVE FALSE
        <3>1. m - 1 \in 1..n
            BY <1>6, <2>2, PromiseLines
        <3>2. \A k \in (m - 1)..n : k = m - 1 \/ k \in m..n
            BY <1>6
        <3>3. m - 1 \in C
            BY <3>1, <3>2, <2>2, <1>6
        <3>4. m <= m - 1
            BY <3>3, <1>5
        <3> QED BY <3>4, <1>6
    <2> QED BY <2>1, <2>2, PromiseLines
<1>8. \A i \in 1..(n + 1) : i \in S => i <= m
    <2> SUFFICES ASSUME NEW i \in 1..(n + 1), i \in S, ~(i <= m) PROVE FALSE
        OBVIOUS
    <2>1. i - 1 \in m..n
        BY <1>6
    <2>2. i - 1 \in L
        BY <2>1, <1>6
    <2> QED BY <2>2, PromiseLines
<1>9. \A i \in 1..(m - 1) : i \in S => RunPart(i, n + 1) = RunPart(i, n)
    <2> SUFFICES ASSUME NEW i \in 1..(m - 1), i \in S PROVE RunPart(i, n + 1) = RunPart(i, n)
        OBVIOUS
    <2>1. n + 1 \notin Promise!Run(doc, i)
        <3> SUFFICES ASSUME n + 1 \in Promise!Run(doc, i) PROVE FALSE
            OBVIOUS
        <3>1. \A k \in i..(n + 1) : k \in L
            BY PromiseLines
        <3>2. i \in 1..n /\ \A k \in i..n : k \in i..(n + 1)
            BY <1>6
        <3>3. i \in C
            BY <3>1, <3>2
        <3>4. m <= i
            BY <3>3, <1>5
        <3> QED BY <3>4, <1>6
    <2>2. LineOf(i, n + 1) = <<>>
        BY <2>1 DEF LineOf
    <2>3. RunPart(i, n) \in Text /\ RunPart(i, n + 1) = RunPart(i, n) \o LineOf(i, n + 1)
        BY <1>1, RunPartProperties
    <2> QED BY <2>2, <2>3, TextConcat
<1>10. RunPart(m, n) \in Text /\ RunPart(m, n + 1) = RunPart(m, n) \o (<<White>> \o doc.lines[n + 1].text)
    <2>1. \A k \in m..(n + 1) : k \in m..n \/ k = n + 1
        BY <1>6
    <2>2. m <= n + 1
        BY <1>6
    <2>3. n + 1 \in Promise!Run(doc, m)
        BY <2>1, <2>2, <1>6, PromiseLines
    <2>4. LineOf(m, n + 1) = <<White>> \o doc.lines[n + 1].text
        BY <2>3 DEF LineOf
    <2> QED BY <2>4, <1>1, RunPartProperties
<1> DEFINE x == RunPart(m, n)
           y == RunPart(m, n + 1)
           fa == SubSeq(a, 1, m - 1)
           fb == SubSeq(b, 1, m - 1)
           front == Sublist(fa, S)
<1> HIDE DEF S, L, a, b, C
<1>11. fa \in Seq(Text) /\ Len(fa) = m - 1 /\ \A i \in 1..(m - 1) : fa[i] = RunPart(i, n)
    <2>1. \A i \in 1..(m - 1) : a[i] \in Text /\ a[i] = RunPart(i, n)
        <3>1. \A i \in 1..(m - 1) : i \in 1..n
            BY <1>6
        <3> QED BY <3>1, <1>2, ElementOfSeq
    <2>2. SubSeq(a, 1, m - 1) \in Seq(Text) /\ Len(SubSeq(a, 1, m - 1)) = m - 1 /\ \A i \in 1..(m - 1) : SubSeq(a, 1, m - 1)[i] = a[i]
        BY <1>2, <1>6, FrontOf
    <2> QED BY <2>1, <2>2
<1>12. fb \in Seq(Text) /\ Len(fb) = m - 1 /\ \A i \in 1..(m - 1) : fb[i] = RunPart(i, n + 1)
    <2>1. \A i \in 1..(m - 1) : b[i] = RunPart(i, n + 1)
        <3>1. \A i \in 1..(m - 1) : i \in 1..(n + 1)
            BY <1>6
        <3> QED BY <3>1, <1>3
    <2>2. SubSeq(b, 1, m - 1) \in Seq(Text) /\ Len(SubSeq(b, 1, m - 1)) = m - 1 /\ \A i \in 1..(m - 1) : SubSeq(b, 1, m - 1)[i] = b[i]
        BY <1>3, <1>6, FrontOf
    <2> QED BY <2>1, <2>2
<1>13. Sublist(fb, S) = front /\ front \in Seq(Text)
    <2> HIDE DEF fa, fb
    <2>1. \A i \in 1..Len(fb) : (i \in S <=> i \in S) /\ (i \in S => fb[i] = fa[i])
        BY <1>9, <1>11, <1>12
    <2>2. Len(fb) = Len(fa)
        BY <1>11, <1>12
    <2>3. Sublist(fb, S) = Sublist(fa, S)
        BY <2>1, <2>2, <1>11, <1>12, SublistSame
    <2>4. Sublist(fa, S) \in Seq(Text)
        BY <1>11, SublistType
    <2> QED BY <2>3, <2>4
<1>14. Sublist(a, S) = Append(front, x)
    <2>1. m \in 1..Len(a) /\ \A i \in 1..Len(a) : i \in S => i <= m
        BY <1>2, <1>6, <1>8
    <2>2. Sublist(a, S) = Append(Sublist(SubSeq(a, 1, m - 1), S), a[m])
        BY <2>1, <1>2, <1>7, SublistLast
    <2>3. a[m] = x
        BY <1>2, <1>6
    <2> QED BY <2>2, <2>3
<1>15. Sublist(b, S) = Append(front, y)
    <2>1. m \in 1..Len(b) /\ \A i \in 1..Len(b) : i \in S => i <= m
        BY <1>3, <1>6, <1>8
    <2>2. Sublist(b, S) = Append(Sublist(SubSeq(b, 1, m - 1), S), b[m])
        BY <2>1, <1>3, <1>7, SublistLast
    <2>3. b[m] = y
        BY <1>3, <1>6
    <2> QED BY <2>2, <2>3, <1>13
<1> HIDE DEF front
<1> QED BY <1>10, <1>13, <1>14, <1>15 DEF S, a, b
-----------------------------------------------------------------------------
(* The loop over lines. *)

LEMMA RunsStay ==
    ASSUME doc' = doc
    PROVE  RunParts(read)' = RunParts(read') /\ Promise!RunStarts(doc)' = Promise!RunStarts(doc)
<1>1. Promise!RunStarts(doc)' = Promise!RunStarts(doc)
    BY DEF Promise!RunStarts, Promise!TextLines, Promise!Blank
<1>2. RunParts(read)' = RunParts(read')
    BY DEF RunParts, RunPart, Promise!Run, Promise!TextLines, Promise!Blank
<1> QED BY <1>1, <1>2

\* ReadLine reads what the next line has in its run.
LEMMA ReadLineKeeps ==
    ASSUME Shape, Shape', SectionsSolid, ReadSoFar, ReadLine
    PROVE  SectionsSolid' /\ ReadSoFar'
<1> DEFINE S == Promise!RunStarts(doc)
           L == Promise!TextLines(doc)
           n == read
           text == NextLine.text
           ps == sections[1].paragraphs
           new == sections'[1].paragraphs
           goesOn == read > 0 /\ ~Blank(doc.lines[read].text)
           after == IF goesOn THEN WithLast(ps, ps[Len(ps)] \o <<White>> \o text)
                              ELSE Append(ps, text)
<1>1. /\ doc \in Document /\ n \in Nat /\ n < Len(doc.lines) /\ Len(doc.lines) \in Nat
      /\ phase = "reading" /\ phase' = "reading" /\ doc' = doc /\ read' = n + 1 /\ doc.kind # "docx"
      /\ sections \in Seq(Section) /\ sections # <<>>
      /\ sections' = IF Blank(text) THEN sections ELSE [sections EXCEPT ![1].paragraphs = after]
    <2>1. doc \in Document
        BY DEF Shape, TypeOK
    <2>2. /\ read \in 0..Len(doc.lines) /\ Len(doc.lines) \in Nat
          /\ sections \in Seq(Section) /\ sections # <<>>
        BY <2>1, PromiseLines DEF Shape, TypeOK, Section
    <2>3. /\ phase = "reading" /\ doc.kind # "docx" /\ read < Len(doc.lines)
          /\ phase' = phase /\ doc' = doc /\ read' = n + 1
        BY DEF ReadLine
    <2>4. sections' = IF Blank(text) THEN sections ELSE [sections EXCEPT ![1].paragraphs = after]
        BY DEF ReadLine
    <2> QED BY <2>1, <2>2, <2>3, <2>4
<1>2. Len(sections) = 1 /\ sections[1].heading = NoHeading /\ Led(ps) = Sublist(RunParts(n), S)
    BY <1>1 DEF ReadSoFar
<1>3. ps \in Seq(Text) /\ sections[1] \in Section /\ DOMAIN sections = 1..1
    <2>1. sections[1] \in Section
        BY <1>1, <1>2, ElementOfSeq
    <2> QED BY <2>1, <1>1, <1>2, LenProperties DEF Section
<1>4. text \in Text /\ n + 1 \in 1..Len(doc.lines) /\ text = doc.lines[n + 1].text
    <2>1. n + 1 \in 1..Len(doc.lines)
        BY <1>1
    <2> QED BY <2>1, <1>1, LineText DEF NextLine
<1>5. \A i \in DOMAIN ps : ~Blank(ps[i])
    BY <1>3 DEF SectionsSolid
<1>6. n + 1 \in L <=> ~Blank(text)
    BY <1>1, <1>4, PromiseLines
<1>7. goesOn <=> n \in L
    <2>1. n \in L <=> n \in 1..Len(doc.lines) /\ ~Blank(doc.lines[n].text)
        BY <1>1, PromiseLines
    <2>2. n > 0 <=> n \in 1..Len(doc.lines)
        BY <1>1
    <2> QED BY <2>1, <2>2
<1> HIDE DEF S, L, goesOn
<1>8. /\ Led(new) = Sublist(RunParts(n + 1), S) /\ Len(sections') = 1 /\ sections'[1].heading = NoHeading
      /\ \A i \in DOMAIN new : ~Blank(new[i])
      /\ DOMAIN sections' = DOMAIN sections
    <2>1. CASE Blank(text)
        <3>1. \A i \in 1..n : n + 1 \notin Promise!Run(doc, i)
            BY <2>1, <1>1, <1>6, PromiseLines DEF L
        <3>2. n + 1 \notin S
            BY <2>1, <1>1, <1>6, PromiseLines DEF L, S
        <3>3. Sublist(RunParts(n + 1), S) = Sublist(RunParts(n), S)
            BY <3>1, <3>2, <1>1, NoRunGoesOn DEF S
        <3>4. sections' = sections
            BY <2>1, <1>1
        <3> QED BY <3>3, <3>4, <1>2, <1>5
    <2>2. CASE ~Blank(text)
        <3>1. sections' = [sections EXCEPT ![1].paragraphs = after]
            BY <2>2, <1>1
        <3> HIDE DEF after
        <3>2. /\ new = after /\ Len(sections') = Len(sections) /\ sections'[1].heading = sections[1].heading
              /\ DOMAIN sections' = DOMAIN sections
            <4>1. 1 \in DOMAIN sections /\ sections'[1] = [sections[1] EXCEPT !.paragraphs = after]
                BY <3>1, <1>3
            <4>2. DOMAIN sections' = DOMAIN sections
                BY <3>1
            <4>3. new = after /\ sections'[1].heading = sections[1].heading
                BY <4>1, <1>3 DEF Section
            <4>4. sections' \in Seq(Section)
                BY DEF Shape, TypeOK, Section
            <4>5. Len(sections') = Len(sections)
                BY <4>2, <4>4, <1>1, LenProperties
            <4> QED BY <4>2, <4>3, <4>5
        <3>3. Led(after) = Sublist(RunParts(n + 1), S) /\ \A i \in DOMAIN after : ~Blank(after[i])
            <4>1. CASE ~goesOn
                <5>1. after = Append(ps, text)
                    BY <4>1 DEF after
                <5>2. \A i \in 1..n : n + 1 \notin Promise!Run(doc, i)
                    <6> SUFFICES ASSUME NEW i \in 1..n, n + 1 \in Promise!Run(doc, i) PROVE FALSE
                        OBVIOUS
                    <6>1. n \in i..(n + 1)
                        BY <1>1
                    <6>2. n \in L
                        BY <6>1, <1>1, PromiseLines DEF L
                    <6> QED BY <6>2, <4>1, <1>7
                <5>3. n + 1 \in S /\ n + 1 \in Promise!Run(doc, n + 1)
                    <6>1. n + 1 \in L /\ n \notin L
                        BY <2>2, <4>1, <1>6, <1>7
                    <6>2. n + 1 - 1 = n /\ n + 1 <= n + 1 /\ \A k \in (n + 1)..(n + 1) : k = n + 1
                        BY <1>1
                    <6>3. n + 1 \in S
                        BY <6>1, <6>2, <1>1, PromiseLines DEF L, S
                    <6>4. n + 1 \in Promise!Run(doc, n + 1)
                        BY <6>1, <6>2, <1>1, PromiseLines DEF L
                    <6> QED BY <6>3, <6>4
                <5>4. Sublist(RunParts(n + 1), S) = Append(Sublist(RunParts(n), S), LineOf(n + 1, n + 1))
                    BY <5>2, <5>3, <1>1, NoRunGoesOn DEF S
                <5>5. LineOf(n + 1, n + 1) = <<White>> \o text
                    BY <5>3, <1>4 DEF LineOf
                <5>6. Led(Append(ps, text)) = Append(Led(ps), <<White>> \o text)
                    BY <1>3, <1>4, LedAppend
                <5>7. \A i \in DOMAIN after : ~Blank(after[i])
                    <6>1. /\ Append(ps, text) \in Seq(Text) /\ Len(Append(ps, text)) = Len(ps) + 1
                          /\ (\A i \in 1..Len(ps) : Append(ps, text)[i] = ps[i]) /\ Append(ps, text)[Len(ps) + 1] = text
                        BY <1>3, <1>4, AppendProperties
                    <6>2. Len(ps) \in Nat /\ DOMAIN ps = 1..Len(ps) /\ DOMAIN after = 1..(Len(ps) + 1)
                        BY <6>1, <5>1, <1>3, LenProperties
                    <6>3. \A i \in DOMAIN after : i \in 1..Len(ps) \/ i = Len(ps) + 1
                        BY <6>2
                    <6> QED BY <6>1, <6>2, <6>3, <5>1, <1>5, <2>2
                <5> QED BY <5>1, <5>4, <5>5, <5>6, <5>7, <1>2
            <4>2. CASE goesOn
                <5>1. after = WithLast(ps, ps[Len(ps)] \o <<White>> \o text)
                    BY <4>2 DEF after
                <5>2. n \in Nat \ {0} /\ n \in L /\ n + 1 \in L
                    BY <2>2, <4>2, <1>1, <1>6, <1>7 DEF goesOn
                <5>3. PICK front \in Seq(Text), x \in Text :
                         /\ Sublist(RunParts(n), S) = Append(front, x)
                         /\ Sublist(RunParts(n + 1), S) = Append(front, x \o (<<White>> \o text))
                    BY <5>2, <1>1, <1>4, RunGoesOn DEF S, L
                <5>4. ps # <<>>
                    BY <4>2, <1>1 DEF goesOn, Shape, InStep, OpenParagraph
                <5> DEFINE f == SubSeq(ps, 1, Len(ps) - 1)
                           z == ps[Len(ps)]
                           t == z \o <<White>> \o text
                <5>5. f \in Seq(Text) /\ z \in Text /\ ps = Append(f, z)
                    BY <5>4, <1>3, WithLastFront
                <5>6. t \in Text
                    BY <5>5, <1>4, JoinFacts
                <5>7. WithLast(ps, t) = Append(f, t)
                    <6> HIDE DEF t, z
                    <6>1. ps \in Seq(Text)
                        BY <1>3
                    <6> HIDE DEF ps
                    <6> QED BY <5>4, <5>6, <6>1, WithLastFront
                <5> HIDE DEF f, z
                <5>8. Led(ps) = Append(Led(f), <<White>> \o z)
                    BY <5>5, LedAppend
                <5>9. Led(f) \in Seq(Text) /\ <<White>> \o z \in Text
                    BY <5>5, LedProperties, TextFacts
                <5>10. Led(f) = front /\ <<White>> \o z = x
                    <6>1. Append(Led(f), <<White>> \o z) = Append(front, x)
                        BY <5>3, <5>8, <1>2
                    <6> DEFINE lf == Led(f)
                               wz == <<White>> \o z
                    <6>2. lf \in Seq(Text) /\ wz \in Text /\ Append(lf, wz) = Append(front, x)
                        BY <6>1, <5>9
                    <6> HIDE DEF lf, wz
                    <6>3. lf = front /\ wz = x
                        BY <6>2, AppendSame
                    <6> QED BY <6>3 DEF lf, wz
                <5>11. <<White>> \o t = x \o (<<White>> \o text)
                    <6> DEFINE w == <<White>>
                    <6>1. w \in Text /\ z \in Text /\ text \in Text
                        BY <5>5, <1>4, TextFacts
                    <6>2. t = (z \o w) \o text
                        OBVIOUS
                    <6> HIDE DEF w, t
                    <6>3. Regrouped(w, z, w, text)
                        BY <6>1, Regroup
                    <6>4. w \o ((z \o w) \o text) = (w \o z) \o (w \o text)
                        BY <6>3 DEF Regrouped
                    <6>5. x = w \o z
                        BY <5>10 DEF w
                    <6>6. w \o t = x \o (w \o text)
                        BY <6>2, <6>4, <6>5
                    <6> QED BY <6>6 DEF w
                <5>12. Led(Append(f, t)) = Append(Led(f), <<White>> \o t)
                    <6> HIDE DEF t
                    <6> QED BY <5>5, <5>6, LedAppend
                <5>13. \A i \in DOMAIN after : ~Blank(after[i])
                    <6>0. ps \in Seq(Text)
                        BY <1>3
                    <6> HIDE DEF t, ps
                    <6>1. /\ WithLast(ps, t) \in Seq(Text) /\ Len(WithLast(ps, t)) = Len(ps)
                          /\ \A i \in DOMAIN ps : WithLast(ps, t)[i] = IF i = Len(ps) THEN t ELSE ps[i]
                        BY <5>4, <5>6, <6>0, WithLastProperties
                    <6>2. after = WithLast(ps, t)
                        BY <5>1 DEF t, z
                    <6>3. DOMAIN after = DOMAIN ps
                        <7>1. DOMAIN ps = 1..Len(ps)
                            BY <1>3, LenProperties
                        <7>2. after \in Seq(Text) /\ Len(after) = Len(ps)
                            BY <6>1, <6>2
                        <7>3. DOMAIN after = 1..Len(after)
                            BY <7>2, LenProperties
                        <7> QED BY <7>1, <7>2, <7>3
                    <6>4. ~Blank(t)
                        <7>1. <<White>> \in Text /\ z \in Text /\ text \in Text /\ z \o <<White>> \in Text
                            BY <5>5, <1>4, TextFacts
                        <7>2. t = (z \o <<White>>) \o text
                            BY DEF t
                        <7>3. PICK k \in DOMAIN text : text[k] # White
                            BY <2>2 DEF Blank
                        <7> DEFINE zw == z \o <<White>>
                        <7>4. zw \in Seq(Chars) /\ text \in Seq(Chars) /\ k \in 1..Len(text) /\ Len(zw) \in Nat /\ Len(text) \in Nat
                            BY <7>1, <7>3, TextFacts DEF Text
                        <7> HIDE DEF zw
                        <7>5. /\ Len(zw \o text) = Len(zw) + Len(text)
                              /\ \A i \in 1..(Len(zw) + Len(text)) :
                                    (zw \o text)[i] = IF i <= Len(zw) THEN zw[i] ELSE text[i - Len(zw)]
                            BY <7>4, ConcatProperties
                        <7>6. Len(zw) + k \in 1..(Len(zw) + Len(text)) /\ ~(Len(zw) + k <= Len(zw)) /\ Len(zw) + k - Len(zw) = k
                            BY <7>4
                        <7>7. (zw \o text)[Len(zw) + k] = text[k]
                            BY <7>5, <7>6
                        <7>8. zw \o text = t
                            BY <7>2 DEF zw
                        <7>9. DOMAIN t = 1..(Len(zw) + Len(text))
                            BY <7>5, <7>8, <5>6, TextFacts
                        <7> QED BY <7>3, <7>6, <7>7, <7>8, <7>9 DEF Blank
                    <6> QED BY <6>1, <6>2, <6>3, <6>4, <1>5
                <5>14. after = Append(f, t)
                    BY <5>1, <5>7 DEF z, f
                <5> QED BY <5>3, <5>10, <5>11, <5>12, <5>13, <5>14
            <4> QED BY <4>1, <4>2
        <3> QED BY <3>2, <3>3, <1>2
    <2> QED BY <2>1, <2>2
<1>9. ReadSoFar'
    <2>1. RunParts(read)' = RunParts(n + 1) /\ Promise!RunStarts(doc)' = S
        BY <1>1, RunsStay DEF S
    <2>2. doc.kind' # "docx"
        BY <1>1
    <2>3. Led(sections[1].paragraphs)' = Led(new)
        BY DEF Led
    <2> QED BY <2>1, <2>2, <2>3, <1>8 DEF ReadSoFar
<1>10. SectionsSolid'
    <2>1. DOMAIN sections' = 1..1
        BY <1>3, <1>8
    <2> QED BY <2>1, <1>1, <1>8 DEF SectionsSolid
<1> QED BY <1>9, <1>10
-----------------------------------------------------------------------------
(* The loop over paragraphs with a style. *)

Strips(n) == [i \in 1..n |-> Strip(doc.lines[i].text)]

LEMMA StripsProperties ==
    ASSUME doc \in Document, NEW n \in 0..Len(doc.lines)
    PROVE  /\ Strips(n) \in Seq(Text) /\ Len(Strips(n)) = n
           /\ \A i \in 1..n : Strips(n)[i] = Strip(doc.lines[i].text)
           /\ n < Len(doc.lines) => Strips(n + 1) = Append(Strips(n), Strip(doc.lines[n + 1].text))
<1>0. n \in Nat /\ Len(doc.lines) \in Nat
    BY PromiseLines
<1>1. ASSUME NEW m \in 0..Len(doc.lines)
      PROVE  /\ Strips(m) \in Seq(Text) /\ Len(Strips(m)) = m
             /\ \A i \in 1..m : Strips(m)[i] = Strip(doc.lines[i].text)
    <2>1. m \in Nat /\ \A i \in 1..m : i \in 1..Len(doc.lines)
        BY <1>0
    <2>2. \A i \in 1..m : Strip(doc.lines[i].text) \in Text
        BY <2>1, LineText
    <2>3. Strips(m) \in Seq(Text)
        BY <2>1, <2>2, IsASeq DEF Strips
    <2>4. Len(Strips(m)) = m
        BY <2>1, <2>3, LenProperties DEF Strips
    <2> QED BY <2>3, <2>4 DEF Strips
<1>2. ASSUME n < Len(doc.lines) PROVE Strips(n + 1) = Append(Strips(n), Strip(doc.lines[n + 1].text))
    <2> DEFINE x == Strip(doc.lines[n + 1].text)
               a == Strips(n)
               b == Strips(n + 1)
    <2>1. n + 1 \in 1..Len(doc.lines) /\ n + 1 \in 0..Len(doc.lines)
        BY <1>0, <1>2
    <2>2. x \in Text
        BY <2>1, LineText
    <2>3. a \in Seq(Text) /\ Len(a) = n /\ \A i \in 1..n : a[i] = Strip(doc.lines[i].text)
        BY <1>1
    <2>4. b \in Seq(Text) /\ Len(b) = n + 1 /\ \A i \in 1..(n + 1) : b[i] = Strip(doc.lines[i].text)
        BY <2>1, <1>1
    <2> HIDE DEF a, b
    <2>5. /\ Append(a, x) \in Seq(Text) /\ Len(Append(a, x)) = n + 1
          /\ (\A i \in 1..n : Append(a, x)[i] = a[i]) /\ Append(a, x)[n + 1] = x
        <3> HIDE DEF x
        <3> QED BY <2>2, <2>3, AppendProperties
    <2>6. \A i \in 1..(n + 1) : i \in 1..n \/ i = n + 1
        BY <1>0
    <2>7. \A i \in 1..(n + 1) : b[i] = Append(a, x)[i]
        BY <2>3, <2>4, <2>5, <2>6
    <2>8. b = Append(a, x)
        <3> HIDE DEF x
        <3> QED BY <2>4, <2>5, <2>7, SeqEqual
    <2> QED BY <2>8 DEF a, b
<1> QED BY <1>1, <1>2

LEMMA SectionPartProperties ==
    ASSUME doc \in Document, NEW n \in 0..Len(doc.lines), NEW s \in 1..(n + 1)
    PROVE  /\ SectionPart(s, n) \in Section
           /\ n < Len(doc.lines) =>
                 SectionPart(s, n + 1) =
                    [heading    |-> SectionPart(s, n).heading,
                     paragraphs |-> IF n + 1 \in Promise!Under(doc, s)
                                    THEN Append(SectionPart(s, n).paragraphs, Strip(doc.lines[n + 1].text))
                                    ELSE SectionPart(s, n).paragraphs]
<1> DEFINE U == Promise!Under(doc, s)
<1>0. n \in Nat /\ Len(doc.lines) \in Nat
    BY PromiseLines
<1>1. (IF s = 1 THEN <<>> ELSE Strip(doc.lines[s - 1].text)) \in Text
    <2>1. CASE s = 1
        BY <2>1, TextFacts
    <2>2. CASE s # 1
        <3>1. s - 1 \in 1..Len(doc.lines)
            BY <1>0, <2>2
        <3> QED BY <3>1, <2>2, LineText
    <2> QED BY <2>1, <2>2
<1>2. SectionPart(s, n).paragraphs = Sublist(Strips(n), U)
    BY DEF SectionPart, Strips
<1>3. Sublist(Strips(n), U) \in Seq(Text)
    <2> HIDE DEF U
    <2> QED BY StripsProperties, SublistType
<1>4. SectionPart(s, n) \in Section
    <2>1. SectionPart(s, n) = [heading |-> IF s = 1 THEN <<>> ELSE Strip(doc.lines[s - 1].text),
                               paragraphs |-> Sublist(Strips(n), U)]
        BY DEF SectionPart, Strips
    <2> QED BY <2>1, <1>1, <1>3 DEF Section
<1>5. ASSUME n < Len(doc.lines)
      PROVE  SectionPart(s, n + 1) =
                    [heading    |-> SectionPart(s, n).heading,
                     paragraphs |-> IF n + 1 \in U
                                    THEN Append(SectionPart(s, n).paragraphs, Strip(doc.lines[n + 1].text))
                                    ELSE SectionPart(s, n).paragraphs]
    <2> DEFINE x == Strip(doc.lines[n + 1].text)
    <2>1. x \in Text
        <3>1. n + 1 \in 1..Len(doc.lines)
            BY <1>0, <1>5
        <3> QED BY <3>1, LineText
    <2>2. Strips(n) \in Seq(Text) /\ Len(Strips(n)) = n /\ Strips(n + 1) = Append(Strips(n), x)
        BY <1>5, StripsProperties
    <2> HIDE DEF x, U
    <2>3. Sublist(Strips(n + 1), U) = IF n + 1 \in U THEN Append(Sublist(Strips(n), U), x) ELSE Sublist(Strips(n), U)
        <3> DEFINE a == Strips(n)
        <3>1. a \in Seq(Text) /\ Len(a) = n
            BY <2>2
        <3> HIDE DEF a
        <3>2. Sublist(Append(a, x), U) = IF Len(a) + 1 \in U THEN Append(Sublist(a, U), x) ELSE Sublist(a, U)
            BY <2>1, <3>1, SublistAppend
        <3> QED BY <2>2, <3>1, <3>2 DEF a
    <2>4. SectionPart(s, n + 1) = [heading |-> IF s = 1 THEN <<>> ELSE Strip(doc.lines[s - 1].text),
                                   paragraphs |-> Sublist(Strips(n + 1), U)]
        BY DEF SectionPart, Strips, U
    <2>5. SectionPart(s, n).heading = IF s = 1 THEN <<>> ELSE Strip(doc.lines[s - 1].text)
        BY DEF SectionPart
    <2> QED BY <1>2, <2>3, <2>4, <2>5 DEF U, x
<1> QED BY <1>4, <1>5

LEMMA SectionPartsType ==
    ASSUME doc \in Document, NEW n \in 0..Len(doc.lines)
    PROVE  /\ SectionParts(n) \in Seq(Section) /\ Len(SectionParts(n)) = n + 1
           /\ \A s \in 1..(n + 1) : SectionParts(n)[s] = SectionPart(s, n)
<1>1. n \in Nat
    BY PromiseLines
<1>2. \A s \in 1..(n + 1) : SectionPart(s, n) \in Section
    BY SectionPartProperties
<1>3. SectionParts(n) \in Seq(Section)
    BY <1>1, <1>2, IsASeq DEF SectionParts
<1>4. Len(SectionParts(n)) = n + 1
    BY <1>1, <1>3, LenProperties DEF SectionParts
<1> QED BY <1>3, <1>4 DEF SectionParts

\* A line without text and a heading add to no section.
LEMMA NoSectionGrows ==
    ASSUME doc \in Document, NEW n \in Nat, n < Len(doc.lines),
           \A s \in 1..(n + 1) : n + 1 \notin Promise!Under(doc, s)
    PROVE  Sublist(SectionParts(n + 1), Promise!Starts(doc)) =
              IF n + 2 \in Promise!Starts(doc)
              THEN Append(Sublist(SectionParts(n), Promise!Starts(doc)),
                          [heading |-> Strip(doc.lines[n + 1].text), paragraphs |-> <<>>])
              ELSE Sublist(SectionParts(n), Promise!Starts(doc))
<1> DEFINE S == Promise!Starts(doc)
           a == SectionParts(n)
           b == SectionParts(n + 1)
           x == [heading |-> Strip(doc.lines[n + 1].text), paragraphs |-> <<>>]
<1>1. /\ n \in 0..Len(doc.lines) /\ n + 1 \in 0..Len(doc.lines) /\ Len(doc.lines) \in Nat
      /\ n + 2 \in 1..((n + 1) + 1) /\ (n + 1) + 1 = n + 2
    BY PromiseLines
<1>2. a \in Seq(Section) /\ Len(a) = n + 1 /\ (\A s \in 1..(n + 1) : a[s] = SectionPart(s, n))
    BY <1>1, SectionPartsType
<1>3. b \in Seq(Section) /\ Len(b) = n + 2 /\ (\A s \in 1..(n + 2) : b[s] = SectionPart(s, n + 1))
    <2>1. b \in Seq(Section) /\ Len(b) = (n + 1) + 1 /\ (\A s \in 1..((n + 1) + 1) : b[s] = SectionPart(s, n + 1))
        BY <1>1, SectionPartsType
    <2> QED BY <2>1, <1>1
<1>4. \A s \in 1..(n + 1) : SectionPart(s, n + 1) = SectionPart(s, n)
    <2> SUFFICES ASSUME NEW s \in 1..(n + 1) PROVE SectionPart(s, n + 1) = SectionPart(s, n)
        OBVIOUS
    <2>1. n + 1 \notin Promise!Under(doc, s)
        OBVIOUS
    <2>2. /\ SectionPart(s, n) \in Section
          /\ SectionPart(s, n + 1) = [heading    |-> SectionPart(s, n).heading,
                                      paragraphs |-> SectionPart(s, n).paragraphs]
        BY <1>1, <2>1, SectionPartProperties
    <2> QED BY <2>2 DEF Section
<1>5. SectionPart(n + 2, n + 1) = x
    <2>1. \A i \in 1..(n + 1) : i \notin Promise!Under(doc, n + 2)
        BY PromiseLines
    <2>2. Sublist(Strips(n + 1), Promise!Under(doc, n + 2)) = <<>>
        <3> DEFINE u == Promise!Under(doc, n + 2)
                   t == Strips(n + 1)
        <3>1. t \in Seq(Text) /\ \A i \in 1..Len(t) : i \notin u
            BY <1>1, <2>1, StripsProperties
        <3> HIDE DEF u, t
        <3>2. Sublist(t, u) = <<>>
            BY <3>1, SublistNone
        <3> QED BY <3>2 DEF u, t
    <2>3. (n + 2) - 1 = n + 1 /\ n + 2 # 1
        OBVIOUS
    <2> QED BY <2>2, <2>3 DEF SectionPart, Strips
<1>6. x \in Section
    <2>1. SectionPart(n + 2, n + 1) \in Section
        BY <1>1, SectionPartProperties
    <2> QED BY <2>1, <1>5
<1> HIDE DEF a, b, S, x
<1>7. b = Append(a, x)
    <2>1. /\ Append(a, x) \in Seq(Section) /\ Len(Append(a, x)) = n + 2
          /\ (\A i \in 1..(n + 1) : Append(a, x)[i] = a[i]) /\ Append(a, x)[n + 2] = x
        <3>1. /\ Append(a, x) \in Seq(Section) /\ Len(Append(a, x)) = Len(a) + 1
              /\ (\A i \in 1..Len(a) : Append(a, x)[i] = a[i]) /\ Append(a, x)[Len(a) + 1] = x
            BY <1>2, <1>6, AppendProperties
        <3> QED BY <3>1, <1>1, <1>2
    <2>2. \A i \in 1..(n + 2) : i \in 1..(n + 1) \/ i = n + 2
        OBVIOUS
    <2>3. \A i \in 1..(n + 2) : b[i] = Append(a, x)[i]
        BY <2>1, <2>2, <1>2, <1>3, <1>4, <1>5
    <2> QED BY <1>3, <2>1, <2>3, SeqEqual
<1>8. Sublist(Append(a, x), S) = IF Len(a) + 1 \in S THEN Append(Sublist(a, S), x) ELSE Sublist(a, S)
    BY <1>2, <1>6, SublistAppend
<1>9. Len(a) + 1 = n + 2
    BY <1>1, <1>2
<1> QED BY <1>7, <1>8, <1>9 DEF a, b, S, x

\* Any other adds to the last one.
LEMMA LastSectionGrows ==
    ASSUME doc \in Document, NEW n \in Nat, n < Len(doc.lines),
           n + 1 \in Promise!TextLines(doc), n + 1 \notin Promise!Headings(doc)
    PROVE  \E front \in Seq(Section), x \in Section :
              /\ Sublist(SectionParts(n), Promise!Starts(doc)) = Append(front, x)
              /\ Sublist(SectionParts(n + 1), Promise!Starts(doc)) =
                    Append(front, [heading |-> x.heading,
                                   paragraphs |-> Append(x.paragraphs, Strip(doc.lines[n + 1].text))])
<1> DEFINE S == Promise!Starts(doc)
           H == Promise!Headings(doc)
           a == SectionParts(n)
           b == SectionParts(n + 1)
           C == {s \in 1..(n + 1) : s \in S}
<1>1. /\ n \in 0..Len(doc.lines) /\ n + 1 \in 0..Len(doc.lines) /\ Len(doc.lines) \in Nat
      /\ n + 1 \in Nat /\ (n + 1) + 1 = n + 2 /\ 1 \in 1..(n + 1)
    BY PromiseLines
<1>2. a \in Seq(Section) /\ Len(a) = n + 1 /\ (\A s \in 1..(n + 1) : a[s] = SectionPart(s, n))
    BY <1>1, SectionPartsType
<1>3. b \in Seq(Section) /\ Len(b) = n + 2 /\ (\A s \in 1..(n + 2) : b[s] = SectionPart(s, n + 1))
    <2>1. b \in Seq(Section) /\ Len(b) = (n + 1) + 1 /\ (\A s \in 1..((n + 1) + 1) : b[s] = SectionPart(s, n + 1))
        BY <1>1, SectionPartsType
    <2> QED BY <2>1, <1>1
<1>4. PICK m \in C : \A s \in C : s <= m
    <2>1. C \in SUBSET (1..(n + 1))
        OBVIOUS
    <2>2. 1 \in C
        BY <1>1, PromiseLines
    <2> HIDE DEF C
    <2> QED BY <1>1, <2>1, <2>2, Greatest
<1>5. m \in 1..(n + 1) /\ m \in S
    BY <1>4
<1>6. \A s \in 1..(n + 2) : s \in S => s <= m
    <2>1. n + 2 \notin S
        <3> SUFFICES ASSUME n + 2 \in S PROVE FALSE
            OBVIOUS
        <3>1. PICK h \in H : n + 2 = h + 1
            BY PromiseLines
        <3>2. h \in Nat
            BY PromiseLines
        <3>3. h = n + 1
            BY <3>1, <3>2
        <3> QED BY <3>3
    <2>2. \A s \in 1..(n + 2) : s \in 1..(n + 1) \/ s = n + 2
        OBVIOUS
    <2> QED BY <2>1, <2>2, <1>4
<1>7. n + 1 \in Promise!Under(doc, m)
    <2>1. ASSUME NEW k \in m..(n + 1), k \in H PROVE FALSE
        <3>1. k # n + 1 /\ k \in Nat
            BY <2>1, <1>5
        <3>2. k + 1 \in S
            BY <2>1, PromiseLines
        <3>3. k + 1 \in 1..(n + 1)
            BY <3>1, <1>5
        <3>4. k + 1 <= m
            BY <3>2, <3>3, <1>4
        <3> QED BY <3>1, <3>4, <1>5
    <2>2. m <= n + 1
        BY <1>5
    <2> QED BY <2>1, <2>2, PromiseLines
<1>8. \A s \in 1..(m - 1) : s \in S => SectionPart(s, n + 1) = SectionPart(s, n)
    <2> SUFFICES ASSUME NEW s \in 1..(m - 1), s \in S PROVE SectionPart(s, n + 1) = SectionPart(s, n)
        OBVIOUS
    <2>1. n + 1 \notin Promise!Under(doc, s)
        <3>1. m # 1
            BY <1>5
        <3>2. PICK h \in H : m = h + 1
            BY <3>1, <1>5, PromiseLines
        <3>3. h \in Nat
            BY PromiseLines
        <3>4. h \in s..(n + 1)
            BY <3>2, <3>3, <1>5
        <3> QED BY <3>4, PromiseLines
    <2>2. s \in 1..(n + 1)
        BY <1>5
    <2>3. /\ SectionPart(s, n) \in Section
          /\ SectionPart(s, n + 1) = [heading    |-> SectionPart(s, n).heading,
                                      paragraphs |-> SectionPart(s, n).paragraphs]
        BY <1>1, <2>1, <2>2, SectionPartProperties
    <2> QED BY <2>3 DEF Section
<1> DEFINE x == SectionPart(m, n)
           y == SectionPart(m, n + 1)
           fa == SubSeq(a, 1, m - 1)
           fb == SubSeq(b, 1, m - 1)
           front == Sublist(fa, S)
<1>9. x \in Section /\ y = [heading |-> x.heading, paragraphs |-> Append(x.paragraphs, Strip(doc.lines[n + 1].text))]
    BY <1>1, <1>5, <1>7, SectionPartProperties
<1> HIDE DEF S, H, a, b, C
<1>11. fa \in Seq(Section) /\ Len(fa) = m - 1 /\ \A i \in 1..(m - 1) : fa[i] = SectionPart(i, n)
    <2>1. \A i \in 1..(m - 1) : a[i] = SectionPart(i, n)
        <3>1. \A i \in 1..(m - 1) : i \in 1..(n + 1)
            BY <1>5
        <3> QED BY <3>1, <1>2
    <2>2. m \in 1..(Len(a) + 1)
        BY <1>2, <1>5
    <2>3. fa \in Seq(Section) /\ Len(fa) = m - 1 /\ \A i \in 1..(m - 1) : fa[i] = a[i]
        BY <1>2, <2>2, FrontOf
    <2> QED BY <2>1, <2>3
<1>12. fb \in Seq(Section) /\ Len(fb) = m - 1 /\ \A i \in 1..(m - 1) : fb[i] = SectionPart(i, n + 1)
    <2>1. \A i \in 1..(m - 1) : b[i] = SectionPart(i, n + 1)
        <3>1. \A i \in 1..(m - 1) : i \in 1..(n + 2)
            BY <1>5
        <3> QED BY <3>1, <1>3
    <2>2. m \in 1..(Len(b) + 1)
        BY <1>3, <1>5
    <2>3. fb \in Seq(Section) /\ Len(fb) = m - 1 /\ \A i \in 1..(m - 1) : fb[i] = b[i]
        BY <1>3, <2>2, FrontOf
    <2> QED BY <2>1, <2>3
<1>13. Sublist(fb, S) = front /\ front \in Seq(Section)
    <2> HIDE DEF fa, fb
    <2>1. \A i \in 1..Len(fb) : (i \in S <=> i \in S) /\ (i \in S => fb[i] = fa[i])
        BY <1>8, <1>11, <1>12
    <2>2. Len(fb) = Len(fa)
        BY <1>11, <1>12
    <2>3. Sublist(fb, S) = Sublist(fa, S)
        BY <2>1, <2>2, <1>11, <1>12, SublistSame
    <2>4. Sublist(fa, S) \in Seq(Section)
        BY <1>11, SublistType
    <2> QED BY <2>3, <2>4
<1>14. Sublist(a, S) = Append(front, x)
    <2>1. m \in 1..Len(a) /\ \A i \in 1..Len(a) : i \in S => i <= m
        <3>1. \A i \in 1..(n + 1) : i \in 1..(n + 2)
            OBVIOUS
        <3> QED BY <3>1, <1>2, <1>5, <1>6
    <2>2. Sublist(a, S) = Append(Sublist(SubSeq(a, 1, m - 1), S), a[m])
        BY <2>1, <1>2, <1>5, SublistLast
    <2>3. a[m] = x
        BY <1>2, <1>5
    <2> QED BY <2>2, <2>3
<1>15. Sublist(b, S) = Append(front, y)
    <2>1. m \in 1..(n + 2)
        BY <1>5
    <2>2. m \in 1..Len(b) /\ \A i \in 1..Len(b) : i \in S => i <= m
        BY <2>1, <1>3, <1>6
    <2>3. Sublist(b, S) = Append(Sublist(SubSeq(b, 1, m - 1), S), b[m])
        BY <2>2, <1>3, <1>5, SublistLast
    <2>4. b[m] = y
        BY <2>1, <1>3
    <2> QED BY <2>3, <2>4, <1>13
<1> HIDE DEF front, x, y
<1> QED BY <1>9, <1>13, <1>14, <1>15 DEF S, a, b

LEMMA SectionsStay ==
    ASSUME doc' = doc
    PROVE  SectionParts(read)' = SectionParts(read') /\ Promise!Starts(doc)' = Promise!Starts(doc)
<1>1. Promise!Starts(doc)' = Promise!Starts(doc)
    BY DEF Promise!Starts, Promise!Headings, Promise!TextLines, Promise!Blank
<1>2. SectionParts(read)' = SectionParts(read')
    BY DEF SectionParts, SectionPart, Promise!Under, Promise!Headings, Promise!TextLines, Promise!Blank
<1> QED BY <1>1, <1>2

LEMMA WithParagraphs ==
    ASSUME NEW z \in Section, NEW q
    PROVE  [z EXCEPT !.paragraphs = q] = [heading |-> z.heading, paragraphs |-> q]
<1> QED BY DEF Section

\* Headings and paragraphs begin and end with ink.
Clean(s) ==
    /\ s.heading = NoHeading \/ Solid(s.heading)
    /\ \A i \in DOMAIN s.paragraphs : Solid(s.paragraphs[i])

LEMMA CleanAppend ==
    ASSUME NEW ss \in Seq(Section), NEW x \in Section, \A k \in DOMAIN ss : Clean(ss[k]), Clean(x)
    PROVE  \A k \in DOMAIN Append(ss, x) : Clean(Append(ss, x)[k])
<1>1. /\ Append(ss, x) \in Seq(Section) /\ Len(Append(ss, x)) = Len(ss) + 1
      /\ (\A i \in 1..Len(ss) : Append(ss, x)[i] = ss[i]) /\ Append(ss, x)[Len(ss) + 1] = x
    BY AppendProperties
<1>2. DOMAIN ss = 1..Len(ss) /\ Len(ss) \in Nat /\ DOMAIN Append(ss, x) = 1..(Len(ss) + 1)
    BY <1>1, LenProperties
<1>3. \A i \in 1..(Len(ss) + 1) : i \in 1..Len(ss) \/ i = Len(ss) + 1
    BY <1>2
<1> QED BY <1>1, <1>2, <1>3

\* ReadParagraph reads what the next paragraph has in its section.
LEMMA ReadParagraphKeeps ==
    ASSUME Shape, Shape', SectionsSolid, ReadSoFar, ReadParagraph
    PROVE  SectionsSolid' /\ ReadSoFar'
<1> DEFINE S == Promise!Starts(doc)
           L == Promise!TextLines(doc)
           H == Promise!Headings(doc)
           n == read
           line == NextLine.text
           text == Strip(line)
           last == sections[Len(sections)]
<1>1. /\ doc \in Document /\ n \in Nat /\ n < Len(doc.lines) /\ Len(doc.lines) \in Nat
      /\ phase = "reading" /\ phase' = "reading" /\ doc' = doc /\ read' = n + 1 /\ doc.kind = "docx"
      /\ sections \in Seq(Section) /\ sections # <<>>
      /\ sections' = IF text = <<>> THEN sections
                     ELSE IF NextLine.heading
                          THEN Append(sections, [heading |-> text, paragraphs |-> <<>>])
                     ELSE WithLast(sections, [last EXCEPT !.paragraphs = Append(@, text)])
    <2>1. doc \in Document
        BY DEF Shape, TypeOK
    <2>2. /\ read \in 0..Len(doc.lines) /\ Len(doc.lines) \in Nat
          /\ sections \in Seq(Section) /\ sections # <<>>
        BY <2>1, PromiseLines DEF Shape, TypeOK, Section
    <2>3. /\ phase = "reading" /\ doc.kind = "docx" /\ read < Len(doc.lines)
          /\ phase' = phase /\ doc' = doc /\ read' = n + 1
        BY DEF ReadParagraph
    <2>4. sections' = IF text = <<>> THEN sections
                      ELSE IF NextLine.heading
                           THEN Append(sections, [heading |-> text, paragraphs |-> <<>>])
                      ELSE WithLast(sections, [last EXCEPT !.paragraphs = Append(@, text)])
        BY DEF ReadParagraph
    <2> QED BY <2>1, <2>2, <2>3, <2>4
<1>2. sections = Sublist(SectionParts(n), S)
    BY <1>1 DEF ReadSoFar
<1>3. /\ line \in Text /\ text \in Text /\ n + 1 \in 1..Len(doc.lines) /\ line = doc.lines[n + 1].text
      /\ text = Strip(doc.lines[n + 1].text)
      /\ NextLine.heading = doc.lines[n + 1].heading
    <2>1. n + 1 \in 1..Len(doc.lines)
        BY <1>1
    <2> QED BY <2>1, <1>1, LineText DEF NextLine
<1>4. text = <<>> <=> Blank(line)
    BY <1>3, BlankStrip
<1>5. /\ n + 1 \in L <=> text # <<>>
      /\ n + 1 \in H <=> text # <<>> /\ NextLine.heading
      /\ n + 2 \in S <=> n + 1 \in H
    <2>1. n + 1 \in L <=> text # <<>>
        BY <1>1, <1>3, <1>4, PromiseLines
    <2>2. n + 1 \in H <=> text # <<>> /\ NextLine.heading
        BY <2>1, <1>1, <1>3, PromiseLines
    <2>3. n + 2 \in S => n + 1 \in H
        <3> SUFFICES ASSUME n + 2 \in S PROVE n + 1 \in H
            OBVIOUS
        <3>1. n + 2 # 1
            BY <1>1
        <3>2. PICK h \in H : n + 2 = h + 1
            BY <3>1, <1>1, PromiseLines
        <3>3. h \in Nat
            BY <1>1, PromiseLines
        <3>4. h = n + 1
            BY <3>2, <3>3, <1>1
        <3> QED BY <3>4
    <2>4. n + 1 \in H => n + 2 \in S
        <3>1. n + 2 = (n + 1) + 1
            BY <1>1
        <3> QED BY <3>1, <1>1, PromiseLines
    <2> QED BY <2>1, <2>2, <2>3, <2>4
<1>6. \A k \in DOMAIN sections : Clean(sections[k])
    BY <1>1 DEF SectionsSolid, Clean
<1>7. text # <<>> => Solid(text) /\ ~Blank(text)
    BY <1>3, <1>4, StripSolid, SolidFacts
<1> HIDE DEF S, L, H, line, text, last
<1>8. sections' = Sublist(SectionParts(n + 1), S) /\ \A k \in DOMAIN sections' : Clean(sections'[k])
    <2>1. CASE text = <<>>
        <3>1. \A s \in 1..(n + 1) : n + 1 \notin Promise!Under(doc, s)
            BY <2>1, <1>1, <1>5, PromiseLines DEF L
        <3>2. n + 2 \notin S
            BY <2>1, <1>5
        <3>3. Sublist(SectionParts(n + 1), S) = Sublist(SectionParts(n), S)
            BY <3>1, <3>2, <1>1, NoSectionGrows DEF S
        <3>4. sections' = sections
            BY <2>1, <1>1
        <3> QED BY <3>3, <3>4, <1>2, <1>6
    <2>2. CASE text # <<>> /\ NextLine.heading
        <3> DEFINE x == [heading |-> text, paragraphs |-> <<>>]
        <3>1. \A s \in 1..(n + 1) : n + 1 \notin Promise!Under(doc, s)
            <4> SUFFICES ASSUME NEW s \in 1..(n + 1), n + 1 \in Promise!Under(doc, s) PROVE FALSE
                OBVIOUS
            <4>1. n + 1 \in H
                BY <2>2, <1>5
            <4>2. n + 1 \in s..(n + 1)
                BY <1>1
            <4> QED BY <4>1, <4>2, <1>1, PromiseLines DEF H
        <3>2. n + 2 \in S
            BY <2>2, <1>5
        <3>3. Sublist(SectionParts(n + 1), S) = Append(Sublist(SectionParts(n), S), x)
            BY <3>1, <3>2, <1>1, <1>3, NoSectionGrows DEF S
        <3>4. sections' = Append(sections, x)
            BY <2>2, <1>1
        <3>5. x \in Section
            <4>1. <<>> \in Seq(Text)
                OBVIOUS
            <4> QED BY <4>1, <1>3 DEF Section
        <3>6. Clean(x)
            <4>1. x.heading = text /\ DOMAIN x.paragraphs = {}
                OBVIOUS
            <4> QED BY <4>1, <2>2, <1>7 DEF Clean
        <3> HIDE DEF x
        <3> QED BY <3>3, <3>4, <3>5, <3>6, <1>1, <1>2, <1>6, CleanAppend
    <2>3. CASE text # <<>> /\ ~NextLine.heading
        <3>1. n + 1 \in L /\ n + 1 \notin H
            BY <2>3, <1>5
        <3>2. PICK front \in Seq(Section), x \in Section :
                 /\ Sublist(SectionParts(n), S) = Append(front, x)
                 /\ Sublist(SectionParts(n + 1), S) =
                       Append(front, [heading |-> x.heading, paragraphs |-> Append(x.paragraphs, text)])
            BY <3>1, <1>1, <1>3, LastSectionGrows DEF L, H, S
        <3> DEFINE f == SubSeq(sections, 1, Len(sections) - 1)
                   ps == x.paragraphs
                   y == [heading |-> x.heading, paragraphs |-> Append(ps, text)]
        <3>3. f \in Seq(Section) /\ last \in Section /\ sections = Append(f, last)
            BY <1>1, WithLastFront DEF last
        <3>4. f = front /\ last = x
            <4> HIDE DEF f
            <4>1. Append(f, last) = Append(front, x)
                BY <3>2, <3>3, <1>2
            <4> QED BY <4>1, <3>3, AppendSame
        <3>5. ps \in Seq(Text) /\ x.heading \in Text
            BY DEF Section
        <3>6. y \in Section
            <4>1. Append(ps, text) \in Seq(Text)
                <5> HIDE DEF ps
                <5> QED BY <3>5, <1>3, AppendProperties
            <4> QED BY <4>1, <3>5 DEF Section
        <3>7. y = [last EXCEPT !.paragraphs = Append(@, text)]
            <4>1. [last EXCEPT !.paragraphs = Append(last.paragraphs, text)] =
                     [heading |-> last.heading, paragraphs |-> Append(last.paragraphs, text)]
                BY <3>3, WithParagraphs
            <4> QED BY <4>1, <3>4
        <3>8. sections' = Append(front, y)
            <4>1. sections' = WithLast(sections, y)
                BY <2>3, <3>7, <1>1
            <4> HIDE DEF y
            <4>2. WithLast(sections, y) = Append(SubSeq(sections, 1, Len(sections) - 1), y)
                BY <3>6, <1>1, WithLastFront
            <4> QED BY <4>1, <4>2, <3>4
        <3>9. \A k \in DOMAIN front : Clean(front[k])
            <4>1. /\ Append(front, x) \in Seq(Section) /\ Len(Append(front, x)) = Len(front) + 1
                  /\ (\A i \in 1..Len(front) : Append(front, x)[i] = front[i]) /\ Append(front, x)[Len(front) + 1] = x
                BY AppendProperties
            <4>2. DOMAIN front = 1..Len(front) /\ Len(front) \in Nat /\ DOMAIN sections = 1..(Len(front) + 1)
                BY <4>1, <3>3, <3>4, LenProperties
            <4>3. \A k \in 1..Len(front) : k \in 1..(Len(front) + 1) /\ sections[k] = front[k]
                BY <4>1, <4>2, <3>3, <3>4
            <4> QED BY <4>2, <4>3, <1>6
        <3>10. Clean(x)
            <4>1. Len(sections) \in DOMAIN sections
                BY <1>1, EmptySeq, LenProperties
            <4> QED BY <4>1, <3>4, <1>6 DEF last
        <3>11. Clean(y)
            <4>1. y.heading = x.heading /\ y.paragraphs = Append(ps, text)
                OBVIOUS
            <4>2. \A i \in DOMAIN Append(ps, text) : Solid(Append(ps, text)[i])
                <5>1. \A i \in DOMAIN ps : Solid(ps[i])
                    BY <3>10 DEF Clean
                <5> HIDE DEF ps
                <5>2. /\ Append(ps, text) \in Seq(Text) /\ Len(Append(ps, text)) = Len(ps) + 1
                      /\ (\A i \in 1..Len(ps) : Append(ps, text)[i] = ps[i]) /\ Append(ps, text)[Len(ps) + 1] = text
                    BY <3>5, <1>3, AppendProperties
                <5>3. DOMAIN ps = 1..Len(ps) /\ Len(ps) \in Nat /\ DOMAIN Append(ps, text) = 1..(Len(ps) + 1)
                    BY <5>2, <3>5, LenProperties
                <5>4. \A i \in 1..(Len(ps) + 1) : i \in 1..Len(ps) \/ i = Len(ps) + 1
                    BY <5>3
                <5> QED BY <5>1, <5>2, <5>3, <5>4, <2>3, <1>7
            <4> HIDE DEF y, ps
            <4> QED BY <4>1, <4>2, <3>10 DEF Clean
        <3>12. \A k \in DOMAIN sections' : Clean(sections'[k])
            <4> HIDE DEF y
            <4> QED BY <3>6, <3>8, <3>9, <3>11, CleanAppend
        <3> QED BY <3>2, <3>8, <3>12
    <2> QED BY <2>1, <2>2, <2>3
<1>9. ReadSoFar'
    <2>1. SectionParts(read)' = SectionParts(n + 1) /\ Promise!Starts(doc)' = S
        BY <1>1, SectionsStay DEF S
    <2> QED BY <2>1, <1>1, <1>8 DEF ReadSoFar
<1>10. SectionsSolid'
    <2>1. \A k \in DOMAIN sections' : \A i \in DOMAIN sections'[k].paragraphs : ~Blank(sections'[k].paragraphs[i])
        <3> SUFFICES ASSUME NEW k \in DOMAIN sections', NEW i \in DOMAIN sections'[k].paragraphs
                     PROVE  ~Blank(sections'[k].paragraphs[i])
            OBVIOUS
        <3>1. sections' \in Seq(Section)
            BY DEF Shape, TypeOK, Section
        <3>2. sections'[k].paragraphs \in Seq(Text)
            <4>1. sections'[k] \in Section
                BY <3>1, LenProperties, ElementOfSeq
            <4> QED BY <4>1 DEF Section
        <3>3. sections'[k].paragraphs[i] \in Text
            BY <3>2, LenProperties, ElementOfSeq
        <3>4. Solid(sections'[k].paragraphs[i])
            BY <1>8 DEF Clean
        <3> QED BY <3>3, <3>4, SolidFacts
    <2> QED BY <2>1, <1>1, <1>8 DEF SectionsSolid, Clean
<1> QED BY <1>9, <1>10
-----------------------------------------------------------------------------
(* The end of reading: what is read is what the document says. *)

LEMMA SubSeqAppend ==
    ASSUME NEW T, NEW s \in Seq(T), NEW n \in 1..Len(s)
    PROVE  /\ SubSeq(s, 1, n - 1) \in Seq(T) /\ Len(SubSeq(s, 1, n - 1)) = n - 1 /\ s[n] \in T
           /\ SubSeq(s, 1, n) \in Seq(T) /\ Len(SubSeq(s, 1, n)) = n
           /\ SubSeq(s, 1, n) = Append(SubSeq(s, 1, n - 1), s[n])
<1> DEFINE a == SubSeq(s, 1, n - 1)
           b == SubSeq(s, 1, n)
           x == s[n]
<1>0. Len(s) \in Nat /\ n \in Nat \ {0} /\ n \in 1..(Len(s) + 1) /\ n + 1 \in 1..(Len(s) + 1) /\ (n + 1) - 1 = n
    BY LenProperties
<1>1. a \in Seq(T) /\ Len(a) = n - 1 /\ \A i \in 1..(n - 1) : a[i] = s[i]
    BY <1>0, FrontOf
<1>2. b \in Seq(T) /\ Len(b) = n /\ \A i \in 1..n : b[i] = s[i]
    <2> DEFINE m == n + 1
    <2>1. m \in 1..(Len(s) + 1) /\ m - 1 = n
        BY <1>0
    <2> HIDE DEF m
    <2>2. SubSeq(s, 1, m - 1) \in Seq(T) /\ Len(SubSeq(s, 1, m - 1)) = m - 1 /\ \A i \in 1..(m - 1) : SubSeq(s, 1, m - 1)[i] = s[i]
        BY <2>1, FrontOf
    <2> QED BY <2>1, <2>2
<1>3. x \in T
    BY ElementOfSeq
<1> HIDE DEF a, b, x
<1>4. /\ Append(a, x) \in Seq(T) /\ Len(Append(a, x)) = n
      /\ (\A i \in 1..(n - 1) : Append(a, x)[i] = a[i]) /\ Append(a, x)[n] = x
    <2>1. /\ Append(a, x) \in Seq(T) /\ Len(Append(a, x)) = Len(a) + 1
          /\ (\A i \in 1..Len(a) : Append(a, x)[i] = a[i]) /\ Append(a, x)[Len(a) + 1] = x
        BY <1>1, <1>3, AppendProperties
    <2> QED BY <2>1, <1>0, <1>1
<1>5. \A i \in 1..n : i \in 1..(n - 1) \/ i = n
    BY <1>0
<1>6. \A i \in 1..n : b[i] = Append(a, x)[i]
    BY <1>1, <1>2, <1>4, <1>5 DEF x
<1>7. b = Append(a, x)
    BY <1>2, <1>4, <1>6, SeqEqual
<1> QED BY <1>1, <1>2, <1>3, <1>7 DEF a, b, x

\* The paragraphs, without the white space around each.
StripAll(ss) == [k \in DOMAIN ss |-> Strip(ss[k])]

LEMMA StripAllProperties ==
    ASSUME NEW ss \in Seq(Text)
    PROVE  /\ StripAll(ss) \in Seq(Text) /\ Len(StripAll(ss)) = Len(ss)
           /\ \A k \in 1..Len(ss) : StripAll(ss)[k] = Strip(ss[k])
<1>1. Len(ss) \in Nat /\ DOMAIN ss = 1..Len(ss)
    BY LenProperties
<1>2. \A k \in 1..Len(ss) : Strip(ss[k]) \in Text
    BY ElementOfSeq, StripType
<1>3. StripAll(ss) = [k \in 1..Len(ss) |-> Strip(ss[k])]
    BY <1>1 DEF StripAll
<1>4. StripAll(ss) \in Seq(Text)
    BY <1>1, <1>2, <1>3, IsASeq
<1>5. Len(StripAll(ss)) = Len(ss)
    BY <1>1, <1>3, <1>4, LenProperties
<1> QED BY <1>3, <1>4, <1>5

LEMMA StripAllAppend ==
    ASSUME NEW ss \in Seq(Text), NEW x \in Text
    PROVE  StripAll(Append(ss, x)) = Append(StripAll(ss), Strip(x))
<1> DEFINE y == Strip(x)
           a == Append(ss, x)
           l == StripAll(ss)
           b == Append(l, y)
<1>1. y \in Text
    BY StripType
<1>2. a \in Seq(Text) /\ Len(a) = Len(ss) + 1 /\ (\A k \in 1..Len(ss) : a[k] = ss[k]) /\ a[Len(ss) + 1] = x
    BY AppendProperties
<1>3. /\ l \in Seq(Text) /\ Len(l) = Len(ss) /\ Len(ss) \in Nat
      /\ \A k \in 1..Len(ss) : l[k] = Strip(ss[k])
    BY StripAllProperties, LenProperties
<1> HIDE DEF y, a, l
<1>4. /\ StripAll(a) \in Seq(Text) /\ Len(StripAll(a)) = Len(ss) + 1
      /\ \A k \in 1..(Len(ss) + 1) : StripAll(a)[k] = Strip(a[k])
    BY <1>2, StripAllProperties
<1>5. b \in Seq(Text) /\ Len(b) = Len(ss) + 1 /\ (\A k \in 1..Len(ss) : b[k] = l[k]) /\ b[Len(ss) + 1] = y
    <2>1. Append(l, y) \in Seq(Text) /\ Len(Append(l, y)) = Len(l) + 1 /\ (\A k \in 1..Len(l) : Append(l, y)[k] = l[k]) /\ Append(l, y)[Len(l) + 1] = y
        BY <1>1, <1>3, AppendProperties
    <2> QED BY <2>1, <1>3
<1> HIDE DEF b
<1>6. \A k \in 1..(Len(ss) + 1) : StripAll(a)[k] = b[k]
    <2> SUFFICES ASSUME NEW k \in 1..(Len(ss) + 1) PROVE StripAll(a)[k] = b[k]
        OBVIOUS
    <2>1. CASE k \in 1..Len(ss)
        BY <2>1, <1>2, <1>3, <1>4, <1>5
    <2>2. CASE k = Len(ss) + 1
        <3>1. StripAll(a)[k] = Strip(x)
            BY <2>2, <1>2, <1>4
        <3> QED BY <3>1, <2>2, <1>5 DEF y
    <2> QED BY <1>3, <2>1, <2>2
<1>7. StripAll(a) = b
    BY <1>4, <1>5, <1>6, SeqEqual
<1> QED BY <1>7 DEF a, b, y, l

LEMMA StripAllSublist ==
    ASSUME NEW e \in Seq(Text), NEW S
    PROVE  StripAll(Sublist(e, S)) = Sublist(StripAll(e), S)
<1> DEFINE bad == {n \in 0..Len(e) : StripAll(Sublist(SubSeq(e, 1, n), S)) # Sublist(StripAll(SubSeq(e, 1, n)), S)}
<1>1. Len(e) \in Nat
    BY LenProperties
<1>2. ASSUME bad # {} PROVE FALSE
    <2>1. bad \in SUBSET Nat
        OBVIOUS
    <2>2. PICK n \in bad : \A m \in bad : n <= m
        <3> HIDE DEF bad
        <3> QED BY <1>2, <2>1, Least
    <2>3. n \in 0..Len(e) /\ StripAll(Sublist(SubSeq(e, 1, n), S)) # Sublist(StripAll(SubSeq(e, 1, n)), S)
        BY <2>2
    <2>4. CASE n = 0
        <3> DEFINE a == SubSeq(e, 1, 0)
        <3>1. a \in Seq(Text) /\ Len(a) = 0
            <4>1. 1 \in 1..(Len(e) + 1) /\ 1 - 1 = 0
                BY <1>1
            <4>2. SubSeq(e, 1, 1 - 1) \in Seq(Text) /\ Len(SubSeq(e, 1, 1 - 1)) = 1 - 1
                BY <4>1, FrontOf
            <4> QED BY <4>1, <4>2
        <3> HIDE DEF a
        <3>2. Sublist(a, S) = <<>>
            <4>1. \A i \in 1..Len(a) : i \notin S
                BY <3>1
            <4> QED BY <4>1, <3>1, SublistNone
        <3>3. StripAll(a) \in Seq(Text) /\ Len(StripAll(a)) = 0
            BY <3>1, StripAllProperties
        <3> DEFINE b == StripAll(a)
        <3>4. b \in Seq(Text) /\ Len(b) = 0
            BY <3>3
        <3> HIDE DEF b
        <3>5. Sublist(b, S) = <<>>
            <4>1. \A i \in 1..Len(b) : i \notin S
                BY <3>4
            <4> QED BY <4>1, <3>4, SublistNone
        <3>6. StripAll(<<>>) = <<>>
            BY DEF StripAll
        <3> QED BY <2>3, <2>4, <3>2, <3>5, <3>6 DEF a, b
    <2>5. CASE n # 0
        <3> DEFINE f == SubSeq(e, 1, n - 1)
                   x == e[n]
                   g == Sublist(f, S)
                   h == StripAll(f)
        <3>1. n \in 1..Len(e)
            BY <2>3, <2>5, <1>1
        <3>2. f \in Seq(Text) /\ Len(f) = n - 1 /\ x \in Text /\ SubSeq(e, 1, n) = Append(f, x)
            BY <3>1, SubSeqAppend
        <3>3. StripAll(Sublist(f, S)) = Sublist(StripAll(f), S)
            <4>1. n - 1 \in 0..Len(e) /\ ~(n <= n - 1)
                BY <3>1, <1>1
            <4>2. n - 1 \notin bad
                BY <4>1, <2>2
            <4> QED BY <4>1, <4>2
        <3> HIDE DEF bad, f, x
        <3>4. g \in Seq(Text) /\ h \in Seq(Text) /\ Len(h) = n - 1 /\ Strip(x) \in Text
            BY <3>2, SublistType, StripAllProperties, StripType
        <3>5. Sublist(Append(f, x), S) = IF n \in S THEN Append(g, x) ELSE g
            <4>1. Sublist(Append(f, x), S) = IF Len(f) + 1 \in S THEN Append(g, x) ELSE g
                BY <3>2, SublistAppend
            <4>2. Len(f) + 1 = n
                BY <3>1, <3>2
            <4> QED BY <4>1, <4>2
        <3>6. StripAll(Append(f, x)) = Append(h, Strip(x))
            BY <3>2, StripAllAppend
        <3>7. Sublist(Append(h, Strip(x)), S) = IF n \in S THEN Append(Sublist(h, S), Strip(x)) ELSE Sublist(h, S)
            <4> DEFINE y == Strip(x)
            <4>0. y \in Text
                BY <3>4
            <4> HIDE DEF h, y
            <4>1. Sublist(Append(h, y), S) = IF Len(h) + 1 \in S THEN Append(Sublist(h, S), y) ELSE Sublist(h, S)
                BY <3>4, <4>0, SublistAppend
            <4>2. Len(h) + 1 = n
                BY <3>1, <3>4
            <4> QED BY <4>1, <4>2 DEF y
        <3>8. StripAll(Append(g, x)) = Append(StripAll(g), Strip(x))
            <4> HIDE DEF g
            <4> QED BY <3>2, <3>4, StripAllAppend
        <3>9. StripAll(Sublist(Append(f, x), S)) = Sublist(StripAll(Append(f, x)), S)
            <4> HIDE DEF g, h
            <4>1. StripAll(g) = Sublist(h, S)
                BY <3>3 DEF g, h
            <4> QED BY <4>1, <3>5, <3>6, <3>7, <3>8
        <3> QED BY <3>2, <3>9, <2>3
    <2> QED BY <2>4, <2>5
<1>3. Len(e) \notin bad
    BY <1>2
<1>4. StripAll(Sublist(SubSeq(e, 1, Len(e)), S)) = Sublist(StripAll(SubSeq(e, 1, Len(e))), S)
    BY <1>1, <1>3
<1>5. SubSeq(e, 1, Len(e)) = e
    BY SubSeqFull
<1> QED BY <1>4, <1>5

LEMMA SublistSome ==
    ASSUME NEW T, NEW seq \in Seq(T), NEW S, NEW i \in 1..Len(seq), i \in S
    PROVE  Sublist(seq, S) # <<>>
<1> DEFINE C == {j \in 1..Len(seq) : j \in S}
<1>1. Len(seq) \in Nat /\ C \in SUBSET (1..Len(seq)) /\ C # {}
    BY LenProperties
<1>2. PICK m \in C : \A j \in C : j <= m
    <2> HIDE DEF C
    <2> QED BY <1>1, Greatest
<1>3. m \in 1..Len(seq) /\ m \in S /\ \A j \in 1..Len(seq) : j \in S => j <= m
    BY <1>2
<1> DEFINE f == SubSeq(seq, 1, m - 1)
           g == Sublist(f, S)
           x == seq[m]
<1>4. f \in Seq(T) /\ x \in T
    BY <1>3, SubSeqAppend
<1>5. Sublist(seq, S) = Append(g, x)
    BY <1>3, SublistLast
<1>6. g \in Seq(T)
    <2> HIDE DEF f
    <2> QED BY <1>4, SublistType
<1> HIDE DEF g, x
<1>7. Len(Append(g, x)) = Len(g) + 1 /\ Len(g) \in Nat
    BY <1>4, <1>6, AppendProperties, LenProperties
<1>8. Append(g, x) # <<>>
    <2>1. Len(Append(g, x)) # 0
        BY <1>7
    <2> DEFINE a == Append(g, x)
    <2>2. Len(a) # 0
        BY <2>1
    <2> HIDE DEF a
    <2>3. a # <<>>
        BY <2>2
    <2> QED BY <2>3 DEF a
<1> QED BY <1>5, <1>8

\* All lines read, the parts are the whole paragraphs and sections.
LEMMA WholeRuns ==
    ASSUME doc \in Document
    PROVE  Promise!PlainSection(doc) =
              [heading |-> <<>>,
               paragraphs |-> Sublist(StripAll(RunParts(Len(doc.lines))), Promise!RunStarts(doc))]
<1> DEFINE N == Len(doc.lines)
           e == RunParts(N)
           trimmed == [i \in DOMAIN doc.lines |-> Promise!Trimmed(Promise!RunText(doc, i))]
<1>1. N \in Nat /\ DOMAIN doc.lines = 1..N /\ N \in 0..N
    BY PromiseLines
<1>2. \A i : Promise!RunText(doc, i) = RunPart(i, N)
    <2>1. \A i : Promise!RunText(doc, i) =
             FlattenSeq([j \in 1..N |-> IF j \in Promise!Run(doc, i) THEN <<White>> \o doc.lines[j].text ELSE <<>>])
        BY <1>1, PromiseFlatten DEF Promise!RunText
    <2> QED BY <2>1 DEF RunPart
<1>3. e \in Seq(Text) /\ Len(e) = N /\ \A i \in 1..N : e[i] = RunPart(i, N) /\ RunPart(i, N) \in Text
    BY <1>1, RunPartsType, RunPartProperties
<1>4. \A i \in 1..N : Promise!Trimmed(Promise!RunText(doc, i)) = Strip(e[i])
    BY <1>2, <1>3, PromiseTrimmed
<1>5. DOMAIN e = 1..N
    BY <1>3, LenProperties
<1>6. trimmed = [i \in 1..N |-> Strip(e[i])]
    BY <1>1, <1>4
<1>7. trimmed = StripAll(e)
    <2> HIDE DEF e, trimmed, N
    <2> QED BY <1>5, <1>6 DEF StripAll
<1>8. Promise!PlainSection(doc) =
         [heading |-> <<>>, paragraphs |-> Promise!Sublist(trimmed, Promise!RunStarts(doc))]
    BY DEF Promise!PlainSection
<1> HIDE DEF trimmed
<1> QED BY <1>7, <1>8, PromiseSublist

LEMMA WholeSections ==
    ASSUME doc \in Document
    PROVE  Promise!HeadedSections(doc) = Sublist(SectionParts(Len(doc.lines)), Promise!Starts(doc))
<1> DEFINE N == Len(doc.lines)
           S == Promise!Starts(doc)
           all == [s \in 1..(Len(doc.lines) + 1) |-> Promise!HeadedSection(doc, s)]
<1>1. N \in Nat /\ DOMAIN doc.lines = 1..N
    BY PromiseLines
<1>2. \A i \in 1..N : Promise!Trimmed(doc.lines[i].text) = Strip(doc.lines[i].text)
    BY LineText, PromiseTrimmed
<1>3. ASSUME NEW s \in 1..(N + 1) PROVE Promise!HeadedSection(doc, s) = SectionPart(s, N)
    <2> DEFINE U == Promise!Under(doc, s)
               trimmed == [i \in DOMAIN doc.lines |-> Promise!Trimmed(doc.lines[i].text)]
    <2>1. trimmed = [i \in 1..N |-> Strip(doc.lines[i].text)]
        BY <1>1, <1>2
    <2>2. s # 1 => Promise!Trimmed(doc.lines[s - 1].text) = Strip(doc.lines[s - 1].text)
        <3>1. s # 1 => s - 1 \in 1..N
            BY <1>1
        <3> QED BY <3>1, <1>2
    <2>3. Promise!HeadedSection(doc, s) =
             [heading |-> IF s = 1 THEN <<>> ELSE Promise!Trimmed(doc.lines[s - 1].text),
              paragraphs |-> Promise!Sublist(trimmed, U)]
        BY DEF Promise!HeadedSection
    <2>4. SectionPart(s, N) =
             [heading |-> IF s = 1 THEN <<>> ELSE Strip(doc.lines[s - 1].text),
              paragraphs |-> Sublist([i \in 1..N |-> Strip(doc.lines[i].text)], U)]
        BY DEF SectionPart
    <2> HIDE DEF trimmed, U
    <2> QED BY <2>1, <2>2, <2>3, <2>4, PromiseSublist
<1>4. all = SectionParts(N)
    BY <1>3 DEF SectionParts
<1>5. Promise!HeadedSections(doc) = Promise!Sublist(all, S)
    BY DEF Promise!HeadedSections
<1> HIDE DEF all, S
<1> QED BY <1>4, <1>5, PromiseSublist DEF S

LEMMA LedStrip ==
    ASSUME NEW ps \in Seq(Text)
    PROVE  StripAll(Led(ps)) = StripAll(ps)
<1> DEFINE l == Led(ps)
<1>1. l \in Seq(Text) /\ Len(l) = Len(ps) /\ \A k \in 1..Len(ps) : l[k] = <<White>> \o ps[k]
    BY LedProperties
<1> HIDE DEF l
<1>2. StripAll(l) \in Seq(Text) /\ Len(StripAll(l)) = Len(ps) /\ \A k \in 1..Len(ps) : StripAll(l)[k] = Strip(l[k])
    BY <1>1, StripAllProperties
<1>3. StripAll(ps) \in Seq(Text) /\ Len(StripAll(ps)) = Len(ps) /\ \A k \in 1..Len(ps) : StripAll(ps)[k] = Strip(ps[k])
    BY StripAllProperties
<1>4. \A k \in 1..Len(ps) : StripAll(l)[k] = StripAll(ps)[k]
    <2> SUFFICES ASSUME NEW k \in 1..Len(ps) PROVE StripAll(l)[k] = StripAll(ps)[k]
        OBVIOUS
    <2>1. ps[k] \in Text
        BY ElementOfSeq
    <2>2. Strip(<<White>> \o ps[k]) = Strip(ps[k])
        BY <2>1, StripLed
    <2> QED BY <2>2, <1>1, <1>2, <1>3
<1>5. StripAll(l) = StripAll(ps)
    BY <1>2, <1>3, <1>4, SeqEqual
<1> QED BY <1>5 DEF l

LEMMA SectionsRead ==
    ASSUME Shape, SectionsSolid, ReadSoFar, phase = "reading", read = Len(doc.lines)
    PROVE  [i \in DOMAIN sections |-> Stripped(sections[i])] =
              IF doc.kind = "docx" THEN Promise!HeadedSections(doc) ELSE <<Promise!PlainSection(doc)>>
<1> DEFINE new == [i \in DOMAIN sections |-> Stripped(sections[i])]
<1>1. /\ doc \in Document /\ Len(doc.lines) \in 0..Len(doc.lines)
      /\ sections \in Seq(Section) /\ DOMAIN sections = 1..Len(sections)
    <2>1. doc \in Document
        BY DEF Shape, TypeOK
    <2>2. sections \in Seq(Section)
        BY DEF Shape, TypeOK, Section
    <2> QED BY <2>1, <2>2, PromiseLines, LenProperties
<1>2. \A i \in DOMAIN sections : /\ sections[i] \in Section /\ sections[i].paragraphs \in Seq(Text)
                                 /\ Stripped(sections[i]) = [heading |-> sections[i].heading,
                                                             paragraphs |-> StripAll(sections[i].paragraphs)]
    <2> SUFFICES ASSUME NEW i \in DOMAIN sections
                 PROVE  /\ sections[i] \in Section /\ sections[i].paragraphs \in Seq(Text)
                        /\ Stripped(sections[i]) = [heading |-> sections[i].heading,
                                                             paragraphs |-> StripAll(sections[i].paragraphs)]
        OBVIOUS
    <2>1. sections[i] \in Section
        BY <1>1, ElementOfSeq
    <2>2. Stripped(sections[i]) = [sections[i] EXCEPT !.paragraphs = StripAll(sections[i].paragraphs)]
        BY DEF Stripped, StripAll
    <2>3. [sections[i] EXCEPT !.paragraphs = StripAll(sections[i].paragraphs)] =
             [heading |-> sections[i].heading, paragraphs |-> StripAll(sections[i].paragraphs)]
        BY <2>1, WithParagraphs
    <2>4. sections[i].paragraphs \in Seq(Text)
        BY <2>1 DEF Section
    <2> QED BY <2>1, <2>2, <2>3, <2>4
<1>3. CASE doc.kind = "docx"
    <2>1. \A i \in DOMAIN sections : Stripped(sections[i]) = sections[i]
        <3> SUFFICES ASSUME NEW i \in DOMAIN sections PROVE Stripped(sections[i]) = sections[i]
            OBVIOUS
        <3> DEFINE ps == sections[i].paragraphs
        <3>1. ps \in Seq(Text) /\ \A k \in DOMAIN ps : Solid(ps[k])
            BY <1>2, <1>3 DEF SectionsSolid
        <3> HIDE DEF ps
        <3>2. StripAll(ps) = ps
            <4>1. \A k \in DOMAIN ps : Strip(ps[k]) = ps[k]
                <5> SUFFICES ASSUME NEW k \in DOMAIN ps PROVE Strip(ps[k]) = ps[k]
                    OBVIOUS
                <5>1. ps[k] \in Text
                    BY <3>1, LenProperties, ElementOfSeq
                <5> QED BY <5>1, <3>1, SolidFacts
            <4>2. StripAll(ps) = [k \in DOMAIN ps |-> ps[k]]
                BY <4>1 DEF StripAll
            <4>3. ps = [k \in DOMAIN ps |-> ps[k]]
                BY <3>1
            <4> QED BY <4>2, <4>3
        <3>3. sections[i] = [heading |-> sections[i].heading, paragraphs |-> sections[i].paragraphs]
            BY <1>2 DEF Section
        <3> QED BY <3>2, <3>3, <1>2 DEF ps
    <2>2. new = sections
        <3>1. new = [i \in DOMAIN sections |-> sections[i]]
            BY <2>1
        <3>2. sections = [i \in DOMAIN sections |-> sections[i]]
            BY <1>1
        <3> QED BY <3>1, <3>2
    <2>3. sections = Sublist(SectionParts(read), Promise!Starts(doc))
        BY <1>3 DEF ReadSoFar
    <2> QED BY <2>2, <2>3, <1>1, <1>3, WholeSections
<1>4. CASE doc.kind # "docx"
    <2> DEFINE ps == sections[1].paragraphs
               S == Promise!RunStarts(doc)
               e == RunParts(Len(doc.lines))
    <2>1. Len(sections) = 1 /\ sections[1].heading = NoHeading /\ Led(ps) = Sublist(e, S)
        BY <1>4 DEF ReadSoFar
    <2>2. 1 \in DOMAIN sections /\ ps \in Seq(Text)
        BY <2>1, <1>1, <1>2
    <2>3. e \in Seq(Text)
        BY <1>1, RunPartsType
    <2> HIDE DEF ps, S, e
    <2>4. StripAll(ps) = Sublist(StripAll(e), S)
        BY <2>1, <2>2, <2>3, LedStrip, StripAllSublist
    <2>5. Stripped(sections[1]) = [heading |-> <<>>, paragraphs |-> Sublist(StripAll(e), S)]
        BY <2>1, <2>2, <2>4, <1>2 DEF ps, NoHeading
    <2>6. Stripped(sections[1]) = Promise!PlainSection(doc)
        BY <2>5, <1>1, WholeRuns DEF S, e
    <2>7. new = <<Stripped(sections[1])>>
        <3>1. DOMAIN sections = 1..1
            BY <2>1, <1>1
        <3>2. new = [i \in 1..1 |-> Stripped(sections[i])]
            BY <3>1
        <3>3. \A i \in 1..1 : i = 1
            OBVIOUS
        <3> DEFINE z == Stripped(sections[1])
        <3>4. new = [i \in 1..1 |-> z]
            BY <3>2, <3>3
        <3> HIDE DEF z
        <3>5. <<z>> = [i \in 1..1 |-> z]
            OBVIOUS
        <3> QED BY <3>4, <3>5 DEF z
    <2> QED BY <2>6, <2>7, <1>4
<1> QED BY <1>3, <1>4

\* The sections of ss with a paragraph or more.
Filled(ss) == Sublist(ss, {i \in DOMAIN ss : ss[i].paragraphs # <<>>})

\* At the end of reading the sections are the content of the document.
LEMMA ContentRead ==
    ASSUME Shape, SectionsSolid, ReadSoFar, phase = "reading", read = Len(doc.lines)
    PROVE  Promise!Content(doc) = Filled([i \in DOMAIN sections |-> Stripped(sections[i])])
<1> DEFINE ss == IF doc.kind = "docx" THEN Promise!HeadedSections(doc) ELSE <<Promise!PlainSection(doc)>>
<1>1. Promise!Content(doc) = Promise!WithText(ss)
    BY DEF Promise!Content
<1> HIDE DEF ss
<1>2. Promise!WithText(ss) = Promise!Sublist(ss, {i \in DOMAIN ss : ss[i].paragraphs # <<>>})
    BY DEF Promise!WithText
<1>3. Promise!WithText(ss) = Filled(ss)
    BY <1>2, PromiseSublist DEF Filled
<1>4. [i \in DOMAIN sections |-> Stripped(sections[i])] = ss
    BY SectionsRead DEF ss
<1> QED BY <1>1, <1>3, <1>4

\* EndReading keeps all of it.
LEMMA EndReadingKeeps ==
    ASSUME Shape, Shape', SectionsSolid, ReadSoFar, Running, EndReading
    PROVE  /\ SectionsSolid' /\ ReadSoFar' /\ Running' /\ Grouped' /\ Split'
           /\ sections' = [i \in DOMAIN sections |-> Stripped(sections[i])]
<1>1. /\ phase = "reading" /\ phase' \in {"grouping", "ended"}
      /\ doc' = doc /\ section' = section /\ taken' = taken /\ groups' = groups
      /\ sections' = [i \in DOMAIN sections |-> Stripped(sections[i])]
      /\ phase' = "grouping" => /\ outcome' = outcome
                                /\ ~\A i \in DOMAIN sections : sections[i].paragraphs = <<>>
    BY DEF EndReading, Refuse, grouper
<1>2. section = 1 /\ taken = 0 /\ groups = <<>> /\ outcome = "none"
    BY <1>1 DEF Shape, InStep, Running
<1>3. sections \in Seq(Section)
    BY DEF Shape, TypeOK, Section
<1>4. \A i \in DOMAIN sections : /\ sections[i] \in Section /\ sections[i].paragraphs \in Seq(Text)
                                 /\ sections'[i].heading = sections[i].heading
                                 /\ sections'[i].paragraphs = StripAll(sections[i].paragraphs)
    <2> SUFFICES ASSUME NEW i \in DOMAIN sections
                 PROVE  /\ sections[i] \in Section /\ sections[i].paragraphs \in Seq(Text)
                        /\ sections'[i].heading = sections[i].heading
                        /\ sections'[i].paragraphs = StripAll(sections[i].paragraphs)
        OBVIOUS
    <2>1. sections[i] \in Section
        BY <1>3, LenProperties, ElementOfSeq
    <2>2. Stripped(sections[i]) = [sections[i] EXCEPT !.paragraphs = StripAll(sections[i].paragraphs)]
        BY DEF Stripped, StripAll
    <2>3. sections'[i] = Stripped(sections[i])
        BY <1>1
    <2>4. [sections[i] EXCEPT !.paragraphs = StripAll(sections[i].paragraphs)] =
             [heading |-> sections[i].heading, paragraphs |-> StripAll(sections[i].paragraphs)]
        BY <2>1, WithParagraphs
    <2>5. sections[i].paragraphs \in Seq(Text)
        BY <2>1 DEF Section
    <2> QED BY <2>1, <2>2, <2>3, <2>4, <2>5
<1>5. \A k \in DOMAIN sections' : /\ sections'[k].heading = NoHeading \/ Solid(sections'[k].heading)
                                  /\ \A i \in DOMAIN sections'[k].paragraphs :
                                        /\ ~Blank(sections'[k].paragraphs[i])
                                        /\ Solid(sections'[k].paragraphs[i])
    <2> SUFFICES ASSUME NEW k \in DOMAIN sections
                 PROVE  /\ sections'[k].heading = NoHeading \/ Solid(sections'[k].heading)
                        /\ \A i \in DOMAIN sections'[k].paragraphs :
                              /\ ~Blank(sections'[k].paragraphs[i])
                              /\ Solid(sections'[k].paragraphs[i])
        BY <1>1
    <2>1. sections[k].heading = NoHeading \/ Solid(sections[k].heading)
        BY DEF SectionsSolid
    <2> DEFINE ps == sections[k].paragraphs
    <2>2. ps \in Seq(Text) /\ \A i \in DOMAIN ps : ~Blank(ps[i])
        BY <1>4 DEF SectionsSolid
    <2>3. sections'[k].paragraphs = StripAll(ps)
        BY <1>4
    <2> HIDE DEF ps
    <2>4. \A i \in DOMAIN StripAll(ps) : Solid(StripAll(ps)[i]) /\ ~Blank(StripAll(ps)[i])
        <3> SUFFICES ASSUME NEW i \in DOMAIN ps PROVE Solid(StripAll(ps)[i]) /\ ~Blank(StripAll(ps)[i])
            BY DEF StripAll
        <3>1. ps[i] \in Text /\ ~Blank(ps[i])
            BY <2>2, LenProperties, ElementOfSeq
        <3>2. Solid(Strip(ps[i])) /\ Strip(ps[i]) \in Text
            BY <3>1, StripSolid
        <3>3. ~Blank(Strip(ps[i]))
            BY <3>2, SolidFacts
        <3>4. StripAll(ps)[i] = Strip(ps[i])
            BY DEF StripAll
        <3> QED BY <3>2, <3>3, <3>4
    <2> QED BY <2>1, <2>3, <2>4, <1>4
<1>6. SectionsSolid'
    BY <1>5 DEF SectionsSolid
<1>7. ReadSoFar' /\ Split' /\ Running'
    BY <1>1, <1>2 DEF ReadSoFar, Split, Running
<1>8. Grouped'
    <2> SUFFICES ASSUME phase' = "grouping"
                 PROVE  /\ GroupsInOrder'
                        /\ \E k \in DOMAIN sections' : sections'[k].paragraphs # <<>>
                        /\ ~\E k \in 1..(section' - 1) : sections'[k].paragraphs # <<>>
        BY <1>1 DEF Grouped
    <2>1. GroupsInOrder'
        <3>1. DOMAIN groups' = {} /\ 1..(Len(groups') - 1) = {} /\ taken' = 0 /\ groups' = <<>>
            BY <1>1, <1>2
        <3> QED BY <3>1 DEF GroupsInOrder
    <2>2. PICK k \in DOMAIN sections : sections[k].paragraphs # <<>>
        BY <1>1
    <2>3. sections'[k].paragraphs # <<>>
        <3> DEFINE ps == sections[k].paragraphs
        <3>1. ps \in Seq(Text) /\ ps # <<>> /\ sections'[k].paragraphs = StripAll(ps)
            BY <2>2, <1>4
        <3> HIDE DEF ps
        <3>2. Len(StripAll(ps)) = Len(ps) /\ StripAll(ps) \in Seq(Text)
            BY <3>1, StripAllProperties
        <3> QED BY <3>1, <3>2, EmptySeq
    <2>4. 1..(section' - 1) = {}
        BY <1>1, <1>2
    <2>5. k \in DOMAIN sections'
        BY <1>1
    <2> QED BY <2>1, <2>3, <2>4, <2>5
<1> QED BY <1>1, <1>6, <1>7, <1>8
-----------------------------------------------------------------------------
(* The loop that makes groups. *)

LEMMA PartOf ==
    ASSUME NEW T, NEW s \in Seq(T), NEW a \in 1..(Len(s) + 1), NEW b \in (a - 1)..Len(s)
    PROVE  /\ SubSeq(s, a, b) \in Seq(T) /\ Len(SubSeq(s, a, b)) = b - a + 1
           /\ \A i \in 1..(b - a + 1) : SubSeq(s, a, b)[i] = s[a + i - 1] /\ s[a + i - 1] \in T
<1>1. Len(s) \in Nat /\ a \in Nat /\ b \in Nat /\ \A i \in a..b : s[i] \in T
    <2>1. Len(s) \in Nat /\ \A i \in a..b : i \in 1..Len(s)
        BY LenProperties
    <2> QED BY <2>1, ElementOfSeq
<1> DEFINE f == SubSeq(s, a, b)
<1>2. /\ f \in Seq(T) /\ Len(f) = IF a <= b THEN b - a + 1 ELSE 0
      /\ \A i \in 1..(b - a + 1) : f[i] = s[a + i - 1]
    BY <1>1, SubSeqProperties
<1> HIDE DEF f
<1>3. (IF a <= b THEN b - a + 1 ELSE 0) = b - a + 1
    <2>1. CASE a <= b
        BY <2>1
    <2>2. CASE ~(a <= b)
        <3>1. b = a - 1
            BY <2>2, <1>1
        <3> QED BY <3>1, <2>2, <1>1
    <2> QED BY <2>1, <2>2
<1>4. Len(f) = b - a + 1
    BY <1>2, <1>3
<1>5. \A i \in 1..(b - a + 1) : a + i - 1 \in a..b
    BY <1>1
<1>6. \A i \in 1..(b - a + 1) : s[a + i - 1] \in T
    BY <1>1, <1>5
<1> QED BY <1>2, <1>4, <1>6 DEF f

LEMMA PartAppend ==
    ASSUME NEW T, NEW s \in Seq(T), NEW a \in 1..Len(s), NEW b \in a..Len(s)
    PROVE  /\ SubSeq(s, a, b - 1) \in Seq(T) /\ s[b] \in T
           /\ SubSeq(s, a, b) = Append(SubSeq(s, a, b - 1), s[b])
<1> DEFINE p == SubSeq(s, a, b - 1)
           q == SubSeq(s, a, b)
           x == s[b]
           n == b - a + 1
<1>0. Len(s) \in Nat /\ a \in Nat /\ b \in Nat /\ n \in Nat \ {0} /\ a \in 1..(Len(s) + 1) /\ b \in (a - 1)..Len(s)
    BY LenProperties
<1>1. p \in Seq(T) /\ Len(p) = n - 1 /\ \A i \in 1..(n - 1) : p[i] = s[a + i - 1]
    <2> DEFINE c == b - 1
    <2>1. c \in (a - 1)..Len(s) /\ c - a + 1 = n - 1
        BY <1>0
    <2> HIDE DEF c
    <2>2. SubSeq(s, a, c) \in Seq(T) /\ Len(SubSeq(s, a, c)) = c - a + 1 /\ \A i \in 1..(c - a + 1) : SubSeq(s, a, c)[i] = s[a + i - 1]
        BY <2>1, <1>0, PartOf
    <2> HIDE DEF n
    <2> QED BY <2>1, <2>2 DEF c
<1>2. q \in Seq(T) /\ Len(q) = n /\ \A i \in 1..n : q[i] = s[a + i - 1]
    BY <1>0, PartOf
<1>3. x \in T
    <2>1. b \in 1..Len(s)
        BY <1>0
    <2> QED BY <2>1, ElementOfSeq
<1>4. a + n - 1 = b
    BY <1>0
<1> HIDE DEF p, q, n
<1>5. /\ Append(p, x) \in Seq(T) /\ Len(Append(p, x)) = n
      /\ (\A i \in 1..(n - 1) : Append(p, x)[i] = p[i]) /\ Append(p, x)[n] = x
    <2> HIDE DEF x
    <2>1. /\ Append(p, x) \in Seq(T) /\ Len(Append(p, x)) = Len(p) + 1
          /\ (\A i \in 1..Len(p) : Append(p, x)[i] = p[i]) /\ Append(p, x)[Len(p) + 1] = x
        BY <1>1, <1>3, AppendProperties
    <2> QED BY <2>1, <1>0, <1>1
<1>6. \A i \in 1..n : i \in 1..(n - 1) \/ i = n
    BY <1>0
<1>7. \A i \in 1..n : q[i] = Append(p, x)[i]
    <2> SUFFICES ASSUME NEW i \in 1..n PROVE q[i] = Append(p, x)[i]
        OBVIOUS
    <2>1. CASE i \in 1..(n - 1)
        BY <2>1, <1>1, <1>2, <1>5
    <2>2. CASE i = n
        BY <2>2, <1>2, <1>4, <1>5
    <2> QED BY <2>1, <2>2, <1>6
<1> HIDE DEF x
<1>8. q = Append(p, x)
    BY <1>2, <1>5, <1>7, SeqEqual
<1> QED BY <1>1, <1>3, <1>8 DEF p, q, x

LEMMA GroupedShape ==
    ASSUME Shape
    PROVE  /\ sections \in Seq(Section) /\ section \in 1..Len(sections) /\ section \in DOMAIN sections
           /\ sections[section] \in Section /\ Paragraphs \in Seq(Text) /\ Heading \in Text
           /\ Len(Paragraphs) \in Nat /\ DOMAIN Paragraphs = 1..Len(Paragraphs)
           /\ taken \in 0..Len(Paragraphs)
           /\ groups \in Seq(Group) /\ DOMAIN groups = 1..Len(groups) /\ Len(groups) \in Nat
           /\ \A i \in 1..Len(groups) : /\ groups[i] \in Group /\ groups[i].text \in Text
                                        /\ groups[i].first \in Nat \ {0} /\ groups[i].last \in Nat \ {0}
<1>1. /\ sections \in Seq(Section) /\ section \in 1..Len(sections)
      /\ taken \in 0..Len(Paragraphs) /\ groups \in Seq(Group)
    BY DEF Shape, TypeOK, Section, Group
<1>2. sections[section] \in Section /\ section \in DOMAIN sections
    BY <1>1, ElementOfSeq, LenProperties
<1>3. Paragraphs \in Seq(Text) /\ Heading \in Text
    BY <1>2 DEF Section, Paragraphs, Heading
<1>4. \A i \in 1..Len(groups) : groups[i] \in Group
    BY <1>1, ElementOfSeq
<1>5. \A i \in 1..Len(groups) : /\ groups[i].text \in Text
                                /\ groups[i].first \in Nat \ {0} /\ groups[i].last \in Nat \ {0}
    BY <1>4 DEF Group
<1> QED BY <1>1, <1>2, <1>3, <1>4, <1>5, LenProperties

LEMMA GapBlank == Gap \in Text /\ Blank(Gap)
<1>1. DOMAIN Gap = 1..2 /\ \A i \in 1..2 : Gap[i] = White
    BY DEF Gap
<1> QED BY <1>1, TextFacts DEF Blank

\* A paragraph of its own, and one that joins a group.
LEMMA NewGroup ==
    ASSUME Shape, SectionsSolid, phase # "reading", NEW j \in 1..Len(Paragraphs)
    PROVE  Whereof([text |-> Paragraphs[j], first |-> j, last |-> j])
<1> DEFINE p == Paragraphs[j]
           ps == Paragraphs
<1>1. ps \in Seq(Text) /\ p \in Text /\ Solid(p) /\ Len(ps) \in Nat
    <2>1. Paragraphs \in Seq(Text) /\ section \in DOMAIN sections /\ j \in DOMAIN Paragraphs
        BY GroupedShape
    <2>2. Solid(p)
        BY <2>1 DEF SectionsSolid, Paragraphs
    <2> QED BY <2>1, <2>2, ElementOfSeq, LenProperties
<1>2. SubSeq(ps, j, j) = <<p>>
    <2> HIDE DEF ps
    <2>1. j \in 1..(Len(ps) + 1) /\ j \in (j - 1)..Len(ps) /\ j - j + 1 = 1 /\ j + 1 - 1 = j /\ 1 \in 1..1
        BY <1>1 DEF ps
    <2>2. SubSeq(ps, j, j) \in Seq(Text) /\ Len(SubSeq(ps, j, j)) = j - j + 1 /\ \A i \in 1..(j - j + 1) : SubSeq(ps, j, j)[i] = ps[j + i - 1]
        BY <2>1, <1>1, PartOf
    <2>3. Len(SubSeq(ps, j, j)) = 1 /\ SubSeq(ps, j, j)[1] = ps[j]
        BY <2>1, <2>2
    <2> DEFINE q == SubSeq(ps, j, j)
    <2>4. q \in Seq(Text) /\ Len(q) = 1 /\ q[1] = p
        BY <2>2, <2>3 DEF ps
    <2> HIDE DEF q, p
    <2>5. q = <<p>>
        BY <2>4
    <2> QED BY <2>5 DEF q
<1>3. FlattenSeq(<<p>>) = p
    BY <1>1, FlattenOne DEF Text
<1>4. HasVoid(p) => \E k \in j..j : HasVoid(Paragraphs[k])
    <2>1. j \in j..j
        BY <1>1
    <2> QED BY <2>1
<1>5. j <= j /\ j <= Len(Paragraphs)
    BY <1>1
<1> DEFINE g == [text |-> Paragraphs[j], first |-> j, last |-> j]
<1>6. g.text = p /\ g.first = j /\ g.last = j
    OBVIOUS
<1> HIDE DEF g, p
<1>7. Whereof(g)
    BY <1>1, <1>2, <1>3, <1>4, <1>5, <1>6 DEF Whereof
<1> QED BY <1>7 DEF g

LEMMA JoinedGroup ==
    ASSUME Shape, SectionsSolid, phase # "reading", NEW g \in Group, Whereof(g), g.last < Len(Paragraphs)
    PROVE  Whereof([text |-> g.text \o Gap \o Paragraphs[g.last + 1], first |-> g.first, last |-> g.last + 1])
<1> DEFINE j == g.last + 1
           p == Paragraphs[j]
           ps == Paragraphs
           t == g.text \o Gap \o p
           h == [text |-> t, first |-> g.first, last |-> j]
<1>0. g.text \in Text /\ g.first \in Nat \ {0} /\ g.last \in Nat \ {0} /\ Len(ps) \in Nat
    BY GroupedShape DEF Group
<1>1. ps \in Seq(Text) /\ p \in Text /\ Solid(p) /\ j \in 1..Len(ps)
    <2>1. Paragraphs \in Seq(Text) /\ section \in DOMAIN sections /\ j \in DOMAIN Paragraphs /\ j \in 1..Len(ps)
        BY <1>0, GroupedShape
    <2>2. Solid(p)
        BY <2>1 DEF SectionsSolid, Paragraphs
    <2> QED BY <2>1, <2>2, ElementOfSeq
<1>2. /\ g.first <= g.last /\ Solid(g.text)
      /\ Inked(g.text) = Inked(FlattenSeq(SubSeq(Paragraphs, g.first, g.last)))
      /\ HasVoid(g.text) => \E k \in g.first..g.last : HasVoid(Paragraphs[k])
    BY DEF Whereof
<1>3. Solid(t) /\ (HasVoid(t) => HasVoid(g.text) \/ HasVoid(p))
    <2> HIDE DEF p
    <2> QED BY <1>0, <1>1, <1>2, JoinedVoid
<1>4. Inked(t) = Inked(g.text) \o Inked(p)
    <2> HIDE DEF p
    <2> QED BY <1>0, <1>1, GapBlank, InkedAround
<1>5. Inked(FlattenSeq(SubSeq(ps, g.first, j))) = Inked(FlattenSeq(SubSeq(ps, g.first, g.last))) \o Inked(p)
    <2>1. g.first \in 1..Len(ps) /\ j \in g.first..Len(ps) /\ j - 1 = g.last
        BY <1>0, <1>1, <1>2
    <2> DEFINE f == SubSeq(ps, g.first, g.last)
               i == g.first
    <2> HIDE DEF j, ps, i
    <2>2. SubSeq(ps, i, j - 1) \in Seq(Text) /\ SubSeq(ps, i, j) = Append(SubSeq(ps, i, j - 1), ps[j])
        BY <2>1, <1>1, PartAppend DEF i
    <2>3. f \in Seq(Text) /\ SubSeq(ps, i, j) = Append(f, p)
        BY <2>1, <2>2 DEF ps, i
    <2> HIDE DEF f, p
    <2>4. Inked(FlattenSeq(Append(f, p))) = Inked(FlattenSeq(f)) \o Inked(p)
        BY <2>3, <1>1, InkedFlatten
    <2> QED BY <2>3, <2>4 DEF f, i
<1>6. HasVoid(t) => \E k \in g.first..j : HasVoid(Paragraphs[k])
    <2>1. j \in g.first..j /\ g.first..g.last \subseteq g.first..j
        BY <1>0, <1>2
    <2> HIDE DEF t, j
    <2> QED BY <2>1, <1>2, <1>3
<1>7. g.first <= j /\ j <= Len(Paragraphs)
    BY <1>0, <1>1, <1>2
<1>8. h.text = t /\ h.first = g.first /\ h.last = j
    OBVIOUS
<1> HIDE DEF h, t, j, p
<1>9. Whereof(h)
    BY <1>2, <1>3, <1>4, <1>5, <1>6, <1>7, <1>8 DEF Whereof
<1> QED BY <1>9 DEF h, t, j, p

LEMMA WithMore ==
    ASSUME NEW g \in Group, NEW t, NEW j
    PROVE  [g EXCEPT !.text = t, !.last = j] = [text |-> t, first |-> g.first, last |-> j]
<1> DEFINE a == g.text
           b == g.first
           c == g.last
<1>1. g = [text |-> a, first |-> b, last |-> c]
    BY DEF Group
<1> HIDE DEF a, b, c
<1> DEFINE u == [text |-> t, first |-> b, last |-> c]
<1>2. [[text |-> a, first |-> b, last |-> c] EXCEPT !.text = t] = u
    OBVIOUS
<1>3. [u EXCEPT !.last = j] = [text |-> t, first |-> b, last |-> j]
    OBVIOUS
<1> HIDE DEF u
<1>4. [g EXCEPT !.text = t, !.last = j] = [[g EXCEPT !.text = t] EXCEPT !.last = j]
    OBVIOUS
<1> QED BY <1>1, <1>2, <1>3, <1>4 DEF b

LEMMA WhereofStays ==
    ASSUME UNCHANGED <<sections, section>>
    PROVE  Paragraphs' = Paragraphs /\ Heading' = Heading
<1> QED BY DEF Paragraphs, Heading

\* TakeParagraph keeps the groups in order, none with text of its own.
LEMMA TakeParagraphKeeps ==
    ASSUME Shape, SectionsSolid, Grouped, TakeParagraph
    PROVE  Grouped'
<1> DEFINE p == Paragraphs[taken + 1]
           last == groups[Len(groups)]
           joins == groups # <<>> /\ Fits(last, p)
           j == taken + 1
           old == [last EXCEPT !.text = @ \o Gap \o p, !.last = j]
           new == [text |-> p, first |-> j, last |-> j]
<1>1. /\ phase = "grouping" /\ phase' = "grouping" /\ taken < Len(Paragraphs) /\ taken' = j
      /\ UNCHANGED <<sections, section, chunks>>
      /\ groups' = IF joins THEN WithLast(groups, old) ELSE Append(groups, new)
    BY DEF TakeParagraph, reader
<1>2. /\ Paragraphs \in Seq(Text) /\ Len(Paragraphs) \in Nat /\ taken \in Nat /\ j \in 1..Len(Paragraphs) /\ j \in Nat \ {0}
      /\ groups \in Seq(Group) /\ DOMAIN groups = 1..Len(groups) /\ Len(groups) \in Nat
    <2>1. /\ Paragraphs \in Seq(Text) /\ Len(Paragraphs) \in Nat /\ taken \in 0..Len(Paragraphs)
          /\ groups \in Seq(Group) /\ DOMAIN groups = 1..Len(groups) /\ Len(groups) \in Nat
        BY GroupedShape
    <2> QED BY <2>1, <1>1
<1>3. p \in Text /\ Paragraphs' = Paragraphs
    BY <1>1, <1>2, ElementOfSeq, WhereofStays
<1>4. GroupsInOrder /\ (\E k \in DOMAIN sections : sections[k].paragraphs # <<>>)
      /\ ((\E k \in 1..(section - 1) : sections[k].paragraphs # <<>>) => chunks # <<>>)
    BY <1>1 DEF Grouped
<1>5. /\ groups = <<>> => taken = 0
      /\ groups # <<>> => groups[1].first = 1 /\ last.last = taken
      /\ \A i \in 1..(Len(groups) - 1) : groups[i + 1].first = groups[i].last + 1
      /\ \A i \in DOMAIN groups : Whereof(groups[i])
    BY <1>4 DEF GroupsInOrder
<1>6. /\ groups' # <<>> /\ groups'[1].first = 1 /\ groups'[Len(groups')].last = j
      /\ \A i \in 1..(Len(groups') - 1) : groups'[i + 1].first = groups'[i].last + 1
      /\ \A i \in DOMAIN groups' : Whereof(groups'[i])
    <2>1. CASE joins
        <3>1. groups # <<>> /\ Len(groups) \in Nat \ {0} /\ Len(groups) \in 1..Len(groups)
            BY <2>1, <1>2, EmptySeq
        <3>2. last \in Group /\ last.text \in Text /\ last.first \in Nat \ {0} /\ Whereof(last) /\ last.last = taken
            <4>1. last \in Group
                BY <3>1, <1>2, ElementOfSeq
            <4> QED BY <4>1, <3>1, <1>2, <1>5 DEF Group
        <3> DEFINE t == last.text \o Gap \o p
        <3>3. old = [text |-> t, first |-> last.first, last |-> j]
            <4> HIDE DEF p, j
            <4>1. old = [last EXCEPT !.text = t, !.last = j]
                OBVIOUS
            <4> HIDE DEF t, last
            <4> QED BY <4>1, <3>2, WithMore
        <3>4. Whereof(old)
            <4>1. last.last < Len(Paragraphs) /\ last.last + 1 = j
                BY <3>2, <1>1
            <4> HIDE DEF last
            <4>2. Whereof([text |-> last.text \o Gap \o Paragraphs[last.last + 1], first |-> last.first, last |-> last.last + 1])
                BY <4>1, <3>2, <1>1, JoinedGroup
            <4> QED BY <4>1, <4>2, <3>3
        <3>5. old \in Group /\ old.first = last.first /\ old.last = j
            <4>1. t \in Text
                BY <3>2, <1>3, JoinFacts
            <4> HIDE DEF t, last, old
            <4> QED BY <4>1, <3>2, <3>3, <1>2 DEF Group
        <3>6. groups' = WithLast(groups, old)
            BY <2>1, <1>1
        <3> HIDE DEF old, p, j, joins, last
        <3>7. /\ groups' \in Seq(Group) /\ Len(groups') = Len(groups)
              /\ \A i \in 1..Len(groups) : groups'[i] = IF i = Len(groups) THEN old ELSE groups[i]
              /\ DOMAIN groups' = 1..Len(groups)
            <4>1. /\ WithLast(groups, old) \in Seq(Group) /\ Len(WithLast(groups, old)) = Len(groups)
                  /\ \A i \in DOMAIN groups : WithLast(groups, old)[i] = IF i = Len(groups) THEN old ELSE groups[i]
                <5>1. groups \in Seq(Group) /\ groups # <<>> /\ old \in Group
                    BY <3>1, <3>5, <1>2
                <5> DEFINE s == groups
                <5>2. s \in Seq(Group) /\ s # <<>>
                    BY <5>1
                <5> HIDE DEF s
                <5>3. /\ WithLast(s, old) \in Seq(Group) /\ Len(WithLast(s, old)) = Len(s)
                      /\ \A i \in DOMAIN s : WithLast(s, old)[i] = IF i = Len(s) THEN old ELSE s[i]
                    BY <5>1, <5>2, WithLastProperties
                <5> QED BY <5>3 DEF s
            <4>2. DOMAIN groups' = 1..Len(groups')
                BY <4>1, <3>6, LenProperties
            <4> QED BY <4>1, <4>2, <3>6, <1>2
        <3>8. \A i \in 1..Len(groups) : groups'[i].first = groups[i].first
            BY <3>5, <3>7 DEF last
        <3>9. \A i \in 1..(Len(groups) - 1) : groups'[i].last = groups[i].last
            <4>1. \A i \in 1..(Len(groups) - 1) : i \in 1..Len(groups) /\ i # Len(groups)
                BY <3>1
            <4> QED BY <4>1, <3>7
        <3>10. groups' # <<>> /\ groups'[1].first = 1
            <4>1. 1 \in 1..Len(groups)
                BY <3>1
            <4>2. groups'[1].first = groups[1].first
                BY <4>1, <3>8
            <4> QED BY <4>1, <4>2, <3>1, <3>7, <1>5
        <3>11. groups'[Len(groups')].last = j
            BY <3>1, <3>5, <3>7
        <3>12. \A i \in 1..(Len(groups') - 1) : groups'[i + 1].first = groups'[i].last + 1
            <4> SUFFICES ASSUME NEW i \in 1..(Len(groups) - 1) PROVE groups'[i + 1].first = groups'[i].last + 1
                BY <3>7
            <4>1. i + 1 \in 1..Len(groups)
                BY <3>1
            <4>2. groups'[i + 1].first = groups[i + 1].first /\ groups'[i].last = groups[i].last
                BY <4>1, <3>8, <3>9
            <4> QED BY <4>2, <1>5
        <3>13. \A i \in DOMAIN groups' : Whereof(groups'[i])
            <4> SUFFICES ASSUME NEW i \in 1..Len(groups) PROVE Whereof(groups'[i])
                BY <3>7
            <4>1. groups'[i] = old \/ groups'[i] = groups[i]
                BY <3>7
            <4>2. Whereof(groups[i])
                BY <1>2, <1>5
            <4> QED BY <4>1, <4>2, <3>4
        <3> QED BY <3>10, <3>11, <3>12, <3>13
    <2>2. CASE ~joins
        <3>1. groups' = Append(groups, new)
            BY <2>2, <1>1
        <3>2. Whereof(new)
            BY <1>1, <1>2, NewGroup
        <3>3. new \in Group /\ new.first = j /\ new.last = j
            BY <1>2, <1>3 DEF Group
        <3> HIDE DEF new, p, joins
        <3>4. /\ groups' \in Seq(Group) /\ Len(groups') = Len(groups) + 1
              /\ (\A i \in 1..Len(groups) : groups'[i] = groups[i]) /\ groups'[Len(groups) + 1] = new
              /\ DOMAIN groups' = 1..(Len(groups) + 1)
            <4>1. /\ Append(groups, new) \in Seq(Group) /\ Len(Append(groups, new)) = Len(groups) + 1
                  /\ (\A i \in 1..Len(groups) : Append(groups, new)[i] = groups[i]) /\ Append(groups, new)[Len(groups) + 1] = new
                BY <3>3, <1>2, AppendProperties
            <4>2. DOMAIN groups' = 1..Len(groups')
                BY <4>1, <3>1, LenProperties
            <4> QED BY <4>1, <4>2, <3>1
        <3>5. groups' # <<>> /\ groups'[Len(groups')].last = j
            <4>1. Len(groups') # 0
                BY <3>4, <1>2
            <4> QED BY <4>1, <3>3, <3>4
        <3>6. groups'[1].first = 1
            <4>1. CASE groups = <<>>
                <5>1. Len(groups) = 0 /\ j = 1 /\ 0 + 1 = 1
                    BY <4>1, <1>5
                <5> QED BY <5>1, <3>3, <3>4
            <4>2. CASE groups # <<>>
                <5>1. 1 \in 1..Len(groups)
                    BY <4>2, <1>2, EmptySeq
                <5> QED BY <5>1, <4>2, <3>4, <1>5
            <4> QED BY <4>1, <4>2
        <3>7. \A i \in 1..(Len(groups') - 1) : groups'[i + 1].first = groups'[i].last + 1
            <4> SUFFICES ASSUME NEW i \in 1..Len(groups) PROVE groups'[i + 1].first = groups'[i].last + 1
                BY <3>4, <1>2
            <4>1. CASE i = Len(groups)
                <5>1. groups # <<>>
                    BY <4>1
                <5>2. groups'[i + 1].first = j /\ groups'[i].last = taken
                    BY <5>1, <4>1, <3>3, <3>4, <1>5
                <5> QED BY <5>2
            <4>2. CASE i # Len(groups)
                <5>1. i \in 1..(Len(groups) - 1) /\ i + 1 \in 1..Len(groups)
                    <6>1. \A n \in Nat : \A k \in 1..n : k # n => k \in 1..(n - 1) /\ k + 1 \in 1..n
                        OBVIOUS
                    <6> QED BY <6>1, <4>2, <1>2
                <5> QED BY <5>1, <3>4, <1>5
            <4> QED BY <4>1, <4>2
        <3>8. \A i \in DOMAIN groups' : Whereof(groups'[i])
            <4> SUFFICES ASSUME NEW i \in 1..(Len(groups) + 1) PROVE Whereof(groups'[i])
                BY <3>4
            <4>1. i \in 1..Len(groups) \/ i = Len(groups) + 1
                BY <1>2
            <4> QED BY <4>1, <3>2, <3>4, <1>2, <1>5
        <3> QED BY <3>5, <3>6, <3>7, <3>8
    <2> QED BY <2>1, <2>2
<1> HIDE DEF j
<1>7. GroupsInOrder'
    BY <1>1, <1>3, <1>6 DEF GroupsInOrder, Whereof
<1> QED BY <1>1, <1>4, <1>7 DEF Grouped

\* The text of a group with its heading has the ink of both, and no other white
\* space as long as a chunk.
LEMMA WholeProperties ==
    ASSUME Shape, SectionsSolid, NEW g \in Group, Whereof(g)
    PROVE  /\ Whole(g) \in Text /\ Solid(Whole(g))
           /\ Inked(Whole(g)) = Inked(Heading) \o Inked(g.text)
           /\ HasVoid(Whole(g)) => HasVoid(Heading) \/ HasVoid(g.text)
<1>1. Heading \in Text /\ g.text \in Text /\ section \in DOMAIN sections
    BY GroupedShape DEF Group
<1>2. Solid(g.text)
    BY DEF Whereof
<1>3. Heading = NoHeading \/ Solid(Heading)
    BY <1>1 DEF SectionsSolid, Heading
<1> DEFINE h == Heading
           t == g.text
<1>4. CASE Heading = NoHeading
    <2>1. Whole(g) = t /\ h = <<>>
        BY <1>4 DEF Whole, NoHeading
    <2>2. Inked(<<>>) = <<>> /\ Inked(t) \in Text
        <3>1. Blank(<<>>) /\ <<>> \in Text
            BY TextFacts DEF Blank
        <3> QED BY <3>1, <1>1, InkedFacts
    <2>3. Inked(h) \o Inked(t) = Inked(t)
        BY <2>1, <2>2, TextConcat
    <2> QED BY <2>1, <2>3, <1>1, <1>2
<1>5. CASE Heading # NoHeading
    <2>1. Whole(g) = h \o Gap \o t /\ Solid(h)
        BY <1>3, <1>5 DEF Whole
    <2>2. h \in Text /\ t \in Text
        BY <1>1
    <2> HIDE DEF h, t
    <2>3. Solid(h \o Gap \o t) /\ (HasVoid(h \o Gap \o t) => HasVoid(h) \/ HasVoid(t))
        BY <2>1, <2>2, <1>2, JoinedVoid DEF t
    <2>4. Inked(h \o Gap \o t) = Inked(h) \o Inked(t)
        BY <2>2, GapBlank, InkedAround
    <2>5. h \o Gap \o t \in Text
        BY <2>2, JoinFacts
    <2> QED BY <2>1, <2>3, <2>4, <2>5 DEF h, t
<1> QED BY <1>4, <1>5

\* At the start of a group its whole text is to be cut.
LEMMA StartGroupCuts ==
    ASSUME Shape, SectionsSolid, NEW n \in 1..Len(groups), Whereof(groups[n]), StartGroup(n)
    PROVE  Cut(final', pieces', rest', Whole(groups[n]))
<1> DEFINE w == Whole(groups[n])
<1>1. w \in Text /\ Solid(w)
    <2>1. groups[n] \in Group
        BY GroupedShape
    <2> DEFINE g == groups[n]
    <2>2. g \in Group /\ Whereof(g)
        BY <2>1
    <2> HIDE DEF g
    <2>3. Whole(g) \in Text /\ Solid(Whole(g))
        BY <2>2, WholeProperties
    <2> QED BY <2>3 DEF g
<1>2. /\ final' = <<>>
      /\ pieces' = IF Len(w) <= MaxSafe THEN <<w>> ELSE <<>>
      /\ rest' = IF Len(w) <= MaxSafe THEN <<>> ELSE w
    BY DEF StartGroup
<1> HIDE DEF w
<1>3. InkedAll(<<>>) = <<>> /\ InkedAll(<<w>>) = Inked(w) /\ Inked(w) \in Text /\ Inked(<<>>) = <<>>
    <2>1. Blank(<<>>) /\ <<>> \in Text
        BY TextFacts DEF Blank
    <2> QED BY <2>1, <1>1, InkedAllFacts, InkedFacts
<1>4. <<>> \o Inked(w) = Inked(w) /\ Inked(w) \o <<>> = Inked(w) /\ <<>> \o <<>> = <<>>
    BY <1>3, TextConcat, TextFacts
<1>5. w # <<>> /\ w[Len(w)] # White /\ w[1] # White /\ Len(w) \in Nat /\ DOMAIN w = 1..Len(w)
    BY <1>1, TextFacts DEF Solid
<1>6. DOMAIN <<>> = {} /\ Len(<<>>) = 0
    OBVIOUS
<1>7. CASE Len(w) <= MaxSafe
    <2>1. InkedAll(final') \o InkedAll(pieces') \o Inked(rest') = Inked(w)
        BY <1>2, <1>3, <1>4, <1>7
    <2>2. Rest(rest', w)
        BY <1>2, <1>5, <1>6, <1>7 DEF Rest
    <2>3. Piece(w, w)
        BY <1>5, <1>7, SizesAssumption DEF Piece
    <2>4. \A i \in DOMAIN pieces' : Piece(pieces'[i], w)
        <3>1. DOMAIN <<w>> = 1..1 /\ \A i \in 1..1 : <<w>>[i] = w
            OBVIOUS
        <3> QED BY <3>1, <2>3, <1>2, <1>7
    <2>5. pieces' # <<>>
        BY <1>2, <1>7
    <2>6. Cut(final', pieces', rest', w)
        BY <2>1, <2>2, <2>4, <2>5, <1>2, <1>6 DEF Cut
    <2> QED BY <2>6 DEF w
<1>8. CASE ~(Len(w) <= MaxSafe)
    <2>1. InkedAll(final') \o InkedAll(pieces') \o Inked(rest') = Inked(w)
        BY <1>2, <1>3, <1>4, <1>8
    <2>2. Rest(w, w)
        <3>1. Len(w) - Len(w) = 0 /\ \A k \in DOMAIN w : 0 + k = k
            BY <1>5
        <3> QED BY <3>1, <1>5 DEF Rest
    <2>3. rest' = w /\ DOMAIN pieces' = {} /\ DOMAIN final' = {}
        BY <1>2, <1>6, <1>8
    <2>4. Cut(final', pieces', rest', w)
        BY <2>1, <2>2, <2>3, <1>5 DEF Cut
    <2> QED BY <2>4 DEF w
<1> QED BY <1>7, <1>8 DEF w

LEMMA EndGroupingKeeps ==
    ASSUME Shape, SectionsSolid, Grouped, EndGrouping
    PROVE  Grouped' /\ Split'
<1>1. /\ phase = "grouping" /\ phase' = "splitting" /\ taken = Len(Paragraphs) /\ groups # <<>>
      /\ StartGroup(1) /\ group' = 1
      /\ UNCHANGED <<sections, section, taken, groups, chunks>>
    BY DEF EndGrouping, reader, StartGroup
<1>2. Paragraphs' = Paragraphs /\ Heading' = Heading
    BY <1>1, WhereofStays
<1>3. GroupsInOrder
    BY <1>1 DEF Grouped
<1>4. 1 \in 1..Len(groups) /\ 1 \in DOMAIN groups
    <2>1. groups \in Seq(Group) /\ DOMAIN groups = 1..Len(groups)
        BY GroupedShape
    <2> QED BY <2>1, <1>1, EmptySeq
<1>5. Whereof(groups[1])
    BY <1>3, <1>4 DEF GroupsInOrder
<1>6. Cut(final', pieces', rest', Whole(groups[1]))
    BY <1>1, <1>4, <1>5, StartGroupCuts
<1>7. Whole(groups[group])' = Whole(groups[1])
    BY <1>1, <1>2 DEF Whole
<1>8. Split'
    BY <1>1, <1>2, <1>6, <1>7 DEF Split
<1>9. Grouped'
    BY <1>1, <1>2 DEF Grouped, GroupsInOrder, Whereof
<1> QED BY <1>8, <1>9

LEMMA LeaveSectionKeeps ==
    ASSUME Shape, phase \in {"grouping", "splitting"}, Grouped, LeaveSection, UNCHANGED sections,
           Paragraphs # <<>> \/ chunks # <<>> => chunks' # <<>>
    PROVE  Grouped' /\ Split'
<1>1. CASE section < Len(sections)
    <2>1. /\ section' = section + 1 /\ taken' = 0 /\ groups' = <<>> /\ phase' = "grouping"
        BY <1>1 DEF LeaveSection
    <2>2. GroupsInOrder'
        <3>1. DOMAIN groups' = {} /\ 1..(Len(groups') - 1) = {} /\ taken' = 0 /\ groups' = <<>>
            BY <2>1
        <3> QED BY <3>1 DEF GroupsInOrder
    <2>3. /\ \E k \in DOMAIN sections : sections[k].paragraphs # <<>>
          /\ (\E k \in 1..(section - 1) : sections[k].paragraphs # <<>>) => chunks # <<>>
        BY DEF Grouped
    <2>4. (\E k \in 1..(section' - 1) : sections[k].paragraphs # <<>>) => chunks' # <<>>
        <3> SUFFICES ASSUME NEW k \in 1..(section' - 1), sections[k].paragraphs # <<>> PROVE chunks' # <<>>
            OBVIOUS
        <3>1. section \in Nat /\ section' - 1 = section
            <4>1. section \in 1..Len(sections) /\ sections \in Seq(Section)
                BY GroupedShape
            <4>2. section \in Nat
                BY <4>1, LenProperties
            <4> QED BY <4>2, <2>1
        <3>2. k \in 1..(section - 1) \/ k = section
            BY <3>1
        <3>3. k = section => Paragraphs # <<>>
            BY DEF Paragraphs
        <3> QED BY <3>2, <3>3, <2>3
    <2> QED BY <2>1, <2>2, <2>3, <2>4 DEF Grouped, Split
<1>2. CASE ~(section < Len(sections))
    <2>1. phase' = "ended"
        BY <1>2 DEF LeaveSection
    <2> QED BY <2>1 DEF Grouped, Split
<1> QED BY <1>1, <1>2

LEMMA SkipSectionKeeps ==
    ASSUME Shape, Grouped, SkipSection
    PROVE  Grouped' /\ Split'
<1>1. phase = "grouping" /\ Paragraphs = <<>> /\ LeaveSection /\ UNCHANGED <<sections, chunks>>
    BY DEF SkipSection, reader
<1> QED BY <1>1, LeaveSectionKeeps
-----------------------------------------------------------------------------
(* The loops that cut a group. *)

LEMMA PartConcat ==
    ASSUME NEW T, NEW s \in Seq(T), NEW a \in 1..(Len(s) + 1), NEW c \in (a - 1)..Len(s), NEW b \in (a - 1)..c
    PROVE  SubSeq(s, a, c) = SubSeq(s, a, b) \o SubSeq(s, b + 1, c)
<1>0. Len(s) \in Nat /\ a \in Nat /\ b \in Nat /\ c \in Nat
    BY LenProperties
<1> DEFINE p == SubSeq(s, a, b)
           q == SubSeq(s, b + 1, c)
           r == SubSeq(s, a, c)
<1>1. p \in Seq(T) /\ Len(p) = b - a + 1 /\ \A i \in 1..(b - a + 1) : p[i] = s[a + i - 1]
    <2>1. b \in (a - 1)..Len(s)
        BY <1>0
    <2> QED BY <2>1, PartOf
<1>2. q \in Seq(T) /\ Len(q) = c - b /\ \A i \in 1..(c - b) : q[i] = s[b + i]
    <2> DEFINE d == b + 1
    <2>1. d \in 1..(Len(s) + 1) /\ c \in (d - 1)..Len(s) /\ c - d + 1 = c - b /\ \A i \in 1..(c - b) : d + i - 1 = b + i
        BY <1>0
    <2> HIDE DEF d
    <2>2. SubSeq(s, d, c) \in Seq(T) /\ Len(SubSeq(s, d, c)) = c - d + 1 /\ \A i \in 1..(c - d + 1) : SubSeq(s, d, c)[i] = s[d + i - 1]
        BY <2>1, PartOf
    <2>3. \A i \in 1..(c - b) : SubSeq(s, d, c)[i] = s[b + i]
        BY <2>1, <2>2
    <2> QED BY <2>1, <2>2, <2>3 DEF d
<1>3. r \in Seq(T) /\ Len(r) = c - a + 1 /\ \A i \in 1..(c - a + 1) : r[i] = s[a + i - 1]
    BY PartOf
<1> HIDE DEF p, q, r
<1>4. /\ p \o q \in Seq(T) /\ Len(p \o q) = Len(p) + Len(q)
      /\ \A i \in 1..(Len(p) + Len(q)) : (p \o q)[i] = IF i <= Len(p) THEN p[i] ELSE q[i - Len(p)]
    BY <1>1, <1>2, ConcatProperties
<1>5. Len(p) + Len(q) = c - a + 1
    BY <1>0, <1>1, <1>2
<1>6. \A i \in 1..(c - a + 1) : (p \o q)[i] = r[i]
    <2> SUFFICES ASSUME NEW i \in 1..(c - a + 1) PROVE (p \o q)[i] = r[i]
        OBVIOUS
    <2>1. CASE i <= Len(p)
        <3>1. i \in 1..(b - a + 1)
            BY <2>1, <1>0, <1>1
        <3> QED BY <3>1, <2>1, <1>1, <1>3, <1>4, <1>5
    <2>2. CASE ~(i <= Len(p))
        <3>1. i - Len(p) \in 1..(c - b) /\ b + (i - Len(p)) = a + i - 1
            BY <2>2, <1>0, <1>1
        <3>2. (p \o q)[i] = q[i - Len(p)] /\ q[i - Len(p)] = s[b + (i - Len(p))]
            BY <3>1, <2>2, <1>2, <1>4, <1>5
        <3> QED BY <3>1, <3>2, <1>3
    <2> QED BY <2>1, <2>2
<1>7. p \o q = r
    BY <1>3, <1>4, <1>5, <1>6, SeqEqual
<1> QED BY <1>7 DEF p, q, r

LEMMA TextPart ==
    ASSUME NEW t \in Text, NEW a \in 1..(Len(t) + 1), NEW b \in (a - 1)..Len(t)
    PROVE  /\ SubSeq(t, a, b) \in Text /\ Len(SubSeq(t, a, b)) = b - a + 1
           /\ DOMAIN SubSeq(t, a, b) = 1..(b - a + 1)
           /\ \A i \in 1..(b - a + 1) : SubSeq(t, a, b)[i] = t[a + i - 1]
<1>1. SubSeq(t, a, b) \in Text /\ Len(SubSeq(t, a, b)) = b - a + 1 /\ \A i \in 1..(b - a + 1) : SubSeq(t, a, b)[i] = t[a + i - 1]
    BY PartOf DEF Text
<1> QED BY <1>1, TextFacts

LEMMA InkedParts ==
    ASSUME NEW t \in Text, NEW a \in 1..(Len(t) + 1), NEW c \in (a - 1)..Len(t), NEW b \in (a - 1)..c
    PROVE  Inked(SubSeq(t, a, c)) = Inked(SubSeq(t, a, b)) \o Inked(SubSeq(t, b + 1, c))
<1>0. Len(t) \in Nat /\ b \in (a - 1)..Len(t) /\ b + 1 \in 1..(Len(t) + 1) /\ c \in ((b + 1) - 1)..Len(t)
    BY TextFacts
<1> DEFINE p == SubSeq(t, a, b)
           q == SubSeq(t, b + 1, c)
<1>1. p \in Text
    BY <1>0, TextPart
<1>2. q \in Text
    <2> DEFINE d == b + 1
    <2>1. d \in 1..(Len(t) + 1) /\ c \in (d - 1)..Len(t)
        BY <1>0
    <2> HIDE DEF d
    <2>2. SubSeq(t, d, c) \in Text
        BY <2>1, TextPart
    <2> QED BY <2>2 DEF d
<1>3. SubSeq(t, a, c) = p \o q
    BY PartConcat DEF Text
<1> HIDE DEF p, q
<1>4. Inked(p \o q) = Inked(p) \o Inked(q)
    BY <1>1, <1>2, InkedFacts
<1> QED BY <1>3, <1>4 DEF p, q

\* A sentence leaves the front of the rest.
LEMMA SentenceLeaves ==
    ASSUME NEW whole \in Text, Solid(whole), NEW tail \in Text, Rest(tail, whole), tail # <<>>,
           NEW n \in 1..Len(tail), NEW m \in n..Len(tail), FirstSentence(tail, n, m)
    PROVE  /\ SubSeq(tail, 1, n) \in Text /\ SubSeq(tail, m + 1, Len(tail)) \in Text
           /\ Inked(tail) = Inked(SubSeq(tail, 1, n)) \o Inked(SubSeq(tail, m + 1, Len(tail)))
           /\ Rest(SubSeq(tail, m + 1, Len(tail)), whole)
           /\ Piece(SubSeq(tail, 1, n), whole)
<1> DEFINE s == SubSeq(tail, 1, n)
           gap == SubSeq(tail, n + 1, m)
           r == SubSeq(tail, m + 1, Len(tail))
           L == Len(tail)
           W == Len(whole)
<1>0. L \in Nat \ {0} /\ W \in Nat \ {0} /\ n \in Nat /\ m \in Nat /\ L <= W /\ DOMAIN tail = 1..L /\ DOMAIN whole = 1..W
    <2>1. L \in Nat /\ DOMAIN tail = 1..L
        BY TextFacts
    <2>2. W \in Nat \ {0} /\ DOMAIN whole = 1..W
        BY TextFacts, SolidFacts
    <2>3. L <= W
        BY DEF Rest
    <2> QED BY <2>1, <2>2, <2>3
<1>1. s \in Text /\ Len(s) = n /\ DOMAIN s = 1..n /\ \A i \in 1..n : s[i] = tail[i]
    <2>1. 1 \in 1..(L + 1) /\ n \in (1 - 1)..L /\ n - 1 + 1 = n /\ \A i \in 1..n : 1 + i - 1 = i
        BY <1>0
    <2>2. /\ s \in Text /\ Len(s) = n - 1 + 1 /\ DOMAIN s = 1..(n - 1 + 1)
          /\ \A i \in 1..(n - 1 + 1) : s[i] = tail[1 + i - 1]
        BY <2>1, TextPart
    <2> HIDE DEF s
    <2>3. \A i \in 1..n : s[i] = tail[i]
        BY <2>1, <2>2
    <2> QED BY <2>1, <2>2, <2>3
<1>2. gap \in Text /\ DOMAIN gap = 1..(m - n) /\ \A i \in 1..(m - n) : gap[i] = tail[n + i]
    <2> DEFINE d == n + 1
    <2>1. d \in 1..(L + 1) /\ m \in (d - 1)..L /\ m - d + 1 = m - n /\ \A i \in 1..(m - n) : d + i - 1 = n + i
        BY <1>0
    <2> HIDE DEF d
    <2>2. /\ SubSeq(tail, d, m) \in Text /\ DOMAIN SubSeq(tail, d, m) = 1..(m - d + 1)
          /\ \A i \in 1..(m - d + 1) : SubSeq(tail, d, m)[i] = tail[d + i - 1]
        BY <2>1, TextPart
    <2>3. \A i \in 1..(m - n) : SubSeq(tail, d, m)[i] = tail[n + i]
        BY <2>1, <2>2
    <2> QED BY <2>1, <2>2, <2>3 DEF d
<1>3. r \in Text /\ Len(r) = L - m /\ DOMAIN r = 1..(L - m) /\ \A i \in 1..(L - m) : r[i] = tail[m + i]
    <2> DEFINE d == m + 1
    <2>1. d \in 1..(L + 1) /\ L \in (d - 1)..L /\ L - d + 1 = L - m /\ \A i \in 1..(L - m) : d + i - 1 = m + i
        BY <1>0
    <2> HIDE DEF d
    <2>2. /\ SubSeq(tail, d, L) \in Text /\ Len(SubSeq(tail, d, L)) = L - d + 1 /\ DOMAIN SubSeq(tail, d, L) = 1..(L - d + 1)
          /\ \A i \in 1..(L - d + 1) : SubSeq(tail, d, L)[i] = tail[d + i - 1]
        BY <2>1, TextPart
    <2>3. \A i \in 1..(L - m) : SubSeq(tail, d, L)[i] = tail[m + i]
        BY <2>1, <2>2
    <2> QED BY <2>1, <2>2, <2>3 DEF d
<1>4. /\ Boundary(tail, n) \/ n = L
      /\ \A i \in (n + 1)..m : tail[i] = White
      /\ m < L => tail[m + 1] # White
    BY DEF FirstSentence
<1>5. \A k \in 1..L : tail[k] = whole[(W - L) + k]
    BY <1>0 DEF Rest
<1>6. Inked(tail) = Inked(s) \o Inked(r)
    <2>1. SubSeq(tail, 1, L) = tail
        BY SubSeqFull DEF Text
    <2>2. /\ 1 \in 1..(L + 1) /\ L \in (1 - 1)..L /\ n \in (1 - 1)..L
          /\ n + 1 \in 1..(L + 1) /\ L \in ((n + 1) - 1)..L /\ m \in ((n + 1) - 1)..L
        BY <1>0
    <2>3. Inked(SubSeq(tail, 1, L)) = Inked(SubSeq(tail, 1, n)) \o Inked(SubSeq(tail, n + 1, L))
        BY <2>2, InkedParts
    <2>4. Inked(SubSeq(tail, n + 1, L)) = Inked(gap) \o Inked(r)
        <3> DEFINE d == n + 1
        <3>1. d \in 1..(L + 1) /\ L \in (d - 1)..L /\ m \in (d - 1)..L
            BY <2>2
        <3> HIDE DEF d
        <3>2. Inked(SubSeq(tail, d, L)) = Inked(SubSeq(tail, d, m)) \o Inked(SubSeq(tail, m + 1, L))
            BY <3>1, InkedParts
        <3> QED BY <3>2 DEF d
    <2>5. Inked(gap) = <<>>
        <3>1. \A i \in 1..(m - n) : n + i \in (n + 1)..m
            BY <1>0
        <3>2. Blank(gap)
            BY <3>1, <1>2, <1>4 DEF Blank
        <3> HIDE DEF gap
        <3> QED BY <3>2, <1>2, InkedFacts
    <2>6. <<>> \o Inked(r) = Inked(r)
        <3>1. Inked(r) \in Text
            BY <1>3, InkedFacts
        <3> QED BY <3>1, TextConcat
    <2> HIDE DEF s, gap, r
    <2> QED BY <2>1, <2>3, <2>4, <2>5, <2>6 DEF s
<1> HIDE DEF s, gap, r, L, W
<1>7. Rest(r, whole)
    <2>1. r # <<>> => r[1] # White
        <3> SUFFICES ASSUME r # <<>> PROVE r[1] # White
            OBVIOUS
        <3>1. L - m > 0
            <4>1. Len(r) # 0
                BY <1>3, EmptySeq DEF Text
            <4> QED BY <4>1, <1>0, <1>3
        <3>2. 1 \in 1..(L - m) /\ m < L
            BY <3>1, <1>0
        <3> QED BY <3>2, <1>3, <1>4
    <2>2. Len(r) <= W
        BY <1>0, <1>3
    <2>3. \A k \in DOMAIN r : r[k] = whole[(W - Len(r)) + k]
        <3> SUFFICES ASSUME NEW k \in 1..(L - m) PROVE r[k] = whole[(W - (L - m)) + k]
            BY <1>3
        <3>1. m + k \in 1..L /\ (W - L) + (m + k) = (W - (L - m)) + k
            BY <1>0
        <3>2. tail[m + k] = whole[(W - L) + (m + k)]
            BY <3>1, <1>5
        <3> QED BY <3>1, <3>2, <1>3
    <2> QED BY <2>1, <2>2, <2>3 DEF Rest, W
<1>8. Piece(s, whole)
    <2>1. s # <<>>
        <3>1. Len(s) # 0
            BY <1>1, <1>0
        <3> QED BY <3>1
    <2>2. s[Len(s)] # White
        <3>1. n \in 1..n
            BY DEF L
        <3>2. s[Len(s)] = tail[n]
            BY <3>1, <1>1
        <3>3. CASE Boundary(tail, n)
            BY <3>2, <3>3, CharsAssumption DEF Boundary
        <3>4. CASE n = L
            <4>1. L \in 1..L /\ (W - L) + L = W
                BY <1>0
            <4>2. tail[L] = whole[W]
                BY <4>1, <1>5
            <4> QED BY <3>2, <3>4, <4>2 DEF Solid, W
        <3> QED BY <3>3, <3>4, <1>4
    <2>3. Within(s, whole)
        <3> DEFINE d == W - L
        <3>1. d \in 0..(W - n)
            BY <1>0 DEF L
        <3>2. \A k \in 1..n : s[k] = whole[d + k]
            <4> SUFFICES ASSUME NEW k \in 1..n PROVE s[k] = whole[d + k]
                OBVIOUS
            <4>1. k \in 1..L
                BY <1>0 DEF L
            <4> QED BY <4>1, <1>1, <1>5
        <3> HIDE DEF d
        <3> QED BY <3>1, <3>2, <1>1 DEF Within, W
    <2> QED BY <2>1, <2>2, <2>3 DEF Piece
<1> QED BY <1>1, <1>3, <1>6, <1>7, <1>8 DEF s, r, L

LEMMA EndOfConcat ==
    ASSUME NEW s \in Text, NEW t \in Text, t # <<>>
    PROVE  s \o t \in Text /\ s \o t # <<>> /\ (s \o t)[Len(s \o t)] = t[Len(t)]
<1>1. s \in Seq(Chars) /\ t \in Seq(Chars) /\ Len(s) \in Nat /\ Len(t) \in Nat \ {0}
    BY TextFacts, EmptySeq DEF Text
<1> DEFINE u == s \o t
<1>2. /\ u \in Seq(Chars) /\ Len(u) = Len(s) + Len(t)
      /\ \A i \in 1..(Len(s) + Len(t)) : u[i] = IF i <= Len(s) THEN s[i] ELSE t[i - Len(s)]
    BY <1>1, ConcatProperties
<1> HIDE DEF u
<1>3. Len(u) \in 1..(Len(s) + Len(t)) /\ ~(Len(u) <= Len(s)) /\ Len(u) - Len(s) = Len(t) /\ Len(u) # 0
    BY <1>1, <1>2
<1>4. u[Len(u)] = t[Len(t)] /\ u # <<>>
    BY <1>2, <1>3
<1> QED BY <1>2, <1>4 DEF u, Text

AllInk(fin, parts, tail) == InkedAll(fin) \o InkedAll(parts) \o Inked(tail)

Sewn(new, parts, s) == InkedAll(new) = InkedAll(parts) \o Inked(s)

Parted(tail, s, r) == Inked(tail) = Inked(s) \o Inked(r)

\* The ink of a sentence moves from the tail to the pieces.
LEMMA SentenceInk ==
    ASSUME NEW fin \in Seq(Text), NEW parts \in Seq(Text), NEW new \in Seq(Text),
           NEW tail \in Text, NEW s \in Text, NEW r \in Text,
           Sewn(new, parts, s), Parted(tail, s, r)
    PROVE  AllInk(fin, new, r) = AllInk(fin, parts, tail)
<1> DEFINE a == InkedAll(fin)
           b == InkedAll(parts)
           c == InkedAll(new)
           x == Inked(s)
           y == Inked(r)
           z == Inked(tail)
<1>1. a \in Text /\ b \in Text /\ x \in Text /\ y \in Text
    BY InksProperties, InkedFacts
<1>2. c = b \o x /\ z = x \o y
    BY DEF Sewn, Parted
<1> HIDE DEF a, b, c, x, y, z
<1>3. Regrouped(a, b, x, y)
    BY <1>1, Regroup
<1>4. a \o c \o y = a \o b \o z
    BY <1>2, <1>3 DEF Regrouped
<1> QED BY <1>4 DEF AllInk, a, b, c, y, z

\* new is parts, with sentence at its end.
WithSentence(parts, sentence, new) ==
    \/ new = Append(parts, sentence)
    \/ /\ parts # <<>> /\ Joins(parts[Len(parts)], sentence)
       /\ new = WithLast(parts, parts[Len(parts)] \o <<White>> \o sentence)

\* TakeSentence loses nothing of the text.
LEMMA CutSentence ==
    ASSUME NEW whole \in Text, Solid(whole),
           NEW fin \in Seq(Text), NEW parts \in Seq(Text), NEW tail \in Text, Cut(fin, parts, tail, whole), tail # <<>>,
           NEW n \in 1..Len(tail), NEW m \in n..Len(tail), FirstSentence(tail, n, m),
           NEW new \in Seq(Text),
           WithSentence(parts, SubSeq(tail, 1, n), new)
    PROVE  Cut(fin, new, SubSeq(tail, m + 1, Len(tail)), whole)
<1> DEFINE s == SubSeq(tail, 1, n)
           r == SubSeq(tail, m + 1, Len(tail))
           last == parts[Len(parts)]
<1>1. s \in Text /\ r \in Text /\ Inked(tail) = Inked(s) \o Inked(r) /\ Rest(r, whole) /\ Piece(s, whole)
    <2>1. Rest(tail, whole)
        BY DEF Cut
    <2> QED BY <2>1, SentenceLeaves
<1> HIDE DEF s, r
<1>2. /\ InkedAll(fin) \o InkedAll(parts) \o Inked(tail) = Inked(whole)
      /\ \A i \in DOMAIN parts : Piece(parts[i], whole)
      /\ \A k \in DOMAIN fin : Blank(fin[k]) => Len(fin[k]) = MaxSafe /\ Within(fin[k], whole)
    BY DEF Cut
<1>3. DOMAIN parts = 1..Len(parts) /\ Len(parts) \in Nat
    BY LenProperties
<1>4. \/ new = Append(parts, s)
      \/ /\ parts # <<>> /\ Joins(last, s)
         /\ new = WithLast(parts, last \o <<White>> \o s)
    BY DEF s, WithSentence
<1> HIDE DEF last
<1>5. /\ InkedAll(new) = InkedAll(parts) \o Inked(s)
      /\ \A i \in DOMAIN new : Piece(new[i], whole)
      /\ new # <<>>
    <2>1. CASE new = Append(parts, s)
        <3>1. InkedAll(new) = InkedAll(parts) \o Inked(s)
            BY <2>1, <1>1, InkedAllFacts
        <3>2. /\ Len(new) = Len(parts) + 1
              /\ (\A i \in 1..Len(parts) : new[i] = parts[i]) /\ new[Len(parts) + 1] = s
            BY <2>1, <1>1, AppendProperties
        <3>3. DOMAIN new = 1..(Len(parts) + 1) /\ Len(new) # 0
            BY <3>2, <1>3, LenProperties
        <3>4. \A i \in 1..(Len(parts) + 1) : i \in 1..Len(parts) \/ i = Len(parts) + 1
            BY <1>3
        <3>5. \A i \in DOMAIN new : Piece(new[i], whole)
            BY <3>2, <3>3, <3>4, <1>1, <1>2, <1>3
        <3>6. new # <<>>
            BY <3>3
        <3> QED BY <3>1, <3>5, <3>6
    <2>2. CASE parts # <<>> /\ Joins(last, s) /\ new = WithLast(parts, last \o <<White>> \o s)
        <3> DEFINE f == SubSeq(parts, 1, Len(parts) - 1)
                   t == last \o <<White>> \o s
        <3>0. last \in Text /\ Len(parts) \in 1..Len(parts)
            <4>1. Len(parts) \in 1..Len(parts)
                BY <2>2, <1>3, EmptySeq
            <4> QED BY <4>1, ElementOfSeq DEF last
        <3>1. t \in Text /\ Len(t) = Len(last) + 1 + Len(s) /\ Inked(t) = Inked(last) \o Inked(s)
            <4>1. Blank(<<White>>) /\ <<White>> \in Text
                BY TextFacts DEF Blank
            <4> DEFINE w == <<White>>
            <4>2. w \in Text /\ Blank(w)
                BY <4>1
            <4> HIDE DEF w
            <4>3. Inked(last \o w \o s) = Inked(last) \o Inked(s)
                BY <4>2, <3>0, <1>1, InkedAround
            <4> QED BY <4>3, <3>0, <1>1, JoinFacts DEF w
        <3>2. Piece(t, whole)
            <4>1. last \o <<White>> \in Text /\ s # <<>> /\ s[Len(s)] # White
                BY <3>0, <1>1, TextFacts DEF Piece
            <4> DEFINE lw == last \o <<White>>
            <4>2. t = lw \o s /\ lw \in Text
                BY <4>1
            <4> HIDE DEF lw, t
            <4>3. lw \o s # <<>> /\ (lw \o s)[Len(lw \o s)] = s[Len(s)]
                BY <4>1, <4>2, <1>1, EndOfConcat
            <4>4. ~(Len(t) > MaxSafe)
                <5>1. Len(t) <= MaxSafe
                    BY <2>2, <3>1 DEF Joins
                <5>2. Len(t) \in Nat /\ MaxSafe \in Nat
                    BY <3>1, SizesAssumption, TextFacts
                <5> QED BY <5>1, <5>2
            <4> QED BY <4>1, <4>2, <4>3, <4>4 DEF Piece
        <3> HIDE DEF t
        <3>3. f \in Seq(Text) /\ parts = Append(f, last) /\ new = Append(f, t)
            <4>1. new = WithLast(parts, t)
                BY <2>2 DEF t
            <4>2. parts # <<>> /\ t \in Text
                BY <2>2, <3>1
            <4>3. /\ f \in Seq(Text) /\ parts = Append(f, parts[Len(parts)])
                  /\ WithLast(parts, t) = Append(f, t)
                BY <4>2, WithLastFront
            <4> QED BY <4>1, <4>3 DEF last
        <3>4. /\ Len(new) = Len(parts)
              /\ \A i \in DOMAIN parts : new[i] = IF i = Len(parts) THEN t ELSE parts[i]
            <4>1. new = WithLast(parts, t)
                BY <2>2 DEF t
            <4>2. parts # <<>> /\ t \in Text
                BY <2>2, <3>1
            <4>3. /\ Len(WithLast(parts, t)) = Len(parts)
                  /\ \A i \in DOMAIN parts : WithLast(parts, t)[i] = IF i = Len(parts) THEN t ELSE parts[i]
                BY <4>2, WithLastProperties
            <4> QED BY <4>1, <4>3
        <3>5. DOMAIN new = DOMAIN parts /\ new # <<>>
            <4>1. DOMAIN new = 1..Len(new) /\ Len(new) # 0
                <5>1. Len(new) = Len(parts) /\ Len(parts) # 0
                    BY <3>0, <3>4
                <5> QED BY <5>1, LenProperties
            <4>2. DOMAIN new = DOMAIN parts
                BY <4>1, <3>4, <1>3
            <4>3. new # <<>>
                <5>1. Len(<<>>) = 0
                    OBVIOUS
                <5> QED BY <5>1, <4>1
            <4> QED BY <4>2, <4>3
        <3>6. \A i \in DOMAIN new : Piece(new[i], whole)
            BY <3>2, <3>4, <3>5, <1>2
        <3>7. InkedAll(new) = InkedAll(parts) \o Inked(s)
            <4> HIDE DEF f
            <4>1. InkedAll(Append(f, t)) = InkedAll(f) \o Inked(t) /\ InkedAll(Append(f, last)) = InkedAll(f) \o Inked(last)
                BY <3>0, <3>1, <3>3, InkedAllFacts
            <4>2. InkedAll(f) \in Text /\ Inked(last) \in Text /\ Inked(s) \in Text
                BY <3>0, <3>3, <1>1, InksProperties, InkedFacts
            <4>3. InkedAll(f) \o (Inked(last) \o Inked(s)) = (InkedAll(f) \o Inked(last)) \o Inked(s)
                BY <4>2, TextConcat
            <4> QED BY <4>1, <4>3, <3>1, <3>3
        <3> QED BY <3>5, <3>6, <3>7
    <2> QED BY <2>1, <2>2, <1>4
<1>6. InkedAll(fin) \o InkedAll(new) \o Inked(r) = Inked(whole)
    <2>1. Sewn(new, parts, s) /\ Parted(tail, s, r)
        BY <1>1, <1>5 DEF Sewn, Parted
    <2>2. s \in Text /\ r \in Text
        BY <1>1
    <2>3. AllInk(fin, new, r) = AllInk(fin, parts, tail)
        BY <2>1, <2>2, SentenceInk
    <2> QED BY <2>3, <1>2 DEF AllInk
<1>7. Cut(fin, new, r, whole)
    BY <1>1, <1>2, <1>5, <1>6 DEF Cut
<1> QED BY <1>7 DEF r

\* A window and what is beyond it are the whole piece.
LEMMA WindowParts ==
    ASSUME NEW piece \in Text, NEW whole \in Text, Piece(piece, whole)
    PROVE  /\ Window(piece) \in Text /\ Beyond(piece) \in Text
           /\ Len(piece) <= MaxSafe => Window(piece) = piece /\ ~Blank(piece)
           /\ ~(Len(piece) <= MaxSafe) =>
                 /\ Inked(piece) = Inked(Window(piece)) \o Inked(Beyond(piece))
                 /\ Len(Window(piece)) = MaxSafe /\ Within(Window(piece), whole)
                 /\ Piece(Beyond(piece), whole)
<1> DEFINE L == Len(piece)
           M == MaxSafe
<1>0. L \in Nat \ {0} /\ M \in Nat \ {0} /\ DOMAIN piece = 1..L /\ piece \in Seq(Chars) /\ Len(whole) \in Nat
    BY TextFacts, EmptySeq, SizesAssumption DEF Piece, Text
<1>1. CASE L <= M
    <2>1. Window(piece) = SubSeq(piece, 1, L)
        BY <1>1 DEF Window
    <2>2. SubSeq(piece, 1, L) = piece
        BY <1>0, SubSeqFull
    <2>3. ~Blank(piece)
        <3>1. L \in DOMAIN piece /\ piece[L] # White
            BY <1>0 DEF Piece
        <3> QED BY <3>1 DEF Blank
    <2>4. Beyond(piece) \in Text
        <3>1. Beyond(piece) = <<>>
            <4>1. M + 1 > L
                BY <1>0, <1>1
            <4> QED BY <4>1, <1>0, SubSeqEmpty DEF Beyond
        <3> QED BY <3>1, TextFacts
    <2> QED BY <2>1, <2>2, <2>3, <2>4, <1>1
<1>2. CASE ~(L <= M)
    <2>0. M < L /\ 1 \in 1..(L + 1) /\ M \in (1 - 1)..L /\ L \in (1 - 1)..L /\ M - 1 + 1 = M
        BY <1>0, <1>2
    <2> DEFINE w == SubSeq(piece, 1, M)
               b == SubSeq(piece, M + 1, L)
    <2>1. Window(piece) = w /\ Beyond(piece) = b
        BY <1>2 DEF Window, Beyond
    <2>2. w \in Text /\ Len(w) = M /\ DOMAIN w = 1..M /\ \A i \in 1..M : w[i] = piece[i]
        <3>1. /\ w \in Text /\ Len(w) = M - 1 + 1 /\ DOMAIN w = 1..(M - 1 + 1)
              /\ \A i \in 1..(M - 1 + 1) : w[i] = piece[1 + i - 1]
            BY <2>0, TextPart
        <3> HIDE DEF w
        <3>2. \A i \in 1..M : 1 + i - 1 = i
            BY <1>0
        <3> QED BY <3>1, <3>2, <2>0
    <2>3. b \in Text /\ Len(b) = L - M /\ DOMAIN b = 1..(L - M) /\ \A i \in 1..(L - M) : b[i] = piece[M + i]
        <3> DEFINE d == M + 1
        <3>1. d \in 1..(L + 1) /\ L \in (d - 1)..L /\ L - d + 1 = L - M /\ \A i \in 1..(L - M) : d + i - 1 = M + i
            BY <1>0, <2>0
        <3> HIDE DEF d, L
        <3>2. /\ SubSeq(piece, d, L) \in Text /\ Len(SubSeq(piece, d, L)) = L - d + 1 /\ DOMAIN SubSeq(piece, d, L) = 1..(L - d + 1)
              /\ \A i \in 1..(L - d + 1) : SubSeq(piece, d, L)[i] = piece[d + i - 1]
            BY <3>1, TextPart DEF L
        <3>3. \A i \in 1..(L - M) : SubSeq(piece, d, L)[i] = piece[M + i]
            BY <3>1, <3>2
        <3> QED BY <3>1, <3>2, <3>3 DEF d
    <2>4. Inked(piece) = Inked(w) \o Inked(b)
        <3>1. Inked(SubSeq(piece, 1, L)) = Inked(SubSeq(piece, 1, M)) \o Inked(SubSeq(piece, M + 1, L))
            BY <2>0, InkedParts
        <3> QED BY <3>1, <1>0, SubSeqFull
    <2>5. PICK d \in 0..(Len(whole) - L) : \A k \in 1..L : piece[k] = whole[d + k]
        <3>1. L > M
            BY <2>0
        <3> QED BY <3>1, <1>0 DEF Piece, Within
    <2> HIDE DEF w, b, L, M
    <2>6. Within(w, whole)
        <3>1. d \in 0..(Len(whole) - M) /\ \A k \in 1..M : k \in 1..L
            BY <1>0, <2>0, <2>5
        <3>2. \A k \in 1..M : w[k] = whole[d + k]
            BY <3>1, <2>2, <2>5
        <3> QED BY <3>1, <3>2, <2>2 DEF Within
    <2>7. Within(b, whole)
        <3> DEFINE e == d + M
        <3>1. e \in 0..(Len(whole) - (L - M)) /\ \A k \in 1..(L - M) : M + k \in 1..L /\ d + (M + k) = e + k
            BY <1>0, <2>0, <2>5
        <3> HIDE DEF e
        <3>2. \A k \in 1..(L - M) : b[k] = whole[e + k]
            BY <3>1, <2>3, <2>5
        <3> QED BY <3>1, <3>2, <2>3 DEF Within
    <2>8. b # <<>> /\ b[Len(b)] # White
        <3>1. L - M \in 1..(L - M) /\ M + (L - M) = L
            BY <1>0, <2>0
        <3>2. b[Len(b)] = piece[L]
            BY <3>1, <2>3
        <3>3. Len(b) # 0
            BY <2>3, <1>0, <2>0
        <3> QED BY <3>2, <3>3 DEF Piece, L
    <2> QED BY <2>1, <2>2, <2>3, <2>4, <2>6, <2>7, <2>8, <1>2 DEF Piece, L, M
<1> QED BY <1>1, <1>2

LEMMA ConsProperties ==
    ASSUME NEW T, NEW t \in Seq(T), NEW q \in T
    PROVE  /\ <<q>> \o t \in Seq(T) /\ DOMAIN (<<q>> \o t) = 1..(1 + Len(t))
           /\ (<<q>> \o t)[1] = q
           /\ \A i \in 1..Len(t) : (<<q>> \o t)[1 + i] = t[i]
<1>0. Len(t) \in Nat
    BY LenProperties
<1>1. <<q>> \in Seq(T) /\ Len(<<q>>) = 1 /\ <<q>>[1] = q
    OBVIOUS
<1> DEFINE qs == <<q>>
           r == qs \o t
<1>2. qs \in Seq(T) /\ Len(qs) = 1 /\ qs[1] = q
    BY <1>1
<1> HIDE DEF qs
<1>3. /\ r \in Seq(T) /\ Len(r) = Len(qs) + Len(t)
      /\ \A i \in 1..(Len(qs) + Len(t)) : r[i] = IF i <= Len(qs) THEN qs[i] ELSE t[i - Len(qs)]
    BY <1>2, ConcatProperties
<1>4. Len(r) = 1 + Len(t) /\ DOMAIN r = 1..(1 + Len(t))
    BY <1>2, <1>3, LenProperties
<1> HIDE DEF r
<1>5. r[1] = q
    <2>1. 1 \in 1..(Len(qs) + Len(t)) /\ 1 <= Len(qs)
        BY <1>2, <1>0
    <2> QED BY <2>1, <1>2, <1>3
<1>6. \A i \in 1..Len(t) : r[1 + i] = t[i]
    <2> SUFFICES ASSUME NEW i \in 1..Len(t) PROVE r[1 + i] = t[i]
        OBVIOUS
    <2>1. 1 + i \in 1..(Len(qs) + Len(t)) /\ ~(1 + i <= Len(qs)) /\ (1 + i) - Len(qs) = i
        BY <1>2, <1>0
    <2> QED BY <2>1, <1>3
<1> QED BY <1>3, <1>4, <1>5, <1>6 DEF r, qs

LEMMA PieceInk ==
    ASSUME NEW fin \in Seq(Text), NEW parts \in Seq(Text), NEW p \in Text
    PROVE  AllInk(Append(fin, p), parts, <<>>) = AllInk(fin, <<p>> \o parts, <<>>)
<1> DEFINE a == InkedAll(fin)
           b == InkedAll(parts)
           x == Inked(p)
<1>1. a \in Text /\ b \in Text /\ x \in Text
    BY InksProperties, InkedFacts
<1>2. InkedAll(Append(fin, p)) = a \o x
    BY InkedAllFacts
<1>3. <<p>> \in Seq(Text) /\ InkedAll(<<p>>) = x
    BY InkedAllFacts
<1>4. InkedAll(<<p>> \o parts) = InkedAll(<<p>>) \o b
    BY <1>3, InkedAllConcat
<1> HIDE DEF a, b, x
<1>5. (a \o x) \o b = a \o (x \o b)
    BY <1>1, TextConcat
<1>6. InkedAll(Append(fin, p)) \o b = a \o InkedAll(<<p>> \o parts)
    BY <1>2, <1>3, <1>4, <1>5
<1> QED BY <1>6 DEF AllInk, a, b

LEMMA WindowInk ==
    ASSUME NEW fin \in Seq(Text), NEW parts \in Seq(Text),
           NEW p \in Text, NEW w \in Text, NEW d \in Text, Parted(p, w, d)
    PROVE  AllInk(Append(fin, w), <<d>> \o parts, <<>>) = AllInk(fin, <<p>> \o parts, <<>>)
<1> DEFINE a == InkedAll(fin)
           b == InkedAll(parts)
           x == Inked(w)
           y == Inked(d)
           z == Inked(p)
<1>1. a \in Text /\ b \in Text /\ x \in Text /\ y \in Text
    BY InksProperties, InkedFacts
<1>2. InkedAll(Append(fin, w)) = a \o x
    BY InkedAllFacts
<1>3. <<p>> \in Seq(Text) /\ InkedAll(<<p>>) = z /\ <<d>> \in Seq(Text) /\ InkedAll(<<d>>) = y
    BY InkedAllFacts
<1>4. InkedAll(<<p>> \o parts) = InkedAll(<<p>>) \o b
    BY <1>3, InkedAllConcat
<1>5. InkedAll(<<d>> \o parts) = InkedAll(<<d>>) \o b
    BY <1>3, InkedAllConcat
<1>6. z = x \o y
    BY DEF Parted
<1> HIDE DEF a, b, x, y, z
<1>7. Regrouped(a, x, y, b)
    BY <1>1, Regroup
<1>8. (a \o x) \o (y \o b) = a \o (z \o b)
    <2> DEFINE xyb == (x \o y) \o b
    <2>1. a \o (x \o y) \o b = a \o x \o (y \o b)
        BY <1>7 DEF Regrouped
    <2> DEFINE xy == x \o y
    <2>2. xy \in Text
        BY <1>1, TextFacts
    <2> HIDE DEF xy
    <2>3. (a \o xy) \o b = a \o (xy \o b)
        BY <1>1, <2>2, TextConcat
    <2> QED BY <2>1, <2>3, <1>6 DEF xy
<1>9. InkedAll(Append(fin, w)) \o InkedAll(<<d>> \o parts) = a \o InkedAll(<<p>> \o parts)
    BY <1>2, <1>3, <1>4, <1>5, <1>8
<1> QED BY <1>9 DEF AllInk, a

\* CutPiece loses nothing of the text.
LEMMA CutWindow ==
    ASSUME NEW whole \in Text,
           NEW fin \in Seq(Text), NEW p \in Text, NEW parts \in Seq(Text), Cut(fin, <<p>> \o parts, <<>>, whole)
    PROVE  Cut(Append(fin, Window(p)), IF Len(p) <= MaxSafe THEN parts ELSE <<Beyond(p)>> \o parts, <<>>, whole)
<1> DEFINE w == Window(p)
           d == Beyond(p)
           all == <<p>> \o parts
           fin2 == Append(fin, w)
<1>1. /\ AllInk(fin, all, <<>>) = Inked(whole) /\ Rest(<<>>, whole)
      /\ \A i \in DOMAIN all : Piece(all[i], whole)
      /\ \A k \in DOMAIN fin : Blank(fin[k]) => Len(fin[k]) = MaxSafe /\ Within(fin[k], whole)
    BY DEF Cut, AllInk
<1>2. Len(parts) \in Nat /\ DOMAIN parts = 1..Len(parts) /\ Len(fin) \in Nat /\ DOMAIN fin = 1..Len(fin)
    BY LenProperties
<1>3. \A q \in Text : /\ <<q>> \o parts \in Seq(Text) /\ DOMAIN (<<q>> \o parts) = 1..(1 + Len(parts))
                      /\ (<<q>> \o parts)[1] = q
                      /\ \A i \in 1..Len(parts) : (<<q>> \o parts)[1 + i] = parts[i]
    BY ConsProperties
<1>4. Piece(p, whole) /\ \A i \in 1..Len(parts) : Piece(parts[i], whole)
    <2>1. 1 \in 1..(1 + Len(parts)) /\ \A i \in 1..Len(parts) : 1 + i \in 1..(1 + Len(parts))
        BY <1>2
    <2>2. DOMAIN all = 1..(1 + Len(parts)) /\ all[1] = p /\ \A i \in 1..Len(parts) : all[1 + i] = parts[i]
        BY <1>3
    <2> HIDE DEF all
    <2> QED BY <2>1, <2>2, <1>1
<1>5. /\ w \in Text /\ d \in Text
      /\ Len(p) <= MaxSafe => w = p /\ ~Blank(p)
      /\ ~(Len(p) <= MaxSafe) =>
            /\ Inked(p) = Inked(w) \o Inked(d)
            /\ Len(w) = MaxSafe /\ Within(w, whole)
            /\ Piece(d, whole)
    BY <1>4, WindowParts
<1> HIDE DEF w, d
<1>6. /\ fin2 \in Seq(Text) /\ DOMAIN fin2 = 1..(Len(fin) + 1) /\ fin2 # <<>>
      /\ fin2[Len(fin) + 1] = w /\ \A i \in 1..Len(fin) : fin2[i] = fin[i]
    <2>1. /\ fin2 \in Seq(Text) /\ Len(fin2) = Len(fin) + 1
          /\ fin2[Len(fin) + 1] = w /\ \A i \in 1..Len(fin) : fin2[i] = fin[i]
        BY <1>5, AppendProperties
    <2>2. Len(fin2) # 0
        BY <2>1, <1>2
    <2> QED BY <2>1, <2>2, LenProperties
<1>7. \A k \in DOMAIN fin2 : Blank(fin2[k]) => Len(fin2[k]) = MaxSafe /\ Within(fin2[k], whole)
    <2> SUFFICES ASSUME NEW k \in 1..(Len(fin) + 1), Blank(fin2[k])
                 PROVE  Len(fin2[k]) = MaxSafe /\ Within(fin2[k], whole)
        BY <1>6
    <2>1. k \in 1..Len(fin) \/ k = Len(fin) + 1
        BY <1>2
    <2>2. CASE k \in 1..Len(fin)
        BY <2>2, <1>6, <1>1, <1>2
    <2>3. CASE k = Len(fin) + 1
        <3>1. fin2[k] = w
            BY <2>3, <1>6
        <3> QED BY <3>1, <1>5
    <2> QED BY <2>1, <2>2, <2>3
<1>8. CASE Len(p) <= MaxSafe
    <2>1. AllInk(fin2, parts, <<>>) = Inked(whole)
        <3>1. AllInk(Append(fin, p), parts, <<>>) = AllInk(fin, <<p>> \o parts, <<>>)
            BY PieceInk
        <3>2. fin2 = Append(fin, p)
            BY <1>5, <1>8
        <3> QED BY <3>1, <3>2, <1>1
    <2> HIDE DEF fin2
    <2>2. Cut(fin2, parts, <<>>, whole)
        BY <2>1, <1>1, <1>2, <1>4, <1>6, <1>7 DEF Cut, AllInk
    <2> QED BY <2>2, <1>8 DEF fin2, w
<1>9. CASE ~(Len(p) <= MaxSafe)
    <2> DEFINE new == <<d>> \o parts
    <2>1. AllInk(fin2, new, <<>>) = Inked(whole)
        <3>1. Parted(p, w, d)
            BY <1>5, <1>9 DEF Parted
        <3>2. w \in Text /\ d \in Text
            BY <1>5
        <3>3. AllInk(Append(fin, w), <<d>> \o parts, <<>>) = AllInk(fin, <<p>> \o parts, <<>>)
            BY <3>1, <3>2, WindowInk
        <3> QED BY <3>3, <1>1
    <2>2. \A i \in DOMAIN new : Piece(new[i], whole)
        <3>1. DOMAIN new = 1..(1 + Len(parts)) /\ new[1] = d /\ \A i \in 1..Len(parts) : new[1 + i] = parts[i]
            BY <1>3, <1>5
        <3> HIDE DEF new
        <3> SUFFICES ASSUME NEW i \in 1..(1 + Len(parts)) PROVE Piece(new[i], whole)
            BY <3>1
        <3>2. i = 1 \/ (i - 1 \in 1..Len(parts) /\ 1 + (i - 1) = i)
            BY <1>2
        <3>3. CASE i = 1
            BY <3>3, <3>1, <1>5, <1>9
        <3>4. CASE i - 1 \in 1..Len(parts) /\ 1 + (i - 1) = i
            <4>1. new[1 + (i - 1)] = parts[i - 1] /\ Piece(parts[i - 1], whole)
                BY <3>1, <3>4, <1>4
            <4> QED BY <4>1, <3>4
        <3> QED BY <3>2, <3>3, <3>4
    <2> HIDE DEF fin2, new
    <2>3. Cut(fin2, new, <<>>, whole)
        BY <2>1, <2>2, <1>1, <1>6, <1>7 DEF Cut, AllInk
    <2> QED BY <2>3, <1>9 DEF fin2, w, d, new
<1> QED BY <1>8, <1>9

LEMMA SplitGroup ==
    ASSUME Shape, SectionsSolid, Grouped, phase = "splitting"
    PROVE  /\ group \in 1..Len(groups) /\ groups[group] \in Group /\ Whereof(groups[group])
           /\ Whole(groups[group]) \in Text /\ Solid(Whole(groups[group]))
<1>1. group \in 1..Len(groups)
    BY DEF Shape, InStep
<1>2. groups[group] \in Group /\ DOMAIN groups = 1..Len(groups)
    BY <1>1, GroupedShape
<1>3. Whereof(groups[group])
    BY <1>1, <1>2 DEF Grouped, GroupsInOrder
<1> DEFINE g == groups[group]
<1>4. g \in Group /\ Whereof(g)
    BY <1>2, <1>3
<1> HIDE DEF g
<1>5. Whole(g) \in Text /\ Solid(Whole(g))
    BY <1>4, WholeProperties
<1> QED BY <1>1, <1>4, <1>5 DEF g

LEMMA SplittingStays ==
    ASSUME Grouped, phase = "splitting", UNCHANGED <<phase, sections, section, taken, groups, group, chunks>>
    PROVE  Grouped' /\ Whole(groups[group])' = Whole(groups[group]) /\ Paragraphs' = Paragraphs
<1>1. Paragraphs' = Paragraphs /\ Heading' = Heading
    BY WhereofStays
<1>2. Grouped'
    BY <1>1 DEF Grouped, GroupsInOrder, Whereof
<1>3. Whole(groups[group])' = Whole(groups[group])
    BY <1>1 DEF Whole
<1> QED BY <1>1, <1>2, <1>3

LEMMA TakeSentenceKeeps ==
    ASSUME Shape, Shape', SectionsSolid, Grouped, Split, TakeSentence
    PROVE  Grouped' /\ Split'
<1>1. /\ phase = "splitting" /\ rest # <<>>
      /\ UNCHANGED <<phase, sections, section, taken, groups, group, chunks>> /\ final' = final
    BY DEF TakeSentence, reader, grouper
<1>2. PICK n \in 1..Len(rest) : \E m \in n..Len(rest) :
          /\ FirstSentence(rest, n, m)
          /\ pieces' = IF pieces # <<>> /\ Joins(pieces[Len(pieces)], SubSeq(rest, 1, n))
                       THEN WithLast(pieces, pieces[Len(pieces)] \o <<White>> \o SubSeq(rest, 1, n))
                       ELSE Append(pieces, SubSeq(rest, 1, n))
          /\ rest' = SubSeq(rest, m + 1, Len(rest))
    BY DEF TakeSentence
<1>3. PICK m \in n..Len(rest) :
          /\ FirstSentence(rest, n, m)
          /\ pieces' = IF pieces # <<>> /\ Joins(pieces[Len(pieces)], SubSeq(rest, 1, n))
                       THEN WithLast(pieces, pieces[Len(pieces)] \o <<White>> \o SubSeq(rest, 1, n))
                       ELSE Append(pieces, SubSeq(rest, 1, n))
          /\ rest' = SubSeq(rest, m + 1, Len(rest))
    BY <1>2
<1>4. WithSentence(pieces, SubSeq(rest, 1, n), pieces')
    BY <1>3 DEF WithSentence
<1> DEFINE whole == Whole(groups[group])
<1>5. whole \in Text /\ Solid(whole)
    BY <1>1, SplitGroup
<1>6. Cut(final, pieces, rest, whole) /\ taken = Len(Paragraphs)
    BY <1>1 DEF Split
<1>7. Grouped' /\ whole' = whole /\ Paragraphs' = Paragraphs
    BY <1>1, SplittingStays
<1> HIDE DEF whole
<1>8. rest \in Text /\ pieces \in Seq(Text) /\ final \in Seq(Text) /\ pieces' \in Seq(Text)
    BY DEF Shape, TypeOK
<1>9. Cut(final, pieces', SubSeq(rest, m + 1, Len(rest)), whole)
    BY <1>1, <1>3, <1>4, <1>5, <1>6, <1>8, CutSentence
<1>10. Cut(final, pieces, rest, whole)' /\ taken' = Len(Paragraphs')
    BY <1>1, <1>3, <1>6, <1>7, <1>9
<1> QED BY <1>7, <1>10 DEF Split, whole

LEMMA CutPieceKeeps ==
    ASSUME Shape, SectionsSolid, Grouped, Split, CutPiece
    PROVE  Grouped' /\ Split'
<1>1. /\ phase = "splitting" /\ rest = <<>> /\ pieces # <<>>
      /\ UNCHANGED <<phase, sections, section, taken, groups, group, chunks, rest>>
      /\ final' = Append(final, Window(Head(pieces)))
      /\ pieces' = IF Len(Head(pieces)) <= MaxSafe THEN Tail(pieces) ELSE <<Beyond(Head(pieces))>> \o Tail(pieces)
    BY DEF CutPiece, reader, grouper
<1> DEFINE whole == Whole(groups[group])
           p == Head(pieces)
           parts == Tail(pieces)
<1>2. whole \in Text
    BY <1>1, SplitGroup
<1>3. Cut(final, pieces, rest, whole) /\ taken = Len(Paragraphs)
    BY <1>1 DEF Split
<1>4. Grouped' /\ whole' = whole /\ Paragraphs' = Paragraphs
    BY <1>1, SplittingStays
<1>5. pieces \in Seq(Text) /\ final \in Seq(Text)
    BY DEF Shape, TypeOK
<1>6. p \in Text /\ parts \in Seq(Text) /\ pieces = <<p>> \o parts
    BY <1>1, <1>5, HeadTailProperties
<1> HIDE DEF whole, p, parts
<1>7. Cut(final, <<p>> \o parts, <<>>, whole)
    BY <1>1, <1>3, <1>6
<1>8. Cut(Append(final, Window(p)), IF Len(p) <= MaxSafe THEN parts ELSE <<Beyond(p)>> \o parts, <<>>, whole)
    BY <1>2, <1>5, <1>6, <1>7, CutWindow
<1>9. Cut(final', pieces', rest', whole')
    BY <1>1, <1>4, <1>8 DEF p, parts
<1>10. taken' = Len(Paragraphs')
    BY <1>1, <1>3, <1>4
<1> QED BY <1>4, <1>9, <1>10 DEF Split, whole

\* The new chunks come after the old ones, with the texts of final.
LEMMA NewChunksAdded ==
    ASSUME Shape, Split, phase = "splitting", rest = <<>>, pieces = <<>>, chunks' = chunks \o NewChunks
    PROVE  /\ final \in Seq(Text) /\ final # <<>> /\ Len(final) \in Nat \ {0} /\ DOMAIN final = 1..Len(final)
           /\ Len(chunks) \in Nat /\ Len(chunks') = Len(chunks) + Len(final) /\ chunks' # <<>>
           /\ DOMAIN chunks' = 1..Len(chunks')
           /\ \A i \in 1..Len(chunks) : chunks'[i] = chunks[i]
           /\ \A k \in 1..Len(final) : chunks'[Len(chunks) + k] = NewChunks[k] /\ NewChunks[k].text = final[k]
<1>1. final \in Seq(Text) /\ chunks \in Seq(Chunk) /\ TypeOK
    BY DEF Shape, TypeOK, Chunk
<1>2. final # <<>>
    BY DEF Split, Cut
<1>3. Len(final) \in Nat \ {0} /\ DOMAIN final = 1..Len(final) /\ Len(chunks) \in Nat
    BY <1>1, <1>2, LenProperties, EmptySeq
<1>4. /\ NewChunks \in Seq(Chunk) /\ DOMAIN NewChunks = DOMAIN final
      /\ \A k \in DOMAIN final : NewChunks[k].text = final[k]
    BY <1>1, NewChunksProperties
<1> DEFINE new == NewChunks
<1>5. new \in Seq(Chunk) /\ Len(new) = Len(final)
    BY <1>3, <1>4, LenProperties
<1> HIDE DEF new
<1>6. /\ chunks \o new \in Seq(Chunk) /\ Len(chunks \o new) = Len(chunks) + Len(new)
      /\ \A i \in 1..(Len(chunks) + Len(new)) :
            (chunks \o new)[i] = IF i <= Len(chunks) THEN chunks[i] ELSE new[i - Len(chunks)]
    BY <1>1, <1>5, ConcatProperties
<1>7. chunks' = chunks \o new
    BY DEF new
<1> DEFINE c == chunks'
           a == Len(chunks)
           f == Len(final)
<1>8. /\ c \in Seq(Chunk) /\ Len(c) = a + f /\ a \in Nat /\ f \in Nat \ {0}
      /\ \A i \in 1..(a + f) : c[i] = IF i <= a THEN chunks[i] ELSE new[i - a]
    BY <1>3, <1>5, <1>6, <1>7
<1> HIDE DEF c, a, f
<1>9. DOMAIN c = 1..Len(c) /\ c # <<>>
    <2>1. Len(c) # 0
        BY <1>8
    <2> QED BY <2>1, <1>8, LenProperties
<1>10. \A i \in 1..a : c[i] = chunks[i]
    <2>1. \A i \in 1..a : i \in 1..(a + f) /\ i <= a
        BY <1>8
    <2> QED BY <2>1, <1>8
<1>11. \A k \in 1..f : c[a + k] = new[k]
    <2>1. \A k \in 1..f : a + k \in 1..(a + f) /\ ~(a + k <= a) /\ (a + k) - a = k
        BY <1>8
    <2> QED BY <2>1, <1>8
<1> QED BY <1>1, <1>2, <1>3, <1>4, <1>8, <1>9, <1>10, <1>11 DEF c, a, f, new

LEMMA MakeChunksKeeps ==
    ASSUME Shape, SectionsSolid, Grouped, Split, MakeChunks
    PROVE  Grouped' /\ Split'
<1>1. phase = "splitting" /\ rest = <<>> /\ pieces = <<>> /\ UNCHANGED sections
    BY DEF MakeChunks, reader
<1>2. CASE \E k \in DOMAIN final : Blank(final[k])
    <2>1. phase' = "ended"
        BY <1>2 DEF MakeChunks, Refuse
    <2> QED BY <2>1 DEF Grouped, Split
<1>3. CASE ~\E k \in DOMAIN final : Blank(final[k])
    <2>1. chunks' = chunks \o NewChunks
        BY <1>3 DEF MakeChunks
    <2>2. chunks' # <<>>
        BY <1>1, <2>1, NewChunksAdded
    <2>3. CASE group < Len(groups)
        <3>1. /\ StartGroup(group + 1) /\ UNCHANGED <<section, taken, groups>>
              /\ group' = group + 1 /\ phase' = "splitting"
            BY <1>3, <2>3 DEF MakeChunks, StartGroup
        <3>2. Paragraphs' = Paragraphs /\ Heading' = Heading
            BY <1>1, <3>1, WhereofStays
        <3>3. GroupsInOrder /\ \E k \in DOMAIN sections : sections[k].paragraphs # <<>>
            BY <1>1 DEF Grouped
        <3>4. Grouped'
            BY <1>1, <2>2, <3>1, <3>2, <3>3 DEF Grouped, GroupsInOrder, Whereof
        <3> DEFINE n == group + 1
        <3>5. n \in 1..Len(groups)
            <4>1. group \in 1..Len(groups) /\ Len(groups) \in Nat
                BY <1>1, SplitGroup, GroupedShape
            <4> QED BY <4>1, <2>3
        <3>6. Whereof(groups[n]) /\ StartGroup(n) /\ group' = n
            <4>1. n \in DOMAIN groups
                BY <3>5, GroupedShape
            <4>2. Whereof(groups[n])
                BY <4>1, <3>3 DEF GroupsInOrder
            <4> QED BY <4>2, <3>1
        <3> HIDE DEF n
        <3>7. Cut(final', pieces', rest', Whole(groups[n]))
            BY <3>5, <3>6, StartGroupCuts
        <3>8. Whole(groups[group])' = Whole(groups[n])
            BY <3>1, <3>2, <3>6 DEF Whole
        <3>9. taken' = Len(Paragraphs')
            BY <1>1, <3>1, <3>2 DEF Split
        <3> QED BY <3>4, <3>7, <3>8, <3>9 DEF Split
    <2>4. CASE ~(group < Len(groups))
        <3>1. LeaveSection
            BY <1>3, <2>4 DEF MakeChunks
        <3> QED BY <1>1, <2>2, <3>1, LeaveSectionKeeps
    <2> QED BY <2>3, <2>4
<1> QED BY <1>2, <1>3

LEMMA ReadingDone ==
    ASSUME SectionsSolid, phase # "reading", phase' # "reading", UNCHANGED sections
    PROVE  SectionsSolid' /\ ReadSoFar'
<1> QED BY DEF SectionsSolid, ReadSoFar, Solid, Blank
-----------------------------------------------------------------------------
(* What is not in a chunk yet. *)

\* The sections with a paragraph or more.
Full == {s \in Section : s.paragraphs # <<>>}

LEMMA FilledAmong ==
    ASSUME NEW ss \in Seq(Section)
    PROVE  Filled(ss) = Among(ss, Full)
<1>1. DOMAIN ss = 1..Len(ss) /\ \A i \in 1..Len(ss) : ss[i] \in Section
    BY LenProperties, ElementOfSeq
<1>2. {i \in DOMAIN ss : ss[i].paragraphs # <<>>} = {i \in DOMAIN ss : ss[i] \in Full}
    BY <1>1 DEF Full
<1> QED BY <1>2 DEF Filled, Among

LEMMA FilledFacts ==
    /\ \A s, t \in Seq(Section) : Filled(s \o t) = Filled(s) \o Filled(t)
    /\ \A x \in Section : Filled(<<x>>) = IF x.paragraphs = <<>> THEN <<>> ELSE <<x>>
    /\ \A s \in Seq(Section) : Filled(s) \in Seq(Section)
    /\ Filled(<<>>) = <<>>
<1>1. \A s, t \in Seq(Section) : Filled(s \o t) = Filled(s) \o Filled(t)
    <2> SUFFICES ASSUME NEW s \in Seq(Section), NEW t \in Seq(Section) PROVE Filled(s \o t) = Filled(s) \o Filled(t)
        OBVIOUS
    <2>1. Among(s \o t, Full) = Among(s, Full) \o Among(t, Full)
        BY AmongConcat
    <2>2. s \o t \in Seq(Section)
        BY ConcatProperties
    <2> QED BY <2>1, <2>2, FilledAmong
<1>2. \A x \in Section : Filled(<<x>>) = IF x.paragraphs = <<>> THEN <<>> ELSE <<x>>
    <2> SUFFICES ASSUME NEW x \in Section PROVE Filled(<<x>>) = IF x.paragraphs = <<>> THEN <<>> ELSE <<x>>
        OBVIOUS
    <2>1. Among(<<x>>, Full) = IF x \in Full THEN <<x>> ELSE <<>>
        BY AmongOne
    <2>2. <<x>> \in Seq(Section)
        OBVIOUS
    <2>3. x \in Full <=> x.paragraphs # <<>>
        BY DEF Full
    <2> QED BY <2>1, <2>2, <2>3, FilledAmong
<1>3. \A s \in Seq(Section) : Filled(s) \in Seq(Section)
    BY FilledAmong, AmongType
<1>4. Filled(<<>>) = <<>>
    <2>1. <<>> \in Seq(Section) /\ \A i \in 1..Len(<<>>) : <<>>[i] \notin Full
        BY EmptySeq
    <2>2. Among(<<>>, Full) = <<>>
        BY <2>1, AmongNone
    <2> QED BY <2>1, <2>2, FilledAmong
<1> QED BY <1>1, <1>2, <1>3, <1>4

\* From section n on, and of the present one without its first d paragraphs.
Ahead(n) == Filled(SubSeq(sections, n, Len(sections)))

From(d) == [heading |-> Heading, paragraphs |-> SubSeq(Paragraphs, d + 1, Len(Paragraphs))]

Here(d) == IF From(d).paragraphs = <<>> THEN <<>> ELSE <<From(d)>>

LEMMA SectionsFrom ==
    ASSUME Shape, NEW n \in 1..Len(sections)
    PROVE  /\ SubSeq(sections, n, Len(sections)) = <<sections[n]>> \o SubSeq(sections, n + 1, Len(sections))
           /\ SubSeq(sections, n + 1, Len(sections)) \in Seq(Section) /\ sections[n] \in Section
<1>1. sections \in Seq(Section) /\ Len(sections) \in Nat /\ n + 1 \in 1..(Len(sections) + 1) /\ Len(sections) \in n..Len(sections)
    <2>1. sections \in Seq(Section)
        BY GroupedShape
    <2>2. Len(sections) \in Nat
        BY <2>1, LenProperties
    <2> QED BY <2>1, <2>2
<1> DEFINE d == n + 1
           L == Len(sections)
<1>2. d \in 1..(L + 1) /\ L \in (d - 1)..L
    BY <1>1
<1> HIDE DEF d, L
<1>3. SubSeq(sections, d, L) \in Seq(Section)
    BY <1>1, <1>2, PartOf DEF L
<1>4. SubSeq(sections, n, L) = <<sections[n]>> \o SubSeq(sections, n + 1, L)
    BY <1>1, SubSeqRecursiveFirst DEF L
<1>5. sections[n] \in Section
    BY <1>1, ElementOfSeq
<1> QED BY <1>3, <1>4, <1>5 DEF d, L

LEMMA AheadFrom ==
    ASSUME Shape, NEW n \in 1..Len(sections)
    PROVE  Ahead(n) = (IF sections[n].paragraphs = <<>> THEN <<>> ELSE <<sections[n]>>) \o Ahead(n + 1)
<1> DEFINE x == sections[n]
           t == SubSeq(sections, n + 1, Len(sections))
<1>1. SubSeq(sections, n, Len(sections)) = <<x>> \o t /\ t \in Seq(Section) /\ x \in Section
    BY SectionsFrom
<1>2. Ahead(n) = Filled(<<x>> \o t) /\ Ahead(n + 1) = Filled(t)
    BY <1>1 DEF Ahead
<1> HIDE DEF x, t
<1>3. <<x>> \in Seq(Section)
    BY <1>1
<1>4. Filled(<<x>> \o t) = Filled(<<x>>) \o Filled(t)
    BY <1>1, <1>3, FilledFacts
<1>5. Filled(<<x>>) = IF x.paragraphs = <<>> THEN <<>> ELSE <<x>>
    BY <1>1, FilledFacts
<1> QED BY <1>2, <1>4, <1>5 DEF x

LEMMA FromType ==
    ASSUME Shape, NEW d \in 0..Len(Paragraphs)
    PROVE  From(d) \in Section /\ From(d).paragraphs \in Seq(Text) /\ Len(From(d).paragraphs) = Len(Paragraphs) - d
<1> DEFINE ps == Paragraphs
           c == d + 1
           L == Len(ps)
           q == SubSeq(ps, c, L)
<1>1. ps \in Seq(Text) /\ L \in Nat /\ Heading \in Text
    BY GroupedShape
<1>2. c \in 1..(L + 1) /\ L \in (c - 1)..L /\ L - c + 1 = L - d
    BY <1>1
<1> HIDE DEF ps, c
<1>3. q \in Seq(Text) /\ Len(q) = L - c + 1
    BY <1>1, <1>2, PartOf
<1>4. From(d) = [heading |-> Heading, paragraphs |-> q]
    BY DEF From, ps, c
<1> HIDE DEF q
<1>5. From(d).paragraphs = q /\ From(d) \in Section
    BY <1>1, <1>3, <1>4 DEF Section
<1> QED BY <1>2, <1>3, <1>5 DEF ps

\* What remains is the rest of this section and the sections after it.
LEMMA RemainingIs ==
    ASSUME Shape, Delivered \in 0..Len(Paragraphs)
    PROVE  Remaining = Here(Delivered) \o Ahead(section + 1)
<1> DEFINE all == SubSeq(sections, section, Len(sections))
           now == [all EXCEPT ![1].paragraphs = SubSeq(@, Delivered + 1, Len(@))]
           x == sections[section]
           t == SubSeq(sections, section + 1, Len(sections))
           y == From(Delivered)
<1>1. all = <<x>> \o t /\ t \in Seq(Section) /\ x \in Section
    BY GroupedShape, SectionsFrom
<1>2. Remaining = Filled(now)
    BY DEF Remaining, Filled
<1>3. y \in Section /\ y = [heading |-> x.heading, paragraphs |-> SubSeq(x.paragraphs, Delivered + 1, Len(x.paragraphs))]
    BY FromType DEF From, Heading, Paragraphs
<1>4. y = [x EXCEPT !.paragraphs = SubSeq(@, Delivered + 1, Len(@))]
    <2> HIDE DEF x, y
    <2> QED BY <1>1, <1>3, WithParagraphs
<1>5. now = <<y>> \o t
    <2> DEFINE xs == <<x>> \o t
               ys == <<y>> \o t
               zs == [xs EXCEPT ![1].paragraphs = SubSeq(@, Delivered + 1, Len(@))]
    <2>0. now = zs
        BY <1>1
    <2> HIDE DEF all, now, x, y, t
    <2>1. Len(t) \in Nat
        BY <1>1, LenProperties
    <2>2. /\ xs \in Seq(Section) /\ DOMAIN xs = 1..(1 + Len(t)) /\ xs[1] = x
          /\ \A i \in 1..Len(t) : xs[1 + i] = t[i]
        BY <1>1, ConsProperties
    <2>3. /\ ys \in Seq(Section) /\ DOMAIN ys = 1..(1 + Len(t)) /\ ys[1] = y
          /\ \A i \in 1..Len(t) : ys[1 + i] = t[i]
        BY <1>1, <1>3, ConsProperties
    <2> HIDE DEF xs, ys
    <2>9. DOMAIN zs = DOMAIN xs /\ zs[1] = y /\ \A i \in DOMAIN xs : i # 1 => zs[i] = xs[i]
        <3>1. 1 \in DOMAIN xs
            BY <2>1, <2>2
        <3>2. [x EXCEPT !.paragraphs = SubSeq(@, Delivered + 1, Len(@))] = y
            BY <1>4
        <3>3. xs[1] = x
            BY <2>2
        <3> HIDE <2>2
        <3>4. zs[1] = [xs[1] EXCEPT !.paragraphs = SubSeq(@, Delivered + 1, Len(@))]
            BY <3>1
        <3> QED BY <3>2, <3>3, <3>4
    <2>10. \A i \in DOMAIN xs : zs[i] = ys[i]
        <3> SUFFICES ASSUME NEW i \in 1..(1 + Len(t)), i # 1 PROVE zs[i] = ys[i]
            BY <2>2, <2>3, <2>9
        <3>1. i - 1 \in 1..Len(t) /\ 1 + (i - 1) = i
            BY <2>1
        <3>2. xs[1 + (i - 1)] = ys[1 + (i - 1)]
            BY <3>1, <2>2, <2>3
        <3> QED BY <3>1, <3>2, <2>2, <2>9
    <2>11. zs = ys
        <3>1. zs = [i \in DOMAIN xs |-> zs[i]]
            BY <2>9
        <3>2. ys = [i \in DOMAIN xs |-> ys[i]]
            BY <2>2, <2>3
        <3> QED BY <3>1, <3>2, <2>10
    <2> QED BY <2>0, <2>11 DEF ys
<1> HIDE DEF now, x, y, t
<1>6. Filled(<<y>> \o t) = Filled(<<y>>) \o Filled(t)
    <2>1. <<y>> \in Seq(Section)
        BY <1>3
    <2> QED BY <1>1, <2>1, FilledFacts
<1>7. Filled(<<y>>) = IF y.paragraphs = <<>> THEN <<>> ELSE <<y>>
    BY <1>3, FilledFacts
<1>8. Ahead(section + 1) = Filled(t)
    BY DEF Ahead, t
<1>9. Here(Delivered) = IF y.paragraphs = <<>> THEN <<>> ELSE <<y>>
    BY DEF Here, y
<1> QED BY <1>2, <1>5, <1>6, <1>7, <1>8, <1>9
-----------------------------------------------------------------------------
(* The variables of the promise. *)

\* What Promise takes for left and outcome.
LeftNow == IF phase = "reading" \/ outcome \in {"empty", "chunked"} THEN <<>> ELSE Remaining

OutcomeNow == IF phase = "reading" THEN "unread" ELSE outcome

PromiseStutters == UNCHANGED <<doc, LeftNow, chunks, OutcomeNow>>

LEMMA StutterIs == PromiseStutters => UNCHANGED Promise!vars
<1> QED BY DEF PromiseStutters, Promise!vars, LeftNow, OutcomeNow

LEMMA DeliveredBounds ==
    ASSUME Shape, Grouped, SectionsSolid, phase \in {"grouping", "splitting"}
    PROVE  Delivered \in 0..Len(Paragraphs)
<1>1. CASE phase = "grouping"
    <2>1. Len(Paragraphs) \in Nat
        BY GroupedShape
    <2> QED BY <1>1, <2>1 DEF Delivered
<1>2. CASE phase = "splitting"
    <2> DEFINE g == groups[group]
    <2>1. g \in Group /\ g.first <= g.last /\ g.last <= Len(Paragraphs)
        BY <1>2, SplitGroup DEF Whereof
    <2>2. Delivered = g.first - 1
        BY <1>2 DEF Delivered
    <2> HIDE DEF g
    <2>3. g.first \in Nat \ {0} /\ g.last \in Nat /\ Len(Paragraphs) \in Nat
        BY <2>1, GroupedShape DEF Group
    <2> DEFINE a == g.first
               b == g.last
    <2> HIDE DEF a, b
    <2>4. a - 1 \in 0..Len(Paragraphs)
        BY <2>1, <2>3 DEF a, b
    <2> QED BY <2>2, <2>4 DEF a
<1> QED BY <1>1, <1>2

At(d) == LeftNow = Here(d) \o Ahead(section + 1)

LEMMA LeftIs ==
    Shape /\ SectionsSolid /\ Running /\ Grouped /\ phase \in {"grouping", "splitting"} =>
        OutcomeNow = "none" /\ LeftNow = Remaining /\ LeftNow = Here(Delivered) \o Ahead(section + 1)
<1> SUFFICES ASSUME Shape, SectionsSolid, Running, Grouped, phase \in {"grouping", "splitting"}
             PROVE  OutcomeNow = "none" /\ LeftNow = Remaining /\ LeftNow = Here(Delivered) \o Ahead(section + 1)
    OBVIOUS
<1>1. Delivered \in 0..Len(Paragraphs)
    BY DeliveredBounds
<1>2. Remaining = Here(Delivered) \o Ahead(section + 1)
    BY <1>1, RemainingIs
<1>3. outcome = "none" /\ phase # "reading"
    BY DEF Running
<1>4. OutcomeNow = "none" /\ LeftNow = Remaining
    BY <1>3 DEF OutcomeNow, LeftNow
<1> QED BY <1>2, <1>4

LEMMA HereWhole ==
    ASSUME Shape
    PROVE  Here(0) \o Ahead(section + 1) = Ahead(section)
<1>1. section \in 1..Len(sections) /\ sections[section] \in Section
    BY GroupedShape
<1> DEFINE x == sections[section]
<1>2. Ahead(section) = (IF x.paragraphs = <<>> THEN <<>> ELSE <<x>>) \o Ahead(section + 1)
    BY <1>1, AheadFrom
<1>3. From(0) = x
    <2>1. SubSeq(Paragraphs, 1, Len(Paragraphs)) = Paragraphs
        BY GroupedShape, SubSeqFull
    <2>2. From(0) = [heading |-> Heading, paragraphs |-> Paragraphs]
        BY <2>1 DEF From
    <2>3. From(0) = [heading |-> x.heading, paragraphs |-> x.paragraphs]
        BY <2>2 DEF Heading, Paragraphs
    <2> HIDE DEF x
    <2>4. x \in Section
        BY <1>1 DEF x
    <2>5. x = [heading |-> x.heading, paragraphs |-> x.paragraphs]
        BY <2>4 DEF Section
    <2> QED BY <2>3, <2>5
<1>4. Here(0) = IF x.paragraphs = <<>> THEN <<>> ELSE <<x>>
    BY <1>3 DEF Here
<1> QED BY <1>2, <1>4

LEMMA AheadNothing ==
    ASSUME Shape, section = Len(sections)
    PROVE  Ahead(section + 1) = <<>>
<1>1. sections \in Seq(Section) /\ Len(sections) \in Nat
    BY GroupedShape, LenProperties
<1>2. SubSeq(sections, Len(sections) + 1, Len(sections)) = <<>>
    <2> DEFINE n == Len(sections)
    <2>1. n \in Int /\ n + 1 \in Int /\ n < n + 1
        BY <1>1
    <2> QED BY <2>1, SubSeqEmpty
<1> QED BY <1>2, FilledFacts DEF Ahead
-----------------------------------------------------------------------------
(* Reading. *)

\* No step before the end of reading shows.
LEMMA ReadingStutters ==
    ASSUME phase = "reading", phase' = "reading", UNCHANGED <<doc, chunks>>
    PROVE  PromiseStutters
<1> QED BY DEF PromiseStutters, LeftNow, OutcomeNow

\* Open, as Chunking takes it.
Opens ==
    /\ OutcomeNow = "unread" /\ LeftNow' = Promise!Content(doc)
    /\ OutcomeNow' = IF LeftNow' = <<>> THEN "empty" ELSE "none"
    /\ UNCHANGED <<doc, chunks>>

LEMMA OpensIs == Opens => Promise!Open
<1> QED BY DEF Opens, Promise!Open, LeftNow, OutcomeNow

LEMMA LeftIsNext ==
    (Shape /\ SectionsSolid /\ Running /\ Grouped /\ phase \in {"grouping", "splitting"})' =>
        (OutcomeNow = "none" /\ LeftNow = Remaining /\ LeftNow = Here(Delivered) \o Ahead(section + 1))'
<1> QED BY LeftIs, PTL

WholeHere == Here(0) \o Ahead(section + 1) = Ahead(section)

LEMMA HereWholeHolds == Shape => WholeHere
<1> QED BY HereWhole DEF WholeHere

LEMMA HereWholeNext == Shape' => WholeHere'
<1> QED BY HereWholeHolds, PTL

LEMMA StrippedEmpty ==
    ASSUME NEW s \in Section
    PROVE  Stripped(s).paragraphs = <<>> <=> s.paragraphs = <<>>
<1> DEFINE q == [i \in DOMAIN s.paragraphs |-> Strip(s.paragraphs[i])]
<1>1. Stripped(s).paragraphs = q
    BY DEF Stripped, Section
<1>2. s.paragraphs \in Seq(Text) /\ q = StripAll(s.paragraphs)
    BY DEF Section, StripAll
<1> DEFINE ps == s.paragraphs
           r == StripAll(ps)
<1>3. ps \in Seq(Text) /\ r \in Seq(Text) /\ Len(r) = Len(ps)
    BY <1>2, StripAllProperties
<1> HIDE DEF ps, r
<1>4. r = <<>> <=> ps = <<>>
    BY <1>3, EmptySeq
<1> QED BY <1>1, <1>2, <1>4 DEF ps, r

\* EndReading opens the document with the content that Contents says it has.
LEMMA EndReadingOpens ==
    ASSUME Shape, Shape', SectionsSolid, ReadSoFar, Running, EndReading
    PROVE  Opens
<1> DEFINE ss == [i \in DOMAIN sections |-> Stripped(sections[i])]
<1>1. SectionsSolid' /\ Running' /\ Grouped' /\ sections' = ss
    BY EndReadingKeeps
<1>2. phase = "reading" /\ read = Len(doc.lines) /\ UNCHANGED <<doc, section>>
    BY DEF EndReading, grouper
<1>3. Promise!Content(doc) = Filled(ss)
    BY <1>2, ContentRead
<1>4. sections \in Seq(Section) /\ section = 1 /\ chunks = <<>> /\ outcome = "none"
    BY <1>2, GroupedShape DEF Shape, InStep, Running
<1>5. sections' \in Seq(Section) /\ section' \in 1..Len(sections')
    BY DEF Shape, TypeOK, Section
<1> HIDE DEF ss
<1>6. ss \in Seq(Section) /\ DOMAIN ss = 1..Len(ss) /\ DOMAIN ss = DOMAIN sections
    BY <1>1, <1>5, LenProperties DEF ss
<1>7. \A i \in DOMAIN sections : ss[i].paragraphs = <<>> <=> sections[i].paragraphs = <<>>
    <2> SUFFICES ASSUME NEW i \in DOMAIN sections PROVE ss[i].paragraphs = <<>> <=> sections[i].paragraphs = <<>>
        OBVIOUS
    <2>1. ss[i] = Stripped(sections[i])
        BY DEF ss
    <2>2. sections[i] \in Section
        BY <1>4, LenProperties, ElementOfSeq
    <2> QED BY <2>1, <2>2, StrippedEmpty
<1> DEFINE some == {i \in DOMAIN ss : ss[i].paragraphs # <<>>}
<1>8. Filled(ss) = Sublist(ss, some)
    BY DEF Filled
<1>9. CASE \A i \in DOMAIN sections : sections[i].paragraphs = <<>>
    <2>1. Refuse("empty")
        BY <1>9 DEF EndReading
    <2>2. phase' = "ended" /\ outcome' = "empty" /\ chunks' = <<>>
        BY <2>1 DEF Refuse
    <2>3. \A i \in 1..Len(ss) : i \notin some
        BY <1>6, <1>7, <1>9
    <2> HIDE DEF some
    <2>4. Filled(ss) = <<>>
        BY <1>6, <1>8, <2>3, SublistNone
    <2>5. LeftNow' = <<>> /\ OutcomeNow' = "empty" /\ OutcomeNow = "unread"
        BY <2>2, <1>2 DEF LeftNow, OutcomeNow
    <2> QED BY <2>2, <2>4, <2>5, <1>2, <1>3, <1>4 DEF Opens
<1>10. CASE ~\A i \in DOMAIN sections : sections[i].paragraphs = <<>>
    <2>1. phase' = "grouping" /\ UNCHANGED <<chunks, outcome>>
        BY <1>10 DEF EndReading
    <2>2. Delivered' = 0
        BY <2>1 DEF Delivered
    <2>3. OutcomeNow' = "none" /\ LeftNow' = (Here(Delivered) \o Ahead(section + 1))'
        BY <2>1, <1>1, LeftIsNext
    <2>4. (Here(Delivered) \o Ahead(section + 1))' = (Here(0) \o Ahead(section + 1))'
        BY <2>2 DEF Here, From
    <2>5. LeftNow' = Ahead(section)'
        BY <2>3, <2>4, HereWholeNext DEF WholeHere
    <2>6. Ahead(section)' = Filled(SubSeq(sections', 1, Len(sections')))
        BY <1>2, <1>4 DEF Ahead, Filled
    <2>7. Ahead(section)' = Filled(ss)
        <3>1. SubSeq(sections', 1, Len(sections')) = sections'
            BY <1>5, SubSeqFull
        <3> QED BY <2>6, <3>1, <1>1
    <2>8. Filled(ss) # <<>>
        <3>1. PICK i \in DOMAIN sections : sections[i].paragraphs # <<>>
            BY <1>10
        <3>2. i \in 1..Len(ss) /\ i \in some
            BY <3>1, <1>6, <1>7
        <3> HIDE DEF some
        <3>3. Sublist(ss, some) # <<>>
            BY <3>2, <1>6, SublistSome
        <3> QED BY <3>3, <1>8
    <2>9. OutcomeNow = "unread"
        BY <1>2 DEF OutcomeNow
    <2> QED BY <2>1, <2>3, <2>5, <2>7, <2>8, <2>9, <1>2, <1>3 DEF Opens
<1> QED BY <1>9, <1>10
-----------------------------------------------------------------------------
(* Steps that do not show, and the end of a section. *)

\* A step within a group does not show.
LEMMA QuietStutters ==
    ASSUME Running, phase \in {"grouping", "splitting"}, phase' \in {"grouping", "splitting"},
           UNCHANGED <<doc, sections, section, chunks, outcome>>, Delivered' = Delivered
    PROVE  PromiseStutters
<1>1. Remaining' = Remaining
    BY DEF Remaining
<1> QED BY <1>1 DEF PromiseStutters, LeftNow, OutcomeNow, Running

LEMMA TakeParagraphStutters ==
    ASSUME Running, TakeParagraph
    PROVE  PromiseStutters
<1>1. phase = "grouping" /\ phase' = "grouping" /\ UNCHANGED <<doc, sections, section, chunks, outcome>>
    BY DEF TakeParagraph, reader
<1>2. Delivered' = Delivered
    BY <1>1 DEF Delivered
<1> QED BY <1>1, <1>2, QuietStutters

LEMMA EndGroupingStutters ==
    ASSUME Running, Grouped, EndGrouping
    PROVE  PromiseStutters
<1>1. /\ phase = "grouping" /\ phase' = "splitting" /\ UNCHANGED <<doc, sections, section, chunks, outcome>>
      /\ groups' = groups /\ group' = 1 /\ groups # <<>>
    BY DEF EndGrouping, StartGroup, reader
<1>2. groups[1].first = 1
    BY <1>1 DEF Grouped, GroupsInOrder
<1>3. Delivered = 0 /\ Delivered' = 1 - 1
    BY <1>1, <1>2 DEF Delivered
<1>4. Delivered' = Delivered
    BY <1>3
<1> QED BY <1>1, <1>4, QuietStutters

LEMMA SplittingStutters ==
    ASSUME Running, TakeSentence \/ CutPiece
    PROVE  PromiseStutters
<1>1. phase = "splitting" /\ phase' = "splitting" /\ UNCHANGED <<doc, sections, section, chunks, outcome, groups, group>>
    BY DEF TakeSentence, CutPiece, reader, grouper
<1>2. Delivered' = Delivered
    BY <1>1 DEF Delivered
<1> QED BY <1>1, <1>2, QuietStutters
-----------------------------------------------------------------------------
(* The sections after this one. *)

\* LeaveSection leaves the sections after this one, or ends with nothing left.
LEMMA NextSection ==
    ASSUME Shape, Shape', SectionsSolid', Running', Grouped', LeaveSection, UNCHANGED sections, outcome = "none",
           phase \in {"grouping", "splitting"}
    PROVE  /\ LeftNow' = Ahead(section + 1)
           /\ \/ section < Len(sections) /\ OutcomeNow' = "none"
              \/ section = Len(sections) /\ OutcomeNow' = "chunked" /\ LeftNow' = <<>>
<1>1. section \in 1..Len(sections) /\ Len(sections) \in Nat
    BY GroupedShape, LenProperties
<1>2. CASE section < Len(sections)
    <2>1. section' = section + 1 /\ phase' = "grouping"
        BY <1>2 DEF LeaveSection
    <2>2. Delivered' = 0
        BY <2>1 DEF Delivered
    <2>3. OutcomeNow' = "none" /\ LeftNow' = (Here(Delivered) \o Ahead(section + 1))'
        BY <2>1, LeftIsNext
    <2>4. (Here(Delivered) \o Ahead(section + 1))' = (Here(0) \o Ahead(section + 1))'
        BY <2>2 DEF Here, From
    <2>5. LeftNow' = Ahead(section)'
        BY <2>3, <2>4, HereWholeNext DEF WholeHere
    <2>6. Ahead(section)' = Ahead(section + 1)
        BY <2>1 DEF Ahead, Filled
    <2> QED BY <1>2, <2>3, <2>5, <2>6
<1>3. CASE ~(section < Len(sections))
    <2>1. section = Len(sections)
        BY <1>1, <1>3
    <2>2. phase' = "ended" /\ outcome' = "chunked"
        BY <1>3 DEF LeaveSection
    <2>3. LeftNow' = <<>> /\ OutcomeNow' = "chunked"
        BY <2>2 DEF LeftNow, OutcomeNow
    <2> QED BY <2>1, <2>3, AheadNothing
<1> QED BY <1>2, <1>3

Finishes ==
    /\ OutcomeNow = "none" /\ LeftNow = <<>> /\ chunks # <<>>
    /\ OutcomeNow' = "chunked"
    /\ UNCHANGED <<doc, LeftNow, chunks>>

LEMMA FinishesIs == Finishes => Promise!Finish
<1> QED BY DEF Finishes, Promise!Finish, LeftNow, OutcomeNow

\* A section with nothing under its heading was never left to deliver, and the
\* last one ends the document.
LEMMA SkipSectionRefines ==
    ASSUME Shape, Shape', SectionsSolid, SectionsSolid', Running, Running', Grouped, Grouped', SkipSection
    PROVE  PromiseStutters \/ Finishes
<1>1. phase = "grouping" /\ Paragraphs = <<>> /\ LeaveSection /\ UNCHANGED <<doc, sections, chunks>> /\ outcome = "none"
    BY DEF SkipSection, reader, Running
<1>2. OutcomeNow = "none" /\ LeftNow = Here(Delivered) \o Ahead(section + 1)
    BY <1>1, LeftIs
<1>3. LeftNow = Ahead(section + 1)
    <2>1. Delivered = 0
        BY <1>1 DEF Delivered
    <2>2. Here(0) \o Ahead(section + 1) = Ahead(section)
        BY HereWhole
    <2>3. section \in 1..Len(sections)
        BY GroupedShape
    <2>4. Ahead(section) = (IF Paragraphs = <<>> THEN <<>> ELSE <<sections[section]>>) \o Ahead(section + 1)
        BY <2>3, AheadFrom DEF Paragraphs
    <2>5. Ahead(section + 1) \in Seq(Section)
        <3>1. SubSeq(sections, section + 1, Len(sections)) \in Seq(Section)
            BY <2>3, SectionsFrom
        <3> QED BY <3>1, FilledFacts DEF Ahead
    <2>6. <<>> \o Ahead(section + 1) = Ahead(section + 1)
        BY <2>5, ConcatEmptySeq
    <2> QED BY <1>1, <1>2, <2>1, <2>2, <2>4, <2>6
<1>4. /\ LeftNow' = Ahead(section + 1)
      /\ \/ section < Len(sections) /\ OutcomeNow' = "none"
         \/ section = Len(sections) /\ OutcomeNow' = "chunked" /\ LeftNow' = <<>>
    BY <1>1, NextSection
<1>5. CASE section < Len(sections) /\ OutcomeNow' = "none"
    BY <1>1, <1>2, <1>3, <1>4, <1>5 DEF PromiseStutters
<1>6. CASE section = Len(sections) /\ OutcomeNow' = "chunked" /\ LeftNow' = <<>>
    <2>1. chunks # <<>>
        <3>1. PICK k \in DOMAIN sections : sections[k].paragraphs # <<>>
            BY <1>1 DEF Grouped
        <3>2. DOMAIN sections = 1..Len(sections) /\ Len(sections) \in Nat
            BY GroupedShape, LenProperties
        <3>3. k # section
            BY <3>1, <1>1 DEF Paragraphs
        <3>4. k \in 1..(section - 1)
            BY <3>1, <3>2, <3>3, <1>6
        <3> QED BY <3>1, <3>4, <1>1 DEF Grouped
    <2> QED BY <2>1, <1>1, <1>2, <1>3, <1>4, <1>6 DEF Finishes
<1> QED BY <1>4, <1>5, <1>6
-----------------------------------------------------------------------------
(* A refusal. *)

LEMMA ConsTail ==
    ASSUME NEW T, NEW x \in T, NEW t \in Seq(T)
    PROVE  <<x>> \o t \in Seq(T) /\ <<x>> \o t # <<>> /\ (<<x>> \o t)[1] = x /\ Tail(<<x>> \o t) = t
<1> DEFINE s == <<x>> \o t
<1>1. s \in Seq(T) /\ DOMAIN s = 1..(1 + Len(t)) /\ s[1] = x /\ \A i \in 1..Len(t) : s[1 + i] = t[i]
    BY ConsProperties
<1>2. Len(t) \in Nat /\ Len(s) \in Nat /\ DOMAIN s = 1..Len(s)
    BY <1>1, LenProperties
<1> HIDE DEF s
<1>3. s # <<>> /\ Len(s) = 1 + Len(t)
    <2>1. 1 \in DOMAIN s
        BY <1>1, <1>2
    <2>2. Len(s) = 1 + Len(t)
        <3> DEFINE a == Len(s)
                   b == 1 + Len(t)
        <3>1. a \in Nat /\ b \in Nat /\ b # 0 /\ 1..a = 1..b
            BY <1>1, <1>2
        <3> HIDE DEF a, b
        <3>2. a \in 1..a \/ a = 0
            BY <3>1
        <3>3. b \in 1..a
            BY <3>1
        <3>4. a = b
            BY <3>1, <3>2, <3>3
        <3> QED BY <3>4 DEF a, b
    <2> QED BY <2>1, <2>2, <1>2
<1>4. Tail(s) \in Seq(T) /\ Len(Tail(s)) = Len(s) - 1 /\ \A i \in 1..Len(Tail(s)) : Tail(s)[i] = s[i + 1]
    BY <1>1, <1>3, HeadTailProperties
<1>5. Len(Tail(s)) = Len(t)
    BY <1>2, <1>3, <1>4
<1>6. \A i \in 1..Len(Tail(s)) : Tail(s)[i] = t[i]
    <2>1. \A i \in 1..Len(t) : i + 1 = 1 + i
        BY <1>2
    <2> QED BY <2>1, <1>1, <1>4, <1>5
<1>7. Tail(s) = t
    BY <1>4, <1>5, <1>6, SeqEqual
<1> QED BY <1>1, <1>3, <1>7 DEF s

LEMMA SplitLeft ==
    ASSUME Shape, SectionsSolid, Running, Grouped, phase = "splitting",
           NEW g, g = groups[group]
    PROVE  /\ OutcomeNow = "none" /\ LeftNow = Remaining
           /\ g.first \in 1..g.last /\ g.last \in g.first..Len(Paragraphs)
           /\ LeftNow # <<>> /\ LeftNow[1] = From(g.first - 1) /\ Tail(LeftNow) = Ahead(section + 1)
           /\ LeftNow[1].heading = Heading
           /\ LeftNow[1].paragraphs = SubSeq(Paragraphs, g.first, Len(Paragraphs))
<1>1. OutcomeNow = "none" /\ LeftNow = Remaining /\ LeftNow = Here(Delivered) \o Ahead(section + 1)
    BY LeftIs
<1>2. g \in Group /\ Whereof(g)
    BY SplitGroup
<1>3. /\ g.first \in Nat \ {0} /\ g.last \in Nat \ {0} /\ Len(Paragraphs) \in Nat
      /\ g.first <= g.last /\ g.last <= Len(Paragraphs)
    BY <1>2, GroupedShape DEF Group, Whereof
<1> DEFINE a == g.first
           b == g.last
           L == Len(Paragraphs)
           d == a - 1
<1>4. Delivered = d
    BY DEF Delivered
<1>5. a \in 1..b /\ b \in a..L
    <2> HIDE DEF a, b, L
    <2> QED BY <1>3 DEF a, b, L
<1>6. d \in 0..L /\ L - d # 0 /\ d + 1 = a
    <2>1. a \in Nat \ {0} /\ b \in Nat /\ L \in Nat /\ a <= b /\ b <= L
        BY <1>3
    <2> HIDE DEF a, b, L
    <2> QED BY <2>1
<1> HIDE DEF d
<1>7. From(d) \in Section /\ From(d).paragraphs \in Seq(Text) /\ Len(From(d).paragraphs) = L - d
    BY <1>6, FromType
<1>8. Here(d) = <<From(d)>>
    <2>1. From(d).paragraphs # <<>>
        BY <1>6, <1>7, EmptySeq
    <2> QED BY <2>1 DEF Here
<1>9. Ahead(section + 1) \in Seq(Section)
    <2>1. section \in 1..Len(sections)
        BY GroupedShape
    <2>2. SubSeq(sections, section + 1, Len(sections)) \in Seq(Section)
        BY <2>1, SectionsFrom
    <2> QED BY <2>2, FilledFacts DEF Ahead
<1> DEFINE x == From(d)
           t == Ahead(section + 1)
<1>10. x \in Section /\ t \in Seq(Section) /\ LeftNow = <<x>> \o t
    BY <1>1, <1>4, <1>7, <1>8, <1>9
<1>11. x.heading = Heading /\ x.paragraphs = SubSeq(Paragraphs, a, L)
    BY <1>6 DEF From
<1> HIDE DEF x, t
<1>12. <<x>> \o t # <<>> /\ (<<x>> \o t)[1] = x /\ Tail(<<x>> \o t) = t
    BY <1>10, ConsTail
<1> QED BY <1>1, <1>5, <1>10, <1>11, <1>12 DEF x, t, d

LEMMA VoidIs ==
    ASSUME NEW text \in Text, HasVoid(text)
    PROVE  Promise!Void(text)
<1>1. PICK i \in DOMAIN text : /\ i + MaxSafe - 1 <= Len(text)
                               /\ \A j \in i..(i + MaxSafe - 1) : text[j] = White
    BY DEF HasVoid
<1> DEFINE e == i + MaxSafe - 1
           part == SubSeq(text, i, e)
<1>2. Len(text) \in Nat /\ DOMAIN text = 1..Len(text) /\ MaxSafe \in Nat \ {0}
    BY TextFacts, SizesAssumption
<1>3. i \in 1..(Len(text) + 1) /\ e \in (i - 1)..Len(text) /\ \A k \in 1..(e - i + 1) : i + k - 1 \in i..e
    BY <1>1, <1>2
<1>4. \A j \in i..e : text[j] = White
    BY <1>1
<1> HIDE DEF e
<1>5. DOMAIN part = 1..(e - i + 1) /\ \A k \in 1..(e - i + 1) : part[k] = text[i + k - 1]
    BY <1>3, TextPart
<1>6. Promise!Blank(part)
    BY <1>3, <1>4, <1>5 DEF Promise!Blank
<1> QED BY <1>1, <1>6 DEF Promise!Void, e

Refuses ==
    /\ OutcomeNow = "none" /\ LeftNow # <<>>
    /\ \E text \in {LeftNow[1].heading} \cup Promise!ToSet(LeftNow[1].paragraphs) : Promise!Void(text)
    /\ OutcomeNow' = "blank"
    /\ chunks' = <<>>
    /\ UNCHANGED <<doc, LeftNow>>

LEMMA RefusesIs == Refuses => Promise!Refuse
<1> QED BY DEF Refuses, Promise!Refuse, LeftNow, OutcomeNow

\* A blank chunk comes from white space as long as a chunk, in the heading or in
\* a paragraph of the section: the refusal has a reason.
LEMMA MakeChunksRefuses ==
    ASSUME Shape, SectionsSolid, Running, Grouped, Split, MakeChunks, \E k \in DOMAIN final : Blank(final[k])
    PROVE  Refuses
<1>1. /\ phase = "splitting" /\ phase' = "ended" /\ outcome' = "blank" /\ chunks' = <<>>
      /\ UNCHANGED <<doc, sections, section, groups, group>>
    BY DEF MakeChunks, Refuse, reader, grouper
<1> DEFINE g == groups[group]
           ps == LeftNow[1].paragraphs
<1>2. /\ OutcomeNow = "none" /\ LeftNow = Remaining
      /\ g.first \in 1..g.last /\ g.last \in g.first..Len(Paragraphs)
      /\ LeftNow # <<>> /\ LeftNow[1].heading = Heading
      /\ ps = SubSeq(Paragraphs, g.first, Len(Paragraphs))
    BY <1>1, SplitLeft
<1>3. /\ g \in Group /\ Whereof(g) /\ Whole(g) \in Text /\ Heading \in Text /\ g.text \in Text
      /\ Paragraphs \in Seq(Text) /\ Len(Paragraphs) \in Nat
    BY <1>1, SplitGroup, GroupedShape DEF Group
<1>4. HasVoid(Whole(g))
    <2>1. PICK k \in DOMAIN final : Blank(final[k])
        OBVIOUS
    <2>2. Len(final[k]) = MaxSafe /\ Within(final[k], Whole(g))
        BY <2>1, <1>1 DEF Split, Cut
    <2>3. final[k] \in Text
        <3>1. final \in Seq(Text)
            BY DEF Shape, TypeOK
        <3> QED BY <3>1, LenProperties, ElementOfSeq
    <2> DEFINE w == Whole(g)
               part == final[k]
    <2>4. w \in Text /\ part \in Text /\ Blank(part) /\ Len(part) = MaxSafe /\ Within(part, w)
        BY <2>1, <2>2, <2>3, <1>3
    <2> HIDE DEF w, part
    <2>5. HasVoid(w)
        BY <2>4, BlankWithin
    <2> QED BY <2>5 DEF w
<1>5. HasVoid(Heading) \/ \E j \in g.first..g.last : HasVoid(Paragraphs[j])
    <2> HIDE DEF g
    <2>1. HasVoid(Heading) \/ HasVoid(g.text)
        BY <1>3, <1>4, WholeProperties
    <2> QED BY <2>1, <1>3 DEF Whereof
<1>6. \E text \in {LeftNow[1].heading} \cup Promise!ToSet(ps) : Promise!Void(text)
    <2>1. CASE HasVoid(Heading)
        <3>1. Promise!Void(Heading)
            BY <2>1, <1>3, VoidIs
        <3> QED BY <3>1, <1>2
    <2>2. CASE \E j \in g.first..g.last : HasVoid(Paragraphs[j])
        <3>1. PICK j \in g.first..g.last : HasVoid(Paragraphs[j])
            BY <2>2
        <3> DEFINE a == g.first
                   b == g.last
                   L == Len(Paragraphs)
                   qs == Paragraphs
                   q == SubSeq(qs, a, L)
                   i == j - a + 1
        <3>2. a \in 1..b /\ b \in a..L /\ L \in Nat /\ j \in a..b
            BY <1>2, <1>3, <3>1
        <3> HIDE DEF a, b, L
        <3>3. a \in 1..(L + 1) /\ L \in (a - 1)..L /\ i \in 1..(L - a + 1) /\ a + i - 1 = j /\ j \in 1..L
            BY <3>2
        <3> HIDE DEF i
        <3>4. /\ SubSeq(qs, a, L) \in Seq(Text) /\ Len(SubSeq(qs, a, L)) = L - a + 1
              /\ \A m \in 1..(L - a + 1) : SubSeq(qs, a, L)[m] = qs[a + m - 1]
            <4>1. L = Len(qs) /\ qs \in Seq(Text)
                BY <1>3 DEF L
            <4> HIDE DEF qs
            <4> QED BY <4>1, <3>3, PartOf
        <3>5. q[i] = qs[j] /\ q \in Seq(Text) /\ Len(q) = L - a + 1
            BY <3>3, <3>4
        <3> HIDE DEF q
        <3>6. i \in DOMAIN q
            BY <3>3, <3>5, LenProperties
        <3>7. q[i] \in Promise!ToSet(q)
            BY <3>6 DEF Promise!ToSet
        <3>8. qs[j] \in Text /\ HasVoid(qs[j])
            BY <3>1, <3>3, <1>3, ElementOfSeq DEF L
        <3>9. Promise!Void(qs[j])
            BY <3>8, VoidIs
        <3>10. ps = q
            BY <1>2 DEF q, a, L
        <3> QED BY <3>5, <3>7, <3>9, <3>10
    <2> QED BY <2>1, <2>2, <1>5
<1>7. LeftNow' = LeftNow
    <2>1. Delivered' = Delivered
        BY <1>1 DEF Delivered
    <2>2. Remaining' = Remaining
        BY <1>1, <2>1 DEF Remaining
    <2>3. LeftNow' = Remaining'
        BY <1>1 DEF LeftNow
    <2> QED BY <2>2, <2>3, <1>2
<1>8. OutcomeNow' = "blank"
    BY <1>1 DEF OutcomeNow
<1> QED BY <1>1, <1>2, <1>6, <1>7, <1>8 DEF Refuses
-----------------------------------------------------------------------------
(* A delivery. *)

LEMMA PartOfPart ==
    ASSUME NEW T, NEW s \in Seq(T), NEW a \in 1..(Len(s) + 1), NEW c \in (a - 1)..Len(s),
           NEW m \in 1..(c - a + 2), NEW n \in (m - 1)..(c - a + 1)
    PROVE  SubSeq(SubSeq(s, a, c), m, n) = SubSeq(s, a + m - 1, a + n - 1)
<1> DEFINE q == SubSeq(s, a, c)
           u == SubSeq(q, m, n)
           a2 == a + m - 1
           c2 == a + n - 1
           v == SubSeq(s, a2, c2)
           len == c - a + 1
<1>0. Len(s) \in Nat
    BY LenProperties
<1>1. q \in Seq(T) /\ Len(q) = len /\ \A i \in 1..len : q[i] = s[a + i - 1]
    BY PartOf
<1>2. a2 \in 1..(Len(s) + 1) /\ c2 \in (a2 - 1)..Len(s) /\ c2 - a2 + 1 = n - m + 1
    BY <1>0
<1>3. m \in 1..(len + 1) /\ n \in (m - 1)..len
    BY <1>0
<1>4. \A i \in 1..(n - m + 1) : m + i - 1 \in 1..len /\ a + (m + i - 1) - 1 = a2 + i - 1
    BY <1>0
<1> HIDE DEF a2, c2, len, q
<1>5. u \in Seq(T) /\ Len(u) = n - m + 1 /\ \A i \in 1..(n - m + 1) : u[i] = q[m + i - 1]
    BY <1>1, <1>3, PartOf
<1>6. v \in Seq(T) /\ Len(v) = c2 - a2 + 1 /\ \A i \in 1..(c2 - a2 + 1) : v[i] = s[a2 + i - 1]
    BY <1>2, PartOf
<1> HIDE DEF u, v
<1>7. \A i \in 1..Len(u) : u[i] = v[i]
    <2> SUFFICES ASSUME NEW i \in 1..(n - m + 1) PROVE u[i] = v[i]
        BY <1>5
    <2>1. u[i] = q[m + i - 1] /\ v[i] = s[a2 + i - 1]
        BY <1>2, <1>5, <1>6
    <2>2. q[m + i - 1] = s[a + (m + i - 1) - 1]
        BY <1>1, <1>4
    <2> QED BY <2>1, <2>2, <1>4
<1>8. u = v
    BY <1>2, <1>5, <1>6, <1>7, SeqEqual
<1> QED BY <1>8 DEF u, v, q, a2, c2

WithoutNow(n) ==
    LET left == SubSeq(LeftNow[1].paragraphs, n + 1, Len(LeftNow[1].paragraphs))
    IN  IF left = <<>> THEN Tail(LeftNow)
        ELSE <<[heading |-> LeftNow[1].heading, paragraphs |-> left]>> \o Tail(LeftNow)

DeliversGroup ==
    /\ OutcomeNow = "none" /\ LeftNow # <<>>
    /\ \E n \in DOMAIN LeftNow[1].paragraphs :
          /\ LeftNow' = WithoutNow(n)
          /\ Promise!FlattenSeq([k \in DOMAIN Promise!New |-> Promise!InkOf(Promise!New[k].text)]) =
                Promise!InkOf(LeftNow[1].heading) \o
                    Promise!InkOf(Promise!FlattenSeq(SubSeq(LeftNow[1].paragraphs, 1, n)))
    /\ Promise!IsStrictPrefix(chunks, chunks')
    /\ \A k \in DOMAIN Promise!New : Len(Promise!New[k].text) <= MaxSafe /\ ~Promise!Blank(Promise!New[k].text)
    /\ Promise!IsInjective([k \in DOMAIN chunks' |-> chunks'[k].id])
    /\ OutcomeNow' \in {"none"} \cup (IF LeftNow' = <<>> THEN {"chunked"} ELSE {})
    /\ UNCHANGED doc

LEMMA DeliversIs == DeliversGroup => Promise!Deliver
<1> QED BY DEF DeliversGroup, WithoutNow, Promise!Without, Promise!Deliver, LeftNow, OutcomeNow

LEMMA NewIs ==
    ASSUME Shape, Shape', Split, phase = "splitting", rest = <<>>, pieces = <<>>, chunks' = chunks \o NewChunks
    PROVE  /\ DOMAIN Promise!New = DOMAIN final
           /\ \A k \in DOMAIN final : Promise!New[k].text = final[k] /\ final[k] \in Text
           /\ Promise!IsStrictPrefix(chunks, chunks')
<1> DEFINE a == Len(chunks)
           f == Len(final)
           c == chunks'
           new == SubSeq(c, a + 1, a + f)
<1>1. /\ final \in Seq(Text) /\ f \in Nat \ {0} /\ DOMAIN final = 1..f
      /\ a \in Nat /\ Len(c) = a + f
      /\ \A i \in 1..a : c[i] = chunks[i]
      /\ \A k \in 1..f : c[a + k] = NewChunks[k] /\ NewChunks[k].text = final[k]
    BY NewChunksAdded
<1>2. c \in Seq(Chunk) /\ chunks \in Seq(Chunk)
    BY DEF Shape, TypeOK, Chunk
<1>3. Promise!New = new
    BY <1>1 DEF Promise!New
<1> HIDE DEF a, f, c
<1>4. /\ new \in Seq(Chunk) /\ Len(new) = f
      /\ \A i \in 1..f : new[i] = c[a + i]
    <2> DEFINE b == a + 1
               e == a + f
    <2>1. b \in 1..(Len(c) + 1) /\ e \in (b - 1)..Len(c) /\ e - b + 1 = f /\ \A i \in 1..f : b + i - 1 = a + i
        BY <1>1
    <2> HIDE DEF b, e
    <2>2. /\ SubSeq(c, b, e) \in Seq(Chunk) /\ Len(SubSeq(c, b, e)) = e - b + 1
          /\ \A i \in 1..(e - b + 1) : SubSeq(c, b, e)[i] = c[b + i - 1]
        BY <2>1, <1>2, PartOf
    <2> QED BY <2>1, <2>2 DEF b, e
<1> HIDE DEF new
<1>5. DOMAIN new = 1..f
    BY <1>4, LenProperties
<1>6. \A k \in 1..f : new[k].text = final[k] /\ final[k] \in Text
    BY <1>1, <1>4, ElementOfSeq DEF f
<1>7. Promise!IsStrictPrefix(chunks, c)
    <2>1. a <= Len(c) /\ a # Len(c)
        BY <1>1
    <2>2. SubSeq(chunks, 1, a) = SubSeq(c, 1, a)
        <3>1. 1 \in 1..(Len(c) + 1) /\ a \in (1 - 1)..Len(c) /\ a - 1 + 1 = a /\ 1 \in 1..(Len(chunks) + 1) /\ a \in (1 - 1)..Len(chunks)
            BY <1>1 DEF a
        <3>2. /\ SubSeq(c, 1, a) \in Seq(Chunk) /\ Len(SubSeq(c, 1, a)) = a - 1 + 1
              /\ \A i \in 1..(a - 1 + 1) : SubSeq(c, 1, a)[i] = c[1 + i - 1]
            BY <3>1, <1>2, PartOf
        <3>3. SubSeq(chunks, 1, a) = chunks
            BY <1>2, SubSeqFull DEF a
        <3> DEFINE q == SubSeq(c, 1, a)
        <3>4. \A i \in 1..a : 1 + i - 1 = i
            BY <1>1
        <3>5. q \in Seq(Chunk) /\ Len(q) = a /\ \A i \in 1..a : q[i] = c[i]
            BY <3>1, <3>2, <3>4
        <3> HIDE DEF q
        <3>6. Len(chunks) = Len(q) /\ \A i \in 1..Len(chunks) : chunks[i] = q[i]
            BY <3>5, <1>1 DEF a
        <3>7. chunks = q
            BY <3>5, <3>6, <1>2, SeqEqual
        <3> QED BY <3>3, <3>7 DEF q
    <2> QED BY <2>1, <2>2 DEF a, Promise!IsStrictPrefix, Promise!IsPrefix
<1> QED BY <1>1, <1>3, <1>5, <1>6, <1>7 DEF c

\* The new chunks have the ink of the heading and of the paragraphs of the group.
LEMMA NewInk ==
    ASSUME Shape, Shape', SectionsSolid, Grouped, Split, phase = "splitting", rest = <<>>, pieces = <<>>,
           chunks' = chunks \o NewChunks, NEW g, g = groups[group]
    PROVE  Promise!FlattenSeq([k \in DOMAIN Promise!New |-> Promise!InkOf(Promise!New[k].text)]) =
              Promise!InkOf(Heading) \o Promise!InkOf(Promise!FlattenSeq(SubSeq(Paragraphs, g.first, g.last)))
<1>1. /\ DOMAIN Promise!New = DOMAIN final
      /\ \A k \in DOMAIN final : Promise!New[k].text = final[k] /\ final[k] \in Text
    BY NewIs
<1>2. [k \in DOMAIN Promise!New |-> Promise!InkOf(Promise!New[k].text)] = [k \in DOMAIN final |-> Inked(final[k])]
    BY <1>1, PromiseInk
<1>3. Promise!FlattenSeq([k \in DOMAIN Promise!New |-> Promise!InkOf(Promise!New[k].text)]) = InkedAll(final)
    BY <1>2, PromiseFlatten DEF InkedAll
<1>4. g \in Group /\ Whereof(g) /\ Heading \in Text /\ g.text \in Text /\ final \in Seq(Text) /\ Paragraphs \in Seq(Text)
    BY SplitGroup, GroupedShape DEF Group, Shape, TypeOK
<1>5. InkedAll(final) = Inked(Whole(g))
    <2>1. InkedAll(final) \o InkedAll(<<>>) \o Inked(<<>>) = Inked(Whole(g))
        BY DEF Split, Cut
    <2>2. InkedAll(<<>>) = <<>> /\ Inked(<<>>) = <<>> /\ InkedAll(final) \in Text
        <3>1. Blank(<<>>) /\ <<>> \in Text
            BY TextFacts DEF Blank
        <3> QED BY <3>1, <1>4, InkedAllFacts, InkedFacts, InksProperties
    <2>3. InkedAll(final) \o <<>> = InkedAll(final)
        BY <2>2, TextConcat
    <2> QED BY <2>1, <2>2, <2>3
<1>6. Inked(Whole(g)) = Inked(Heading) \o Inked(g.text)
    BY <1>4, WholeProperties
<1> DEFINE part == SubSeq(Paragraphs, g.first, g.last)
<1>7. Inked(g.text) = Inked(FlattenSeq(part))
    BY <1>4 DEF Whereof
<1>8. FlattenSeq(part) \in Text
    <2>1. part \in Seq(Text)
        <3> DEFINE a == g.first
                   b == g.last
                   ps == Paragraphs
        <3>1. a \in Nat \ {0} /\ b \in Nat /\ Len(ps) \in Nat /\ a <= b /\ b <= Len(ps)
            BY <1>4, LenProperties DEF Group, Whereof
        <3>2. ps \in Seq(Text)
            BY <1>4
        <3> HIDE DEF a, b, ps
        <3>3. a \in 1..(Len(ps) + 1) /\ b \in (a - 1)..Len(ps)
            BY <3>1
        <3>4. SubSeq(ps, a, b) \in Seq(Text)
            BY <3>2, <3>3, PartOf
        <3> QED BY <3>4 DEF a, b, ps
    <2> HIDE DEF part
    <2> QED BY <2>1, FlattenType DEF Text
<1> HIDE DEF part
<1>9. Promise!InkOf(Heading) = Inked(Heading) /\ Promise!InkOf(Promise!FlattenSeq(part)) = Inked(FlattenSeq(part))
    BY <1>4, <1>8, PromiseInk, PromiseFlatten
<1> QED BY <1>3, <1>5, <1>6, <1>7, <1>9 DEF part

LEMMA LeftAfter ==
    ASSUME Shape, Shape', SectionsSolid, SectionsSolid', Running, Running', Grouped, Grouped', Split,
           MakeChunks, ~\E k \in DOMAIN final : Blank(final[k]), NEW g, g = groups[group]
    PROVE  /\ LeftNow' = Here(g.last) \o Ahead(section + 1)
           /\ OutcomeNow' = "none" \/ (OutcomeNow' = "chunked" /\ LeftNow' = <<>>)
<1>1. phase = "splitting" /\ UNCHANGED <<doc, sections>> /\ outcome = "none"
    BY DEF MakeChunks, reader, Running
<1>2. /\ group \in 1..Len(groups) /\ DOMAIN groups = 1..Len(groups) /\ Len(groups) \in Nat /\ GroupsInOrder
      /\ g \in Group /\ Whereof(g)
    BY <1>1, SplitGroup, GroupedShape DEF Grouped
<1>3. CASE group < Len(groups)
    <2>1. /\ StartGroup(group + 1) /\ UNCHANGED <<section, groups>> /\ phase' = "splitting" /\ group' = group + 1
        BY <1>3 DEF MakeChunks, StartGroup
    <2>2. Delivered' = g.last
        <3>1. Delivered' = groups[group + 1].first - 1
            BY <2>1 DEF Delivered
        <3>2. group \in 1..(Len(groups) - 1)
            BY <1>2, <1>3
        <3>3. groups[group + 1].first = g.last + 1
            BY <3>2, <1>2 DEF GroupsInOrder
        <3>4. g.last \in Nat
            BY <1>2 DEF Group
        <3>5. \A n \in Nat : n + 1 - 1 = n
            OBVIOUS
        <3> QED BY <3>1, <3>3, <3>4, <3>5
    <2>3. OutcomeNow' = "none" /\ LeftNow' = (Here(Delivered) \o Ahead(section + 1))'
        BY <2>1, LeftIsNext
    <2>4. (Here(Delivered) \o Ahead(section + 1))' = Here(g.last) \o Ahead(section + 1)
        BY <1>1, <2>1, <2>2 DEF Here, From, Ahead, Filled, Heading, Paragraphs
    <2> QED BY <2>3, <2>4
<1>4. CASE ~(group < Len(groups))
    <2>1. LeaveSection
        BY <1>4 DEF MakeChunks
    <2>2. /\ LeftNow' = Ahead(section + 1)
          /\ OutcomeNow' = "none" \/ (OutcomeNow' = "chunked" /\ LeftNow' = <<>>)
        BY <1>1, <2>1, NextSection
    <2>3. g.last = Len(Paragraphs)
        <3>1. group = Len(groups) /\ groups # <<>>
            <4>1. \A m \in Nat : \A k \in 1..m : ~(k < m) => k = m /\ m # 0
                OBVIOUS
            <4>2. group = Len(groups) /\ Len(groups) # 0
                BY <4>1, <1>2, <1>4
            <4> QED BY <4>2
        <3>2. groups[Len(groups)].last = taken
            BY <3>1, <1>2 DEF GroupsInOrder
        <3>3. taken = Len(Paragraphs)
            BY <1>1 DEF Split
        <3> QED BY <3>1, <3>2, <3>3
    <2>4. Here(g.last) = <<>>
        <3>1. Len(Paragraphs) \in Nat
            BY GroupedShape
        <3> DEFINE L == Len(Paragraphs)
        <3>2. L \in Int /\ L + 1 \in Int /\ L < L + 1
            BY <3>1
        <3> HIDE DEF L
        <3>3. SubSeq(Paragraphs, L + 1, L) = <<>>
            BY <3>2, SubSeqEmpty
        <3> QED BY <2>3, <3>3 DEF Here, From, L
    <2>5. <<>> \o Ahead(section + 1) = Ahead(section + 1)
        <3>1. section \in 1..Len(sections)
            BY GroupedShape
        <3>2. SubSeq(sections, section + 1, Len(sections)) \in Seq(Section)
            BY <3>1, SectionsFrom
        <3>3. Ahead(section + 1) \in Seq(Section)
            BY <3>2, FilledFacts DEF Ahead
        <3> QED BY <3>3, ConcatEmptySeq
    <2> QED BY <2>2, <2>4, <2>5
<1> QED BY <1>3, <1>4

\* MakeChunks delivers the paragraphs of the group.
LEMMA MakeChunksDelivers ==
    ASSUME Shape, Shape', SectionsSolid, SectionsSolid', Running, Running', Grouped, Grouped', Split,
           FinalFits, IdsDistinct', MakeChunks, ~\E k \in DOMAIN final : Blank(final[k])
    PROVE  DeliversGroup
<1>1. /\ phase = "splitting" /\ rest = <<>> /\ pieces = <<>> /\ UNCHANGED <<doc, sections>>
      /\ chunks' = chunks \o NewChunks
    BY DEF MakeChunks, reader
<1> DEFINE g == groups[group]
           ps == LeftNow[1].paragraphs
           a == g.first
           b == g.last
           L == Len(Paragraphs)
           n == b - a + 1
<1>2. /\ OutcomeNow = "none"
      /\ a \in 1..b /\ b \in a..L
      /\ LeftNow # <<>> /\ Tail(LeftNow) = Ahead(section + 1)
      /\ LeftNow[1].heading = Heading
      /\ ps = SubSeq(Paragraphs, a, L)
    BY <1>1, SplitLeft
<1>3. /\ LeftNow' = Here(b) \o Ahead(section + 1)
      /\ OutcomeNow' = "none" \/ (OutcomeNow' = "chunked" /\ LeftNow' = <<>>)
    BY LeftAfter
<1>4. Paragraphs \in Seq(Text) /\ L \in Nat
    BY GroupedShape
<1>5. Promise!FlattenSeq([k \in DOMAIN Promise!New |-> Promise!InkOf(Promise!New[k].text)]) =
         Promise!InkOf(Heading) \o Promise!InkOf(Promise!FlattenSeq(SubSeq(Paragraphs, a, b)))
    BY <1>1, NewInk
<1> HIDE DEF g, ps, a, b
<1>6. n \in DOMAIN ps /\ SubSeq(ps, 1, n) = SubSeq(Paragraphs, a, b)
      /\ SubSeq(ps, n + 1, Len(ps)) = SubSeq(Paragraphs, b + 1, L)
    <2> DEFINE qs == Paragraphs
               q == SubSeq(qs, a, L)
               e == L - a + 1
               m == n + 1
               one == 1
    <2>1. a \in 1..(L + 1) /\ L \in (a - 1)..L /\ n \in 1..e
        BY <1>2, <1>4
    <2>2. one \in 1..(L - a + 2) /\ n \in (one - 1)..(L - a + 1) /\ a + one - 1 = a /\ a + n - 1 = b
        BY <1>2, <1>4
    <2>3. m \in 1..(L - a + 2) /\ e \in (m - 1)..(L - a + 1) /\ a + m - 1 = b + 1 /\ a + e - 1 = L
        BY <1>2, <1>4
    <2>4. qs \in Seq(Text) /\ L = Len(qs)
        BY <1>4
    <2> HIDE DEF qs, m, n, one, L
    <2>5. q \in Seq(Text) /\ Len(q) = e
        BY <2>1, <2>4, PartOf
    <2>6. SubSeq(SubSeq(qs, a, L), one, n) = SubSeq(qs, a + one - 1, a + n - 1)
        BY <2>1, <2>2, <2>4, PartOfPart
    <2> HIDE DEF e
    <2>7. SubSeq(SubSeq(qs, a, L), m, e) = SubSeq(qs, a + m - 1, a + e - 1)
        <3>1. m \in 1..(L - a + 2) /\ e \in (m - 1)..(L - a + 1) /\ a \in 1..(Len(qs) + 1) /\ L \in (a - 1)..Len(qs)
            BY <2>1, <2>3, <2>4
        <3> QED BY <3>1, <2>4, PartOfPart
    <2>8. ps = q
        BY <1>2 DEF qs
    <2>9. n \in DOMAIN q
        BY <2>1, <2>5, LenProperties
    <2>10. SubSeq(q, 1, n) = SubSeq(qs, a, b)
        BY <2>2, <2>6 DEF one
    <2>11. SubSeq(q, m, e) = SubSeq(qs, b + 1, L)
        BY <2>3, <2>7
    <2> HIDE DEF q
    <2> QED BY <2>5, <2>8, <2>9, <2>10, <2>11 DEF qs, m
<1> HIDE DEF n
<1>7. LeftNow' = WithoutNow(n)
    <2> DEFINE r == SubSeq(Paragraphs, b + 1, L)
    <2>1. WithoutNow(n) = IF r = <<>> THEN Tail(LeftNow) ELSE <<[heading |-> Heading, paragraphs |-> r]>> \o Tail(LeftNow)
        BY <1>2, <1>6 DEF WithoutNow, ps
    <2>2. Here(b) = IF r = <<>> THEN <<>> ELSE <<[heading |-> Heading, paragraphs |-> r]>>
        BY DEF Here, From
    <2>3. <<>> \o Ahead(section + 1) = Ahead(section + 1)
        <3>1. section \in 1..Len(sections)
            BY GroupedShape
        <3>2. SubSeq(sections, section + 1, Len(sections)) \in Seq(Section)
            BY <3>1, SectionsFrom
        <3>3. Ahead(section + 1) \in Seq(Section)
            BY <3>2, FilledFacts DEF Ahead
        <3> QED BY <3>3, ConcatEmptySeq
    <2> HIDE DEF r
    <2> QED BY <2>1, <2>2, <2>3, <1>2, <1>3
<1>8. /\ DOMAIN Promise!New = DOMAIN final
      /\ \A k \in DOMAIN final : Promise!New[k].text = final[k] /\ final[k] \in Text
      /\ Promise!IsStrictPrefix(chunks, chunks')
    BY <1>1, NewIs
<1>9. \A k \in DOMAIN Promise!New : Len(Promise!New[k].text) <= MaxSafe /\ ~Promise!Blank(Promise!New[k].text)
    BY <1>8 DEF FinalFits, Blank, Promise!Blank
<1>10. Promise!IsInjective([k \in DOMAIN chunks' |-> chunks'[k].id])
    BY DEF IdsDistinct, Promise!IsInjective
<1>11. OutcomeNow' \in {"none"} \cup (IF LeftNow' = <<>> THEN {"chunked"} ELSE {})
    BY <1>3
<1>12. /\ n \in DOMAIN LeftNow[1].paragraphs
       /\ LeftNow' = WithoutNow(n)
       /\ Promise!FlattenSeq([k \in DOMAIN Promise!New |-> Promise!InkOf(Promise!New[k].text)]) =
             Promise!InkOf(LeftNow[1].heading) \o
                 Promise!InkOf(Promise!FlattenSeq(SubSeq(LeftNow[1].paragraphs, 1, n)))
    BY <1>2, <1>5, <1>6, <1>7 DEF ps
<1> QED BY <1>1, <1>2, <1>8, <1>9, <1>10, <1>11, <1>12 DEF DeliversGroup
-----------------------------------------------------------------------------
(* The invariant of the loops, and the promise kept. *)

LoopInv == SectionsSolid /\ ReadSoFar /\ Running /\ Grouped /\ Split

LEMMA InitLoops == Init => LoopInv
<1> SUFFICES ASSUME Init PROVE LoopInv
    OBVIOUS
<1> DEFINE x == [heading |-> <<>>, paragraphs |-> <<>>]
<1>1. /\ doc \in Document /\ phase = "reading" /\ outcome = "none" /\ read = 0
      /\ sections = <<x>>
    BY DocumentsAssumption DEF Init, NoHeading
<1>2. x.heading = <<>> /\ x.paragraphs = <<>>
    OBVIOUS
<1>3. Len(sections) = 1 /\ DOMAIN sections = {1} /\ sections[1] = x
    BY <1>1
<1>4. x \in Section
    BY TextFacts, EmptySeq DEF Section
<1> HIDE DEF x
<1>5. SectionsSolid
    <2>1. DOMAIN x.paragraphs = {}
        BY <1>2
    <2> QED BY <1>2, <1>3, <2>1 DEF SectionsSolid, NoHeading
<1>6. \A S : Sublist(<<>>, S) = <<>>
    BY EmptySeq, FlattenEmpty DEF Sublist
<1>7. SectionParts(0) = <<x>>
    <2>1. SectionPart(1, 0) = x
        <3>1. [i \in 1..0 |-> Strip(doc.lines[i].text)] = <<>>
            OBVIOUS
        <3>2. SectionPart(1, 0) = [heading |-> <<>>, paragraphs |-> <<>>]
            BY <3>1, <1>6 DEF SectionPart
        <3> QED BY <3>2 DEF x
    <2>2. SectionParts(0) = [s \in 1..1 |-> x]
        BY <2>1 DEF SectionParts
    <2> QED BY <2>2
<1>8. Sublist(<<x>>, Promise!Starts(doc)) = <<x>>
    <2>1. 1 \in Promise!Starts(doc)
        BY DEF Promise!Starts
    <2> QED BY <1>4, <2>1, SublistOne
<1>9. Led(sections[1].paragraphs) = Sublist(RunParts(0), Promise!RunStarts(doc))
    <2>1. RunParts(0) = <<>>
        BY DEF RunParts
    <2>2. Led(<<>>) = <<>>
        BY DEF Led
    <2> QED BY <2>1, <2>2, <1>2, <1>3, <1>6
<1>10. ReadSoFar
    BY <1>1, <1>2, <1>3, <1>7, <1>8, <1>9 DEF ReadSoFar, NoHeading
<1>11. Running /\ Grouped /\ Split
    BY <1>1 DEF Running, Grouped, Split
<1> QED BY <1>5, <1>10, <1>11 DEF LoopInv

LEMMA NextLoops == Inv /\ Inv' /\ LoopInv /\ [Next]_vars => LoopInv'
<1> SUFFICES ASSUME Inv, Inv', LoopInv, [Next]_vars PROVE LoopInv'
    OBVIOUS
<1>0. Shape /\ Shape' /\ SectionsSolid /\ ReadSoFar /\ Running /\ Grouped /\ Split
    BY DEF Inv, LoopInv
<1>1. CASE ReadLine
    <2>1. SectionsSolid' /\ ReadSoFar'
        BY <1>0, <1>1, ReadLineKeeps
    <2>2. phase' = "reading" /\ outcome' = "none"
        BY <1>0, <1>1 DEF ReadLine, Running
    <2> QED BY <2>1, <2>2 DEF LoopInv, Running, Grouped, Split
<1>2. CASE ReadParagraph
    <2>1. SectionsSolid' /\ ReadSoFar'
        BY <1>0, <1>2, ReadParagraphKeeps
    <2>2. phase' = "reading" /\ outcome' = "none"
        BY <1>0, <1>2 DEF ReadParagraph, Running
    <2> QED BY <2>1, <2>2 DEF LoopInv, Running, Grouped, Split
<1>3. CASE EndReading
    <2>1. SectionsSolid' /\ ReadSoFar' /\ Running' /\ Grouped' /\ Split'
        BY <1>0, <1>3, EndReadingKeeps
    <2> QED BY <2>1 DEF LoopInv
<1>4. CASE TakeParagraph
    <2>1. Grouped'
        BY <1>0, <1>4, TakeParagraphKeeps
    <2>2. phase = "grouping" /\ phase' = "grouping" /\ outcome' = "none" /\ UNCHANGED sections
        BY <1>0, <1>4 DEF TakeParagraph, reader, Running
    <2>3. SectionsSolid' /\ ReadSoFar'
        BY <2>2, <1>0, ReadingDone
    <2> QED BY <2>1, <2>2, <2>3 DEF LoopInv, Running, Split
<1>5. CASE EndGrouping
    <2>1. Grouped' /\ Split'
        BY <1>0, <1>5, EndGroupingKeeps
    <2>2. phase = "grouping" /\ phase' = "splitting" /\ outcome' = "none" /\ UNCHANGED sections
        BY <1>0, <1>5 DEF EndGrouping, StartGroup, reader, Running
    <2>3. SectionsSolid' /\ ReadSoFar'
        BY <2>2, <1>0, ReadingDone
    <2> QED BY <2>1, <2>2, <2>3 DEF LoopInv, Running
<1>6. CASE SkipSection
    <2>1. Grouped' /\ Split'
        BY <1>0, <1>6, SkipSectionKeeps
    <2>2. phase = "grouping" /\ phase' # "reading" /\ UNCHANGED sections /\ (phase' # "ended" => outcome' = "none")
        BY <1>0, <1>6 DEF SkipSection, LeaveSection, reader, Running
    <2>3. SectionsSolid' /\ ReadSoFar'
        BY <2>2, <1>0, ReadingDone
    <2> QED BY <2>1, <2>2, <2>3 DEF LoopInv, Running
<1>7. CASE TakeSentence
    <2>1. Grouped' /\ Split'
        BY <1>0, <1>7, TakeSentenceKeeps
    <2>2. phase = "splitting" /\ phase' = "splitting" /\ outcome' = "none" /\ UNCHANGED sections
        BY <1>0, <1>7 DEF TakeSentence, reader, Running
    <2>3. SectionsSolid' /\ ReadSoFar'
        BY <2>2, <1>0, ReadingDone
    <2> QED BY <2>1, <2>2, <2>3 DEF LoopInv, Running
<1>8. CASE CutPiece
    <2>1. Grouped' /\ Split'
        BY <1>0, <1>8, CutPieceKeeps
    <2>2. phase = "splitting" /\ phase' = "splitting" /\ outcome' = "none" /\ UNCHANGED sections
        BY <1>0, <1>8 DEF CutPiece, reader, Running
    <2>3. SectionsSolid' /\ ReadSoFar'
        BY <2>2, <1>0, ReadingDone
    <2> QED BY <2>1, <2>2, <2>3 DEF LoopInv, Running
<1>9. CASE MakeChunks
    <2>1. Grouped' /\ Split'
        BY <1>0, <1>9, MakeChunksKeeps
    <2>2. phase = "splitting" /\ phase' # "reading" /\ UNCHANGED sections /\ (phase' # "ended" => outcome' = "none")
        BY <1>0, <1>9 DEF MakeChunks, Refuse, StartGroup, LeaveSection, reader, Running
    <2>3. SectionsSolid' /\ ReadSoFar'
        BY <2>2, <1>0, ReadingDone
    <2> QED BY <2>1, <2>2, <2>3 DEF LoopInv, Running
<1>10. CASE UNCHANGED vars
    <2>1. UNCHANGED <<doc, phase, read, sections, section, taken, groups, group, rest, pieces, final, index, chunks, outcome>>
        BY <1>10 DEF vars, reader, grouper, splitter
    <2>2. SectionsSolid' /\ Running'
        BY <2>1, <1>0 DEF SectionsSolid, Running, Solid, Blank
    <2>3. ReadSoFar'
        BY <2>1, <1>0 DEF ReadSoFar, SectionParts, SectionPart, RunParts, RunPart, Led
    <2>4. Paragraphs' = Paragraphs /\ Heading' = Heading
        BY <2>1, WhereofStays
    <2>5. Grouped'
        BY <2>1, <2>4, <1>0 DEF Grouped, GroupsInOrder, Whereof
    <2>6. Whole(groups[group])' = Whole(groups[group])
        BY <2>1, <2>4 DEF Whole
    <2>7. Split'
        BY <2>1, <2>4, <2>6, <1>0 DEF Split
    <2> QED BY <2>2, <2>3, <2>5, <2>7 DEF LoopInv
<1> QED BY <1>1, <1>2, <1>3, <1>4, <1>5, <1>6, <1>7, <1>8, <1>9, <1>10 DEF Next

LEMMA LoopInvHolds == Spec => []LoopInv
<1>1. Inv /\ Inv' /\ LoopInv /\ [Next]_vars => LoopInv'
    BY NextLoops
<1>2. Init => LoopInv
    BY InitLoops
<1> QED BY <1>1, <1>2, InvHolds, PTL DEF Spec

LEMMA InitPromises == Init => Promise!Init
<1> QED BY DEF Init, Promise!Init

\* Every step of Chunking is a step of Passages, or does not show.
LEMMA NextPromises ==
    Inv /\ Inv' /\ LoopInv /\ LoopInv' /\ [Next]_vars => [Promise!Next]_(Promise!vars)
<1> SUFFICES ASSUME Inv, Inv', LoopInv, LoopInv', [Next]_vars
             PROVE  PromiseStutters \/ Opens \/ DeliversGroup \/ Finishes \/ Refuses
    BY StutterIs, OpensIs, DeliversIs, FinishesIs, RefusesIs DEF Promise!Next
<1>0. /\ Shape /\ SectionsSolid /\ ReadSoFar /\ Running /\ Grouped /\ Split /\ FinalFits
      /\ Shape' /\ SectionsSolid' /\ Running' /\ Grouped' /\ IdsDistinct'
    BY DEF Inv, LoopInv, IdsInv
<1>1. CASE ReadLine \/ ReadParagraph
    BY <1>1, ReadingStutters DEF ReadLine, ReadParagraph
<1>2. CASE EndReading
    BY <1>0, <1>2, EndReadingOpens
<1>3. CASE TakeParagraph
    BY <1>0, <1>3, TakeParagraphStutters
<1>4. CASE EndGrouping
    BY <1>0, <1>4, EndGroupingStutters
<1>5. CASE SkipSection
    BY <1>0, <1>5, SkipSectionRefines
<1>6. CASE TakeSentence \/ CutPiece
    BY <1>0, <1>6, SplittingStutters
<1>7. CASE MakeChunks
    <2>1. CASE \E k \in DOMAIN final : Blank(final[k])
        BY <1>0, <1>7, <2>1, MakeChunksRefuses
    <2>2. CASE ~\E k \in DOMAIN final : Blank(final[k])
        BY <1>0, <1>7, <2>2, MakeChunksDelivers
    <2> QED BY <2>1, <2>2
<1>8. CASE UNCHANGED vars
    BY <1>8 DEF vars, reader, grouper, splitter, PromiseStutters, LeftNow, OutcomeNow, Remaining, Delivered
<1> QED BY <1>1, <1>2, <1>3, <1>4, <1>5, <1>6, <1>7, <1>8 DEF Next
-----------------------------------------------------------------------------
(* A chunker that stops half way would do nothing that Delivers forbids:   *)
(* there is a step until the end.                                          *)

\* Some loop has a turn left, or is left.
NeverStuck ==
    \/ phase \in {"reading", "ended"}
    \/ phase = "grouping" /\ (taken < Len(Paragraphs) \/ groups # <<>> \/ Paragraphs = <<>>)
    \/ phase = "splitting" /\ rest = <<>>
    \/ phase = "splitting" /\ \E n \in 1..Len(rest) : \E m \in n..Len(rest) : FirstSentence(rest, n, m)

\* Every text has a first sentence.
LEMMA SentenceExists ==
    ASSUME NEW text \in Text, text # <<>>
    PROVE  \E n \in 1..Len(text) : \E m \in n..Len(text) : FirstSentence(text, n, m)
<1> DEFINE L == Len(text)
<1>1. L \in Nat \ {0} /\ DOMAIN text = 1..L
    BY TextFacts, EmptySeq DEF Text
<1> HIDE DEF L
<1> DEFINE N == {i \in 1..L : Boundary(text, i) \/ i = L}
<1>2. N \in SUBSET Nat /\ L \in N
    BY <1>1
<1>3. PICK n \in N : \A i \in N : n <= i
    BY <1>2, Least
<1>4. n \in 1..L /\ (Boundary(text, n) \/ n = L) /\ \A i \in 1..(n - 1) : ~Boundary(text, i)
    <2>1. n \in 1..L /\ (Boundary(text, n) \/ n = L)
        BY <1>3
    <2>2. ASSUME NEW i \in 1..(n - 1)
          PROVE  ~Boundary(text, i)
        <3>1. i \in 1..L /\ ~(n <= i)
            BY <1>1, <2>1
        <3> QED BY <3>1, <1>3
    <2> QED BY <2>1, <2>2
<1> DEFINE M == {j \in n..L : j < L => text[j + 1] # White}
<1>5. M \in SUBSET Nat /\ L \in M
    BY <1>1, <1>4
<1>6. PICK m \in M : \A j \in M : m <= j
    BY <1>5, Least
<1>7. m \in n..L /\ (m < L => text[m + 1] # White) /\ \A i \in (n + 1)..m : text[i] = White
    <2>1. m \in n..L /\ (m < L => text[m + 1] # White)
        BY <1>6
    <2>2. ASSUME NEW i \in (n + 1)..m
          PROVE  text[i] = White
        <3>1. i - 1 \in n..L /\ i - 1 < L /\ ~(m <= i - 1) /\ (i - 1) + 1 = i
            BY <1>1, <1>4, <2>1
        <3>2. i - 1 \notin M
            BY <3>1, <1>6
        <3> QED BY <3>1, <3>2
    <2> QED BY <2>1, <2>2
<1>8. FirstSentence(text, n, m)
    BY <1>4, <1>7 DEF FirstSentence, L
<1> QED BY <1>4, <1>7, <1>8 DEF L

LEMMA StepsLeft ==
    ASSUME Shape, Grouped
    PROVE  NeverStuck
<1>1. CASE phase = "grouping"
    <2>1. Len(Paragraphs) \in Nat /\ taken \in 0..Len(Paragraphs) /\ Paragraphs \in Seq(Text)
        BY GroupedShape
    <2>2. groups = <<>> => taken = 0
        BY <1>1 DEF Grouped, GroupsInOrder
    <2>3. Len(Paragraphs) = 0 => Paragraphs = <<>>
        BY <2>1, EmptySeq
    <2> QED BY <1>1, <2>1, <2>2, <2>3 DEF NeverStuck
<1>2. CASE phase = "splitting"
    <2>1. rest \in Text
        BY DEF Shape, TypeOK
    <2> QED BY <1>2, <2>1, SentenceExists DEF NeverStuck
<1> QED BY <1>1, <1>2 DEF Shape, TypeOK, NeverStuck
-----------------------------------------------------------------------------
(* Theorems. *)

\* Whatever the document, every loop keeps its variables in their ranges: no
\* paragraph or section is read that is not there (chunk_uploaded_document).
THEOREM TypeCorrect == Spec => []TypeOK
<1>1. Inv => TypeOK
    BY DEF Inv, Shape
<1> QED BY <1>1, InvHolds, PTL

\* Every chunk that _split_oversized_text_if_needed lets through is under the
\* ceiling of the embeddings call and not blank, for every target and ceiling.
THEOREM EveryChunkEmbeddable == Spec => []Embeddable
<1>1. Inv => Embeddable
    BY DEF Inv
<1> QED BY <1>1, InvHolds, PTL

\* group_index and the number of the piece make every chunk id of a document its
\* own, even under a heading that is repeated.
THEOREM NoIdTwice == Spec => []IdsDistinct
<1>1. Inv => IdsDistinct
    BY DEF Inv, IdsInv
<1> QED BY <1>1, InvHolds, PTL

\* _group_paragraphs_by_size counts the blank lines it adds.
THEOREM GroupsWithinTarget == Spec => []GroupsFit
<1>1. Inv => GroupsFit
    BY DEF Inv
<1> QED BY <1>1, InvHolds, PTL

\* The hard cut of _split_oversized_text_if_needed never meets a text that had a
\* sentence boundary to cut at.
THEOREM HardCutsOnlySentences == Spec => []CutsOnlyGiants
<1>1. Inv => CutsOnlyGiants
    BY DEF Inv
<1> QED BY <1>1, InvHolds, PTL

\* Every chunk can be stored under an id of its own, for every document, target
\* and ceiling.
THEOREM AlwaysStorable == Spec => []Storable
<1> QED BY EveryChunkEmbeddable, NoIdTwice, PTL DEF Storable

\* Paragraphs and sentences stay whole wherever the sizes allow it.
THEOREM OnlyGiantsSplit == Spec => []SplitsOnlyGiants
<1> QED BY GroupsWithinTarget, HardCutsOnlySentences, PTL DEF SplitsOnlyGiants

\* Whatever the document and whatever the sizes, chunk_uploaded_document keeps
\* the promise of its docstring (13-30): the text arrives whole, once and in
\* order, in chunks that can be embedded, or the document is refused, as empty or
\* for white space as long as a chunk.
THEOREM ImplementsPassages == Spec => Delivers
<1>1. Inv /\ Inv' /\ LoopInv /\ LoopInv' /\ [Next]_vars => [Promise!Next]_(Promise!vars)
    BY NextPromises
<1>2. Init => Promise!Init
    BY InitPromises
<1> QED BY <1>1, <1>2, InvHolds, LoopInvHolds, PTL DEF Spec, Delivers, Promise!Spec

\* For every document, target and ceiling chunk_uploaded_document is at its end or has
\* a turn to take: a section with paragraphs has a group, and what is left of a text
\* a first sentence (273-292, 314-427).  Delivers says what is handed over,
\* and this that it never stops with text in hand.
THEOREM ChunkingGoesOn == Spec => []NeverStuck
<1>1. Inv /\ LoopInv => NeverStuck
    BY StepsLeft DEF Inv, LoopInv
<1> QED BY <1>1, InvHolds, LoopInvHolds, PTL
=============================================================================
