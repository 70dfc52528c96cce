----------------------------- MODULE MCChunking -----------------------------
(***************************************************************************)
(* Documents of a few lines, and the promise of module Passages.  In the   *)
(* body every character other than white space is a different one, so that *)
(* a loss or an exchange shows; headings may repeat.                       *)
(***************************************************************************)
EXTENDS Delivery

CONSTANTS MaxLines, Bodies, Titles  \* bounds

\* A shape is a string of characters, given as a sequence: i ink, s stop, w white.
Char(line, i, shape) ==
    CASE shape[i] = "w" -> 0
      [] shape[i] = "i" -> 20 * line + i
      [] shape[i] = "s" -> 200 + 20 * line + i

Drawn(line, shape) == [i \in DOMAIN shape |-> Char(line, i, shape)]

SmallChars == 0..400
FullStops == 200..400

Shapes == {[shape |-> s, heading |-> FALSE] : s \in Bodies}
Styled == Shapes \cup {[shape |-> s, heading |-> TRUE] : s \in Titles}

Lines(shapes) ==
    [i \in DOMAIN shapes |->
        [text |-> Drawn(IF shapes[i].heading THEN 0 ELSE i, shapes[i].shape),
         heading |-> shapes[i].heading]]

SmallDocuments ==
    {[kind |-> "txt", lines |-> Lines(s)] : s \in SeqOf(Shapes, MaxLines)} \cup
    {[kind |-> "docx", lines |-> Lines(s)] : s \in SeqOf(Styled, MaxLines)}

\* Two sentences that do not fit one piece, two that do once the space between
\* them is one character, white space as long as a chunk inside a sentence.
SomeBodies ==
    {<<"w">>, <<"i">>, <<"w", "i", "s">>, <<"i", "w", "i", "s", "w", "i">>,
     <<"i", "s", "w", "w", "w", "i", "s">>, <<"i", "i", "w", "w", "w", "w", "w", "i">>}

\* The last one leaves no room for two paragraphs.
SomeTitles == {<<"i">>, <<"i", "s", "w", "i">>}

=============================================================================
