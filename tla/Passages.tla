------------------------------ MODULE Passages ------------------------------
(***************************************************************************)
(* What chunking a document promises, whichever way it is done: the        *)
(* document's text, whole, once and in order, as passages that can be      *)
(* embedded; or a refusal, for a reason.                                   *)
(***************************************************************************)
EXTENDS Contents

CONSTANT MaxSafe

VARIABLES
    doc,
    left,       \* the sections, with a paragraph or more each, not delivered yet
    chunks,
    outcome

vars == <<doc, left, chunks, outcome>>

-----------------------------------------------------------------------------
\* Of any document.
Init == left = <<>> /\ chunks = <<>> /\ outcome = "unread"

Open ==
    /\ outcome = "unread"
    /\ left' = Content(doc)
    /\ outcome' = IF left' = <<>> THEN "empty" ELSE "none"
    /\ UNCHANGED <<doc, chunks>>

\* The sections without the first n paragraphs of the first one.
Without(n) ==
    LET rest == SubSeq(left[1].paragraphs, n + 1, Len(left[1].paragraphs))
    IN  IF rest = <<>> THEN Tail(left)
        ELSE <<[heading |-> left[1].heading, paragraphs |-> rest]>> \o Tail(left)

New == SubSeq(chunks', Len(chunks) + 1, Len(chunks'))

\* One or more whole paragraphs of a section, under its heading, become one or
\* more chunks; their text is that of the document but for white space.
Deliver ==
    /\ outcome = "none" /\ left # <<>>
    /\ \E n \in DOMAIN left[1].paragraphs :
          /\ left' = Without(n)
          /\ FlattenSeq([k \in DOMAIN New |-> InkOf(New[k].text)]) =
                InkOf(left[1].heading) \o InkOf(FlattenSeq(SubSeq(left[1].paragraphs, 1, n)))
    /\ IsStrictPrefix(chunks, chunks')
    /\ \A k \in DOMAIN New : Len(New[k].text) <= MaxSafe /\ ~Blank(New[k].text)
    /\ IsInjective([k \in DOMAIN chunks' |-> chunks'[k].id])
    /\ outcome' \in {"none"} \cup (IF left' = <<>> THEN {"chunked"} ELSE {})
    /\ UNCHANGED doc

Finish ==
    /\ outcome = "none" /\ left = <<>> /\ chunks # <<>>
    /\ outcome' = "chunked"
    /\ UNCHANGED <<doc, left, chunks>>

Void(text) == \E i \in DOMAIN text : i + MaxSafe - 1 <= Len(text) /\ Blank(SubSeq(text, i, i + MaxSafe - 1))

\* What goes wrong with white space as long as a chunk inside a text.
Refuse ==
    /\ outcome = "none" /\ left # <<>>
    /\ \E text \in {left[1].heading} \cup ToSet(left[1].paragraphs) : Void(text)
    /\ outcome' = "blank"
    /\ chunks' = <<>>
    /\ UNCHANGED <<doc, left>>

Next == Open \/ Deliver \/ Finish \/ Refuse

Spec == Init /\ [][Next]_vars
=============================================================================
