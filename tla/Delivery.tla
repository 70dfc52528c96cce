------------------------------ MODULE Delivery ------------------------------
(***************************************************************************)
(* How Chunking keeps the promise of module Passages: what of the document *)
(* is not yet in a chunk.                                                  *)
(***************************************************************************)
EXTENDS Chunking, Sublists

\* The paragraphs of the section that are in a chunk.
Delivered == IF phase = "grouping" THEN 0 ELSE groups[group].first - 1

Remaining ==
    LET all == SubSeq(sections, section, Len(sections))
        now == [all EXCEPT ![1].paragraphs = SubSeq(@, Delivered + 1, Len(@))]
    IN  Sublist(now, {i \in DOMAIN now : now[i].paragraphs # <<>>})

Promise == INSTANCE Passages WITH
    left    <- IF phase = "reading" \/ outcome \in {"empty", "chunked"} THEN <<>> ELSE Remaining,
    outcome <- IF phase = "reading" THEN "unread" ELSE outcome

\* The text of the document arrives whole, once and in order, in chunks that
\* can be embedded (module docstring, 13-30), or it is refused for a reason.
Delivers == Promise!Spec
=============================================================================
