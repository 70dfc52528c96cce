----------------------------- MODULE MCUploads -----------------------------
(* Instances of Uploads: a text file of two chunks, uploaded under one   *)
(* name or under two.                                                    *)
EXTENDS Uploads, TLC

CONSTANTS a, b

OneKind == [txt |-> <<a, b>>]

\* A file that parses as text and is no pdf.
Unreadable == [txt |-> <<a, b>>, pdf |-> <<>>]

UploadSymmetry == Permutations(Uploads)
=============================================================================
