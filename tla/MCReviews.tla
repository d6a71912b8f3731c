------------------------------ MODULE MCReviews ------------------------------
(***************************************************************************)
(* What people review, documents and write paths, side by side for TLC: a  *)
(* behaviour is one of one part, its slice, and the other stays as it      *)
(* begins.                                                                 *)
(***************************************************************************)
EXTENDS MCDocumentReview, MCWritePathReview

VARIABLE slice

InitReviews == slice \in {"documents", "paths", "previews"} /\ Init /\ InitPreview

\* Overlapping sessions are the subject of "paths", labels that of "previews".
OneSessionAfter == \A g, h \in PathHandlers : pathTx'[g].open /\ pathTx'[h].open => g = h

NextReviews ==
    /\ UNCHANGED slice
    /\ \/ slice = "documents" /\ Next /\ UNCHANGED previewVars
       \/ slice = "paths" /\ NextPaths /\ UNCHANGED <<docVars, labels>>
       \/ slice = "previews" /\ NextPreview /\ OneSessionAfter /\ UNCHANGED docVars

SpecReviews == InitReviews /\ [][NextReviews]_<<slice, docVars, previewVars>>

\* No action and no property names a handler, a document or a content.
ReviewSymmetry == Permutations(Handlers) \cup Permutations(Docs) \cup Permutations(Files)
=============================================================================
