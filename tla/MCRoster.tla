------------------------------ MODULE MCRoster ------------------------------
(* Two names that are alike, one of a test worker, and two numbers, for TLC. *)
EXTENDS Roster

CONSTANTS na, nb, nt, da, db, scan1, scan2

AlikeNames(a, b) == a = b \/ {a, b} = {na, nb}

Line(name, identifier) == [name |-> name, identifier |-> identifier]

Folder(name, content) == [name |-> name, content |-> content]

NamesInInbox == <<na, nt>>

TwoUploads == {<<Line(na, da), Line(nb, NoIdentifier)>>, <<Line(nb, da)>>}

TwoArchives == {[folders |-> <<Folder(na, scan1)>>, roster |-> {Line(na, da)}],
             [folders |-> <<Folder(nb, scan1), Folder(na, scan2)>>, roster |-> {Line(na, da)}]}
=============================================================================
