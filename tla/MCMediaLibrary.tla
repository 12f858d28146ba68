--------------------------- MODULE MCMediaLibrary ---------------------------
(* Instances of MediaLibrary. *)
EXTENDS MediaLibrary

CONSTANTS a1, h1, h2

\* Two old rows share a file; "u1" and "u2" are uploads under one key.
OldRows == {"old1", "old2"}
LibraryRows == OldRows \cup {"u1"}
UploadRows == {"u1", "u2", "v1"}
KeyOfRow(r) == CASE r \in OldRows -> "old" [] r = "v1" -> "v" [] OTHER -> "u"
FileOfRow(r) == IF r \in OldRows THEN "shared" ELSE r

LibraryKeys == [r \in LibraryRows |-> KeyOfRow(r)]
LibraryFiles == [r \in LibraryRows |-> FileOfRow(r)]
UploadKeys == [r \in UploadRows |-> KeyOfRow(r)]
UploadFiles == [r \in UploadRows |-> FileOfRow(r)]
LibrarySizes == [k \in {"old", "u"} |-> IF k = "u" THEN 2 ELSE 1]
UploadSizes == [k \in {"u", "v"} |-> IF k = "u" THEN 2 ELSE 1]

=============================================================================
