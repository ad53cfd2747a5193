----------------------------- MODULE MCUploader -----------------------------
(***************************************************************************)
(* Small instances of Uploader: a session with a file in a folder, another *)
(* with single files.                                                      *)
(***************************************************************************)
EXTENDS Uploader

CONSTANTS photos, report, video, notes

Two == {1, 2}
Single == {report, notes} \cap File

\* The folder comes before its file.
InOrder ==
  [i \in Item \cup Session |-> CASE i = photos -> 1 [] i = video -> 2 [] i = report -> 3 [] i = notes -> 4
                                 [] OTHER -> i]
Dropped == [i \in Item |-> IF i \in Single THEN 2 ELSE 1]
In == [f \in File |-> IF f \in Single THEN 2 ELSE photos]
=============================================================================
