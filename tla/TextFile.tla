------------------------------ MODULE TextFile ------------------------------
(***************************************************************************)
(* What configWriteFile of config.c leaves in a file: fopen(filename, "w") *)
(* truncates it, the text waits in the buffer of the stream, and fclose    *)
(* puts it in the file.  A content tells whose text it is.                 *)
(***************************************************************************)

\* There is no such file; it has been truncated; it holds part of a text, or
\* parts of two.
NotText == {"absent", "empty", "torn"}

\* The text is written over what another writer put there after the file was
\* truncated: the end of a longer one shows behind it.
Flushed(old, new) == IF old = "empty" THEN {new} ELSE {new, "torn"}

\* Nothing of the text reached the file, or its beginning.
HalfFlushed(old) == {old, "torn"}

=============================================================================
