------------------------------- MODULE MCBundle -------------------------------
(* Two files, the first of two chunks, received by one or two processes. *)
EXTENDS BundleInstall
CONSTANTS p1, p2
OneProc == {p1}
TwoProcs == {p1, p2}
TwoThenOne == <<2, 1>>
Both == {TRUE, FALSE}
Never == {FALSE}
Always == {TRUE}
AllFlaws == 0..4
NoFlaws == {0}
=============================================================================
