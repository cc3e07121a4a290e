---------------------------- MODULE MCShellProxy ----------------------------
(***************************************************************************)
(* Instances of ShellProxy for TLC: what the user may type in each of them. *)
(***************************************************************************)
EXTENDS ShellProxy

\* Command lines of the user's own, and Ctrl-C.
MCEverything == {"user", "flash", "term", "cancel"}
MCCancel == {"cancel"}
\* No user at the terminal.
MCNothing == {}
=============================================================================
