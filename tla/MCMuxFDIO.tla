----------------------------- MODULE MCMuxFDIO -----------------------------
(***************************************************************************)
(* Instances of MuxFDIO for TLC.  The delimiter keeps what matters of      *)
(* b"\0\2\0\2RIOTWebMUXFDIO\0\3\0\3": it begins by repeating itself, and   *)
(* no longer prefix of it does.  7 and 5 stand for bytes that are not in   *)
(* it; 5 is only ever written raw.                                         *)
(***************************************************************************)
EXTENDS MuxRefinement

MCMagic == <<0, 2, 0, 2, 9>>

\* Terminal text, which may hold a NUL but not the delimiter's first pair.
MCTexts == {<<5>>, <<5, 0>>}
MCPlainTexts == {<<5>>}

\* One byte; the whole delimiter with a channel and a length.
MCPayloads == {<<7>>, MCMagic \o <<1, 1>>}
MCShortPayloads == {<<7>>, <<0, 2>>}
\* No byte: the header is refused.
MCEmptyPayloads == {<<>>, <<7>>, <<0, 2>>}
=============================================================================
