------------------------------ MODULE FlowAhoMC -------------------------------
(* Small instances of FlowAho for TLC.                                     *)
EXTENDS FlowAho

MCLetter == {"a", "b"}
StringsTo(n) == UNION {[1..k -> Letter] : k \in 0..n}

(* All words over two letters, the empty one, and one that is too long.    *)
MCWords == StringsTo(3) \cup {<<"a", "a", "a", "b">>}
MCTexts == StringsTo(4)
===============================================================================
