------------------------------- MODULE MCView -------------------------------
(* Values for model-checking View. *)
EXTENDS View, TLC

CONSTANTS c1, c2, c3

(* A word of several letters and, as in words.txt, one that is there twice. *)
ThreeWords == << <<"x">>, <<"x">>, <<"x", "y", "x">> >>

Symmetry == Permutations(Conns \ {Viewer})

(* What the steps to come and the invariants read of the word: which one is   *)
(* chosen, what is shown of it and the hints to come; while none is chosen,   *)
(* those hints alone.                                                        *)
HintsToCome == SubSeq(unveiling_sequence, current_unveil + 1, selected_word_len - 1)

WordView ==
    IF chosen THEN <<words[selected_word], Shown, HintsToCome>>
    ELSE IF HintsToCome = << >> THEN << >>
    ELSE <<selected_word, HintsToCome>>

ScreenView == <<matchVars, words, chosen, WordView, hidden_word, asked, unread, screen>>
=============================================================================
