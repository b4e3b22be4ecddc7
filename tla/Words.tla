-------------------------------- MODULE Words --------------------------------
(***************************************************************************)
(* The word of a match (LogicGame.c) and the text the players see of it, as  *)
(* thrRoom keeps them: three words are drawn at the start of a round, the    *)
(* suzerain selects one, a sequence says in which order its letters are      *)
(* shown, and every hint shows one more.                                     *)
(*                                                                         *)
(* Positions count from 1 here.  hidden_word has one cell for every second   *)
(* character of the C string, the others are blanks: "_ _ _".  Before a word *)
(* is selected it holds a text that asks the players to wait.                *)
(***************************************************************************)
EXTENDS Naturals, Sequences

CONSTANTS
    File,      \* words.txt, a sequence of words
    WaitCells  \* bound: the cells of "In attesa della parola..." (13 in the code)

Letters == UNION {{File[k][i] : i \in DOMAIN File[k]} : k \in DOMAIN File}

ASSUME WordsAssumption ==
    /\ File \in Seq(Seq(Letters)) /\ Len(File) >= 3
    /\ \A k \in DOMAIN File : File[k] # << >>
    /\ Letters \cap {"_", "wait", "nul", "any"} = {}
    /\ WaitCells \in Nat

VARIABLES
    words,             \* the three words drawn
    selected_word,     \* the one selected, the first until one is; 0, which is the
                       \* index -1 of the code, after a choice that cannot be read
    chosen,            \* history: is a word of this round selected?
    hidden_word,       \* what the players see
    unveiling_sequence, selected_word_len, current_unveil

wordVars == <<words, selected_word, chosen, hidden_word, unveiling_sequence,
              selected_word_len, current_unveil>>

(* "nul" is the terminator, "any" a character that stood in memory by chance. *)
Cells == Letters \cup {"_", "wait", "nul", "any"}

-----------------------------------------------------------------------------
(* Mutant: the values drawn may repeat. *)
randomRepeats(j, range) == [1 .. j -> 1 .. range]

(* randomSCT draws j values and draws again each one that was there before.  *)
randomSCT(j, range) ==
    {a \in [1 .. j -> 1 .. range] : \A i, k \in 1 .. j : a[i] = a[k] => i = k}

(* What stands at position k of the buffer of word w: behind its end the     *)
(* terminator, and behind that the rest of a longer word, or anything.       *)
CharAt(w, k) ==
    IF k <= Len(w) THEN w[k] ELSE IF k = Len(w) + 1 THEN "nul" ELSE "any"

(* addHint is handed words[selected_word], which is no word after a choice    *)
(* that cannot be read: it copies what stands in memory before the array.     *)
HintFrom(k) == IF selected_word = 0 THEN "any" ELSE CharAt(words[selected_word], k)

MayHint(unveil, len) == unveil + 1 < len

(* addHint.  A position behind the waiting text is behind its terminator.    *)
addHint ==
    IF MayHint(current_unveil, selected_word_len)
    THEN LET k == unveiling_sequence[current_unveil + 1] IN
         /\ current_unveil' = current_unveil + 1
         /\ IF k \in DOMAIN hidden_word
            THEN hidden_word' = [hidden_word EXCEPT ![k] = HintFrom(k)]
            ELSE UNCHANGED hidden_word
    ELSE UNCHANGED <<current_unveil, hidden_word>>

WaitText == [k \in 1 .. WaitCells |-> "wait"]

Blank(w) == [k \in 1 .. Len(w) |-> "_"]

-----------------------------------------------------------------------------
Draws(ws) ==
    \E d \in randomSCT(3, Len(File)) : ws = [n \in 1 .. 3 |-> File[d[n]]]

(* A room starts.  unveiling_sequence, current_unveil and selected_word_len   *)
(* are not initialised; that no hint is given before they are is an           *)
(* assumption of this module, which module Room does not make.                *)
WordsInit ==
    /\ Draws(words) /\ selected_word = 1 /\ chosen = FALSE
    /\ hidden_word = WaitText
    /\ unveiling_sequence = << >> /\ selected_word_len = 0 /\ current_unveil = 0

(* while( !close_room ) { ... : what is left of the round before stays where  *)
(* it is, but for the words.                                                  *)
NewRound ==
    /\ Draws(words') /\ selected_word' = 1 /\ chosen' = FALSE
    /\ hidden_word' = WaitText
    /\ UNCHANGED <<unveiling_sequence, selected_word_len, current_unveil>>

(* Mutant: the hints of the word before are counted on. *)
SelectKeepsCount(n) ==
    LET w == words[n] IN
    /\ selected_word' = n /\ chosen' = TRUE
    /\ selected_word_len' = Len(w)
    /\ unveiling_sequence' \in randomSCT(Len(w), Len(w))
    /\ UNCHANGED current_unveil
    /\ hidden_word' = Blank(w)
    /\ UNCHANGED words

(* C_SELECTWORD with 1, 2 or 3: the word is hidden and its first hint given.  *)
SelectWord(n) ==
    LET w == words[n] IN
    /\ selected_word' = n /\ chosen' = TRUE
    /\ selected_word_len' = Len(w)
    /\ unveiling_sequence' \in randomSCT(Len(w), Len(w))
    /\ IF MayHint(0, Len(w))
       THEN LET k == unveiling_sequence'[1] IN
            /\ current_unveil' = 1
            /\ hidden_word' = [Blank(w) EXCEPT ![k] = w[k]]
       ELSE current_unveil' = 0 /\ hidden_word' = Blank(w)
    /\ UNCHANGED words

(* C_SELECTWORD with anything else: the choice is to be made again, and what  *)
(* an earlier choice has left of the hidden word stays.                       *)
SelectUnreadable ==
    /\ selected_word' = 0 /\ chosen' = FALSE
    /\ UNCHANGED <<words, hidden_word, unveiling_sequence, selected_word_len, current_unveil>>

(* The turn has come round to the suzerain, or its holder has left: a hint,   *)
(* also when no word is selected yet, or none any more.                       *)
GiveHint ==
    /\ addHint
    /\ UNCHANGED <<words, selected_word, chosen, unveiling_sequence, selected_word_len>>

WordsNext ==
    NewRound \/ (\E n \in 1 .. 3 : SelectWord(n)) \/ SelectUnreadable \/ GiveHint

WordsSpec == WordsInit /\ [][WordsNext]_wordVars

-----------------------------------------------------------------------------
(* Properties *)

(* The drawn numbers are different ones, so that every letter has its turn to *)
(* be shown.                                                                  *)
WordsTypeOK ==
    /\ words \in [1 .. 3 -> Seq(Letters)] /\ selected_word \in 0 .. 3
    /\ chosen \in BOOLEAN
    /\ hidden_word \in Seq(Cells)
    /\ selected_word_len \in Nat /\ current_unveil \in Nat
    /\ unveiling_sequence \in [1 .. selected_word_len -> 1 .. selected_word_len]
    /\ \A i, k \in 1 .. selected_word_len :
          unveiling_sequence[i] = unveiling_sequence[k] => i = k

Shown == {unveiling_sequence[k] : k \in 1 .. current_unveil}

(* LogicGame.c:28, ThreadRoom.c:295.  While a word is selected, the players   *)
(* see that word: as many of its letters as hints were given, each where it   *)
(* belongs, blanks everywhere else, and never the whole word, whatever the    *)
(* rounds before have left in the counters.                                   *)
HiddenShowsWord ==
    chosen =>
        LET w == words[selected_word] IN
        /\ DOMAIN hidden_word = DOMAIN w
        /\ \A k \in DOMAIN w :
              hidden_word[k] = IF k \in Shown THEN w[k] ELSE "_"
        /\ \E k \in DOMAIN w : hidden_word[k] = "_"
=============================================================================
