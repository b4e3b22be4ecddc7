----------------------------- MODULE ViewProofs -----------------------------
(***************************************************************************)
(* What the players of a room see, for any number of players, any file of    *)
(* words and any number of messages on the way, in three parts.              *)
(*                                                                         *)
(* The word: after any number of rounds, hints and changes of mind the       *)
(* hidden word shows the letters that were given, where they belong, and     *)
(* hides at least one.  HiddenShowsWord is not inductive: the hint after the *)
(* next one needs the sequence to name different positions of the very word  *)
(* that is selected, and what one round leaves in the counters must not      *)
(* reach the next one.                                                       *)
(*                                                                         *)
(* The match: it keeps its order and its suzerain, and the turns pass over   *)
(* the suzerain.                                                             *)
(*                                                                         *)
(* The screen: the room with its screens is a match and a word, so what is    *)
(* proved of them holds of it; and what is on the way to a screen, drawn in   *)
(* its order over what is there, shows the room as it is.                    *)
(***************************************************************************)
EXTENDS View, TLAPS

LOCAL INSTANCE SequenceTheorems

-----------------------------------------------------------------------------
(* The word. *)

(* The letters that hints have shown belong to the selected word, and the     *)
(* number of hints stays below its length.                                    *)
Counted ==
    /\ selected_word_len \in Nat /\ current_unveil \in Nat
    /\ current_unveil = 0 \/ current_unveil < selected_word_len

(* Every position has its turn in the sequence, and only one. *)
InSequence ==
    /\ unveiling_sequence \in [1 .. selected_word_len -> 1 .. selected_word_len]
    /\ \A i, k \in 1 .. selected_word_len :
          unveiling_sequence[i] = unveiling_sequence[k] => i = k

Drawn3 ==
    /\ words \in [1 .. 3 -> Seq(Letters) \ {<< >>}] /\ selected_word \in 0 .. 3
    /\ chosen => selected_word # 0

Matching ==
    chosen =>
        LET w == words[selected_word] IN
        /\ selected_word_len = Len(w)
        /\ hidden_word =
             [k \in 1 .. Len(w) |-> IF k \in Shown THEN w[k] ELSE "_"]

WInv ==
    /\ Counted /\ InSequence /\ Drawn3 /\ Matching
    /\ chosen \in BOOLEAN /\ hidden_word \in Seq(Cells)

-----------------------------------------------------------------------------
(* pick: the words drawn are words of the file. *)
LEMMA DrawsWords ==
    ASSUME NEW ws, Draws(ws)
    PROVE  ws \in [1 .. 3 -> Seq(Letters) \ {<< >>}]
<1>1. PICK d \in randomSCT(3, Len(File)) : ws = [n \in 1 .. 3 |-> File[d[n]]]
    BY DEF Draws
<1>2. d \in [1 .. 3 -> 1 .. Len(File)]
    BY <1>1 DEF randomSCT
<1>3. \A n \in 1 .. 3 : File[d[n]] \in Seq(Letters) /\ File[d[n]] # << >>
  <2>1. File \in Seq(Seq(Letters)) /\ \A k \in DOMAIN File : File[k] # << >>
      BY WordsAssumption
  <2>2. DOMAIN File = 1 .. Len(File) /\ \A k \in 1 .. Len(File) : File[k] \in Seq(Letters)
      BY <2>1
  <2> QED  BY <1>2, <2>1, <2>2
<1> QED  BY <1>1, <1>3

(* A letter is a cell, a blank and whatever else may stand in memory are, too. *)
LEMMA CellKinds ==
    /\ Letters \subseteq Cells /\ {"_", "wait", "nul", "any"} \subseteq Cells
    /\ \A w \in Seq(Letters), k \in Nat \ {0} : CharAt(w, k) \in Cells
<1>1. Letters \subseteq Cells /\ {"_", "wait", "nul", "any"} \subseteq Cells
    BY DEF Cells
<1>2. ASSUME NEW w \in Seq(Letters), NEW k \in Nat \ {0}
      PROVE  CharAt(w, k) \in Cells
  <2>1. k <= Len(w) => w[k] \in Letters
      OBVIOUS
  <2> QED  BY <1>1, <2>1 DEF CharAt
<1> QED  BY <1>1, <1>2

(* A function from 1 .. n is a sequence. *)
LEMMA FunctionIsSeq == ASSUME NEW S, NEW n \in Nat PROVE [1 .. n -> S] \subseteq Seq(S)
BY SeqDef

LEMMA WaitTextIsText == WaitText \in Seq(Cells)
<1>1. WaitText \in [1 .. WaitCells -> Cells]
    BY CellKinds DEF WaitText
<1> QED  BY <1>1, FunctionIsSeq, WordsAssumption

LEMMA WordsInitInv == WordsInit => WInv
<1> SUFFICES ASSUME WordsInit PROVE WInv
    OBVIOUS
<1>1. words \in [1 .. 3 -> Seq(Letters) \ {<< >>}]
    BY DrawsWords DEF WordsInit
<1>2. WaitText \in Seq(Cells)
    BY WaitTextIsText
<1>3. unveiling_sequence \in [1 .. 0 -> 1 .. 0]
    BY DEF WordsInit
<1>4. selected_word = 1 /\ chosen = FALSE /\ hidden_word = WaitText
      /\ selected_word_len = 0 /\ current_unveil = 0 /\ unveiling_sequence = << >>
    BY DEF WordsInit, WaitText
<1>5. Counted /\ InSequence
    BY <1>3, <1>4 DEF Counted, InSequence
<1>6. Drawn3
    BY <1>1, <1>4 DEF Drawn3
<1>7. Matching
    BY <1>4 DEF Matching
<1> QED  BY <1>2, <1>4, <1>5, <1>6, <1>7 DEF WInv

(* A new round draws other words and forgets that one was chosen. *)
LEMMA NewRoundInv == WInv /\ NewRound => WInv'
<1> SUFFICES ASSUME WInv, NewRound PROVE WInv'
    OBVIOUS
<1>1. words' \in [1 .. 3 -> Seq(Letters) \ {<< >>}]
    BY DrawsWords DEF NewRound
<1>2. WaitText \in Seq(Cells)
    BY WaitTextIsText
<1>3. Counted' /\ InSequence'
    BY DEF NewRound, WInv, Counted, InSequence
<1>4. selected_word' = 1 /\ chosen' = FALSE /\ hidden_word' = WaitText
    BY DEF NewRound, WaitText
<1>5. Drawn3'
    BY <1>1, <1>4 DEF Drawn3
<1>6. Matching'
    BY <1>4 DEF Matching
<1> QED  BY <1>2, <1>3, <1>4, <1>5, <1>6 DEF WInv

(* A word is selected: whatever was counted before starts anew. *)
LEMMA SelectWordInv == ASSUME WInv, NEW n \in 1 .. 3, SelectWord(n) PROVE WInv'
<1> DEFINE w == words[n]
           s == unveiling_sequence'
<1>1. w \in Seq(Letters) /\ w # << >> /\ Len(w) \in Nat \ {0}
    BY DEF WInv, Drawn3
<1>2. s \in [1 .. Len(w) -> 1 .. Len(w)]
      /\ \A i, k \in 1 .. Len(w) : s[i] = s[k] => i = k
    BY DEF SelectWord, randomSCT
<1>3. InSequence'
    BY <1>2 DEF SelectWord, InSequence
<1>4. current_unveil' = (IF 1 < Len(w) THEN 1 ELSE 0)
    BY <1>1 DEF SelectWord, MayHint
<1>5. Counted'
    BY <1>1, <1>4 DEF SelectWord, Counted
<1>6. Drawn3'
    BY DEF SelectWord, WInv, Drawn3
<1>7. hidden_word' = [k \in 1 .. Len(w) |-> IF k \in Shown' THEN w[k] ELSE "_"]
  <2>1. CASE 1 < Len(w)
    <3>1. Shown' = {s[1]}
        BY <1>4, <2>1 DEF Shown
    <3>2. hidden_word' = [Blank(w) EXCEPT ![s[1]] = w[s[1]]]
        BY <1>1, <2>1 DEF SelectWord, MayHint
    <3> QED  BY <3>1, <3>2 DEF Blank
  <2>2. CASE ~(1 < Len(w))
    <3>1. Shown' = {}
        BY <1>4, <2>2 DEF Shown
    <3>2. hidden_word' = Blank(w)
        BY <1>1, <2>2 DEF SelectWord, MayHint
    <3> QED  BY <3>1, <3>2 DEF Blank
  <2> QED  BY <2>1, <2>2
<1>8. hidden_word' \in Seq(Cells)
  <2>1. \A k \in 1 .. Len(w) : w[k] \in Cells /\ "_" \in Cells
      BY <1>1, CellKinds, ElementOfSeq
  <2>2. hidden_word' \in [1 .. Len(w) -> Cells]
      BY <1>7, <2>1
  <2> QED  BY <1>1, <2>2, FunctionIsSeq
<1>9. selected_word_len' = Len(w) /\ words'[selected_word'] = w /\ chosen' \in BOOLEAN
    BY DEF SelectWord
<1>10. Matching'
    BY <1>7, <1>9 DEF Matching
<1> QED  BY <1>3, <1>5, <1>6, <1>8, <1>9, <1>10 DEF WInv

LEMMA SameWordInv == WInv /\ UNCHANGED wordVars => WInv'
<1> SUFFICES ASSUME WInv, UNCHANGED wordVars PROVE WInv'
    OBVIOUS
<1>1. Shown' = Shown
    BY DEF wordVars, Shown
<1>2. Counted' /\ InSequence' /\ Drawn3'
    BY DEF wordVars, WInv, Counted, InSequence, Drawn3
<1>3. Matching'
    BY <1>1 DEF wordVars, WInv, Matching
<1> QED  BY <1>2, <1>3 DEF wordVars, WInv

(* A choice that cannot be read leaves no word. *)
LEMMA SelectUnreadableInv == WInv /\ SelectUnreadable => WInv'
<1> SUFFICES ASSUME WInv, SelectUnreadable PROVE WInv'
    OBVIOUS
<1>1. Counted' /\ InSequence' /\ Drawn3'
    BY DEF SelectUnreadable, WInv, Counted, InSequence, Drawn3
<1>2. Matching'
    BY DEF SelectUnreadable, Matching
<1> QED  BY <1>1, <1>2 DEF SelectUnreadable, WInv

(* One more letter: of the word, when one is chosen, or of whatever stands    *)
(* where a word is expected.                                                 *)
LEMMA GiveHintInv == WInv /\ GiveHint => WInv'
<1> SUFFICES ASSUME WInv, GiveHint PROVE WInv'
    OBVIOUS
<1> DEFINE w == words[selected_word]
           k == unveiling_sequence[current_unveil + 1]
<1>0. selected_word # 0 => w \in Seq(Letters) /\ Len(w) \in Nat
    BY DEF WInv, Drawn3
<1>1. CASE ~MayHint(current_unveil, selected_word_len)
  <2>1. UNCHANGED wordVars
      BY <1>1 DEF GiveHint, addHint, wordVars
  <2> QED  BY <2>1, SameWordInv
<1>2. CASE MayHint(current_unveil, selected_word_len)
  <2>1. current_unveil + 1 \in 1 .. selected_word_len /\ k \in 1 .. selected_word_len
      BY <1>2 DEF WInv, Counted, InSequence, MayHint
  <2>2. current_unveil' = current_unveil + 1
      BY <1>2 DEF GiveHint, addHint
  <2>3. Counted' /\ InSequence' /\ Drawn3'
    <3>1. UNCHANGED <<words, selected_word, chosen, unveiling_sequence, selected_word_len>>
        BY DEF GiveHint
    <3>2. Drawn3' /\ InSequence'
        BY <3>1 DEF WInv, InSequence, Drawn3
    <3>3. Counted'
        BY <3>1, <2>2, <1>2 DEF WInv, Counted, MayHint
    <3> QED  BY <3>2, <3>3
  <2>4. Shown' = Shown \cup {k}
    <3>1. 1 .. current_unveil' = (1 .. current_unveil) \cup {current_unveil + 1}
        BY <2>2 DEF WInv, Counted
    <3> QED  BY <3>1 DEF Shown, GiveHint
  <2>5. IF k \in DOMAIN hidden_word
        THEN hidden_word' = [hidden_word EXCEPT ![k] = HintFrom(k)]
        ELSE hidden_word' = hidden_word
      BY <1>2 DEF GiveHint, addHint
  <2>8. k \in Nat \ {0}
      BY <2>1 DEF WInv, Counted
  <2>6. hidden_word' \in Seq(Cells)
    <3>1. CASE k \in DOMAIN hidden_word
      <4>1. hidden_word' = [hidden_word EXCEPT ![k] = HintFrom(k)]
          BY <2>5, <3>1
      <4>2. HintFrom(k) \in Cells
          BY <1>0, <2>8, CellKinds DEF HintFrom
      <4>3. hidden_word' \in [1 .. Len(hidden_word) -> Cells] /\ Len(hidden_word) \in Nat
        <5>1. hidden_word \in [1 .. Len(hidden_word) -> Cells] /\ Len(hidden_word) \in Nat
            BY LenProperties DEF WInv
        <5> QED  BY <4>1, <4>2, <5>1
      <4> QED  BY <4>3, FunctionIsSeq
    <3> QED  BY <2>5, <3>1 DEF WInv
  <2>7. Matching'
    <3> SUFFICES ASSUME chosen'
                 PROVE  /\ selected_word_len' = Len(w)
                        /\ hidden_word' = [j \in 1 .. Len(w) |->
                                IF j \in Shown' THEN w[j] ELSE "_"]
        BY DEF GiveHint, Matching
    <3>1. /\ selected_word_len = Len(w)
          /\ hidden_word = [j \in 1 .. Len(w) |-> IF j \in Shown THEN w[j] ELSE "_"]
        BY DEF GiveHint, WInv, Matching
    <3>2. HintFrom(k) = w[k] /\ k \in DOMAIN hidden_word
      <4>0. selected_word # 0 /\ Len(w) \in Nat
          BY <1>0 DEF GiveHint, WInv, Drawn3
      <4>1. k <= Len(w) /\ k \in 1 .. Len(w)
        <5>1. selected_word_len = Len(w)
            BY <3>1
        <5> QED  BY <4>0, <2>1, <5>1
      <4>2. DOMAIN hidden_word = 1 .. Len(w)
          BY <3>1
      <4> QED  BY <4>0, <4>1, <4>2 DEF CharAt, HintFrom
    <3>3. hidden_word' = [hidden_word EXCEPT ![k] = w[k]]
        BY <2>5, <3>2
    <3> QED  BY <2>4, <3>1, <3>3 DEF GiveHint
  <2> QED  BY <2>3, <2>6, <2>7 DEF GiveHint, WInv
<1> QED  BY <1>1, <1>2

LEMMA WordsStepInv == WInv /\ [WordsNext]_wordVars => WInv'
<1> SUFFICES ASSUME WInv, [WordsNext]_wordVars PROVE WInv'
    OBVIOUS
<1>1. CASE NewRound   BY <1>1, NewRoundInv
<1>2. ASSUME NEW n \in 1 .. 3, SelectWord(n) PROVE WInv'
    BY <1>2, SelectWordInv
<1>3. CASE GiveHint   BY <1>3, GiveHintInv
<1>4. CASE UNCHANGED wordVars
    BY <1>4, SameWordInv
<1>5. CASE SelectUnreadable   BY <1>5, SelectUnreadableInv
<1> QED  BY <1>1, <1>2, <1>3, <1>4, <1>5 DEF WordsNext

(* The last position of the sequence is never shown, and no other place of    *)
(* the sequence names it.                                                     *)
LEMMA InvHides == WInv => HiddenShowsWord /\ WordsTypeOK
<1> SUFFICES ASSUME WInv PROVE HiddenShowsWord /\ WordsTypeOK
    OBVIOUS
<1>1. WordsTypeOK
    BY DEF WInv, Counted, InSequence, Drawn3, WordsTypeOK
<1>2. ASSUME chosen PROVE HiddenShowsWord
  <2> DEFINE w == words[selected_word]
             last == unveiling_sequence[selected_word_len]
  <2>1. w \in Seq(Letters) /\ w # << >> /\ Len(w) \in Nat \ {0} /\ DOMAIN w = 1 .. Len(w)
      BY <1>2 DEF WInv, Drawn3
  <2>2. /\ selected_word_len = Len(w)
        /\ hidden_word = [k \in 1 .. Len(w) |-> IF k \in Shown THEN w[k] ELSE "_"]
      BY <1>2 DEF WInv, Matching
  <2>5. selected_word_len \in Nat \ {0} /\ current_unveil \in Nat
        /\ current_unveil < selected_word_len
    <3>1. selected_word_len = Len(w)
        BY <2>2
    <3>2. Counted
        BY DEF WInv
    <3> QED  BY <2>1, <3>1, <3>2 DEF Counted
  <2>3. last \in 1 .. selected_word_len
      BY <2>5 DEF WInv, InSequence
  <2>4. last \notin Shown
    <3> SUFFICES ASSUME NEW j \in 1 .. current_unveil PROVE unveiling_sequence[j] # last
        BY DEF Shown
    <3>1. j \in 1 .. selected_word_len /\ j # selected_word_len
          /\ selected_word_len \in 1 .. selected_word_len
        BY <2>5
    <3> QED  BY <3>1 DEF WInv, InSequence
  <2> QED  BY <2>1, <2>2, <2>3, <2>4 DEF HiddenShowsWord
<1> QED  BY <1>1, <1>2 DEF HiddenShowsWord

(* LogicGame.c:28, ThreadRoom.c:295.  For every file of words and any number   *)
(* of rounds: while a word is being guessed the players see its letters that   *)
(* were hinted at, each where it belongs, and at least one blank.              *)
THEOREM WordStaysHidden == WordsSpec => []HiddenShowsWord
<1>1. WordsInit => WInv
    BY WordsInitInv
<1>2. WInv /\ [WordsNext]_wordVars => WInv'
    BY WordsStepInv
<1>3. WInv => HiddenShowsWord
    BY InvHides
<1> QED  BY <1>1, <1>2, <1>3, PTL DEF WordsSpec

(* The words and the sequence of hints have their types; the sequence names    *)
(* every position once.                                                        *)
THEOREM WordsTypeCorrect == WordsSpec => []WordsTypeOK
<1>1. WordsInit => WInv
    BY WordsInitInv
<1>2. WInv /\ [WordsNext]_wordVars => WInv'
    BY WordsStepInv
<1>3. WInv => WordsTypeOK
    BY InvHides
<1> QED  BY <1>1, <1>2, <1>3, PTL DEF WordsSpec

-----------------------------------------------------------------------------
(* The match. *)

MInv == MatchTypeOK /\ MatchInOrder

-----------------------------------------------------------------------------
(* The circle of the players. *)

LEMMA NextFacts ==
    ASSUME MInv, NEW c \in Players
    PROVE  /\ Place(c) \in DOMAIN order /\ order[Place(c)] = c
           /\ Follower(Place(c)) \in DOMAIN order
           /\ NextTo(c) \in Players
           /\ Len(order) > 1 => NextTo(c) # c
           /\ Len(order) = 1 => NextTo(c) = c
<1>1. Place(c) \in DOMAIN order /\ order[Place(c)] = c
    BY DEF Players, Place
<1>2. order \in Seq(Conns) /\ DOMAIN order = 1 .. Len(order) /\ Len(order) \in Nat
    BY DEF MInv, MatchTypeOK
<1>3. Follower(Place(c)) \in 1 .. Len(order)
      /\ (Len(order) > 1 => Follower(Place(c)) # Place(c))
      /\ (Len(order) = 1 => Follower(Place(c)) = Place(c))
    BY <1>1, <1>2 DEF Follower
<1>4. NextTo(c) = order[Follower(Place(c))]
    BY DEF NextTo
<1>5. \A i, k \in DOMAIN order : order[i] = order[k] => i = k
    BY DEF MInv, MatchInOrder
<1> QED  BY <1>1, <1>2, <1>3, <1>4, <1>5 DEF Players

LEMMA WithoutFacts ==
    ASSUME MInv, NEW c \in Players, order' = Without(c)
    PROVE  /\ order' \in Seq(Conns) /\ Len(order') = Len(order) - 1
           /\ Players' = Players \ {c}
           /\ \A i, k \in DOMAIN order' : order'[i] = order'[k] => i = k
<1> DEFINE p == Place(c)
           n == Len(order)
<1>1. p \in 1 .. n /\ order[p] = c /\ n \in Nat \ {0}
      /\ order \in Seq(Conns) /\ DOMAIN order = 1 .. n
    BY NextFacts DEF MInv, MatchTypeOK
<1> HIDE DEF p, n
<1>2. order' = [j \in 1 .. n - 1 |-> IF j < p THEN order[j] ELSE order[j + 1]]
    BY DEF Without, p, n
<1>3. \A j \in 1 .. n - 1 : j \in 1 .. n /\ j + 1 \in 1 .. n
    BY <1>1
<1>4. order' \in [1 .. n - 1 -> Conns]
  <2>1. \A j \in 1 .. n - 1 : order[j] \in Conns /\ order[j + 1] \in Conns
      BY <1>1, <1>3, ElementOfSeq DEF n
  <2> QED  BY <1>2, <2>1
<1>5. order' \in Seq(Conns)
    BY <1>1, <1>4, FunctionIsSeq
<1>6. Len(order') = n - 1 /\ DOMAIN order' = 1 .. n - 1
    BY <1>1, <1>2, <1>5, LenProperties
<1>7. \A i, k \in 1 .. n : order[i] = order[k] => i = k
    BY <1>1 DEF MInv, MatchInOrder
<1>8. \A i, k \in DOMAIN order' : order'[i] = order'[k] => i = k
    BY <1>1, <1>2, <1>3, <1>6, <1>7
<1>9. Players' = {order'[j] : j \in 1 .. n - 1}
    BY <1>6 DEF Players
<1>10. \A j \in 1 .. n - 1 : order'[j] \in Players \ {c}
    BY <1>1, <1>2, <1>3, <1>7 DEF Players
<1>11. ASSUME NEW d \in Players \ {c} PROVE d \in Players'
  <2>1. PICK i \in 1 .. n : order[i] = d
      BY <1>1 DEF Players
  <2>2. CASE i < p
    <3>1. i \in 1 .. n - 1 /\ order'[i] = d
        BY <1>1, <1>2, <2>1, <2>2
    <3> QED  BY <1>9, <3>1
  <2>3. CASE i > p
    <3>1. i - 1 \in 1 .. n - 1 /\ order'[i - 1] = d
        BY <1>1, <1>2, <2>1, <2>3
    <3> QED  BY <1>9, <3>1
  <2>4. i # p
      BY <1>1, <2>1
  <2> QED  BY <1>1, <2>1, <2>2, <2>3, <2>4
<1> QED  BY <1>5, <1>6, <1>8, <1>9, <1>10, <1>11 DEF n

-----------------------------------------------------------------------------
(* The steps of the match. *)

LEMMA EnterInv == ASSUME MInv, NEW c \in Conns, Enter(c) PROVE MInv'
<1> DEFINE n == Len(order)
<1>1. order \in Seq(Conns) /\ n \in Nat /\ DOMAIN order = 1 .. n
    BY DEF MInv, MatchTypeOK
<1>2. order' = Append(order, c) /\ c \notin Players
    BY DEF Enter
<1>3. /\ order' \in Seq(Conns) /\ DOMAIN order' = 1 .. n + 1 /\ Len(order') = n + 1
      /\ \A i \in 1 .. n : order'[i] = order[i]
      /\ order'[n + 1] = c
    BY <1>1, <1>2
<1>4. Players' = Players \cup {c}
  <2>1. Players' = {order'[i] : i \in 1 .. n + 1} /\ Players = {order[i] : i \in 1 .. n}
      BY <1>1, <1>3 DEF Players
  <2> QED  BY <1>1, <1>3, <2>1
<1>5. \A i, k \in DOMAIN order' : order'[i] = order'[k] => i = k
  <2>1. \A i, k \in 1 .. n : order[i] = order[k] => i = k
      BY <1>1 DEF MInv, MatchInOrder
  <2>2. \A i \in 1 .. n : order[i] # c
      BY <1>1, <1>2 DEF Players
  <2> QED  BY <1>1, <1>3, <2>1, <2>2
<1>6. suz' # NULL /\ suz' \in Players' /\ turn' \in Players' \cup {NULL}
    BY <1>4, NobodyAssumption DEF Enter, MInv, MatchInOrder
<1>7. suz' \in Conns \cup {NULL} /\ turn' \in Conns \cup {NULL}
    BY DEF Enter, MInv, MatchTypeOK
<1>8. picked' \in BOOLEAN /\ ended' \in BOOLEAN /\ over' \in BOOLEAN
    BY DEF Enter, MInv, MatchTypeOK
<1> QED  BY <1>3, <1>5, <1>6, <1>7, <1>8 DEF MInv, MatchTypeOK, MatchInOrder

LEMMA PlayersAreConns == MInv => Players \subseteq Conns
  BY ElementOfSeq DEF MInv, MatchTypeOK, Players

LEMMA SuzInPlayers ==
    MInv => /\ suz # NULL => suz \in Players
            /\ turn # NULL => turn \in Players
            /\ Len(order) > 1 => suz # NULL
  BY DEF MInv, MatchInOrder

(* The handlers that leave the order alone: what they make of suzerain and    *)
(* turn are players again.                                                    *)
LEMMA SameOrderInv ==
    ASSUME MInv, order' = order,
           suz' \in Players \cup {NULL}, turn' \in Players \cup {NULL},
           Len(order) > 1 => suz' # NULL,
           picked' \in BOOLEAN, ended' \in BOOLEAN, over' \in BOOLEAN
    PROVE  MInv'
<1>1. Players' = Players
    BY DEF Players
<1> QED  BY <1>1, PlayersAreConns DEF MInv, MatchTypeOK, MatchInOrder

LEMMA AfterFacts ==
    ASSUME MInv, turn # NULL
    PROVE  After(turn, suz) \in Players
           /\ (Len(order) > 1 => After(turn, suz) # suz)
<1>1. turn \in Players /\ NextTo(turn) \in Players
    BY SuzInPlayers, NextFacts
<1>2. CASE NextTo(turn) = suz
    BY <1>1, <1>2, NextFacts DEF After
<1>3. CASE NextTo(turn) # suz
    BY <1>1, <1>3 DEF After
<1> QED  BY <1>2, <1>3

LEMMA PartFacts ==
    ASSUME MInv, NEW c \in Conns, Part(c)
    PROVE  /\ c \in Players /\ Len(order) > 1
           /\ suz' \in Players \ {c} /\ suz' = SuzWithout(c)
           /\ turn' \in (Players \ {c}) \cup {NULL}
           /\ turn' # turn => turn' # suz' \/ turn' = NULL
<1>1. c \in Players /\ Len(order) > 1 /\ suz' = SuzWithout(c) /\ turn' = TurnWithout(c)
    BY DEF Part
<1>2. SuzWithout(c) \in Players \ {c}
  <2>1. suz # NULL /\ suz \in Players
      BY <1>1, SuzInPlayers
  <2> QED  BY <1>1, <2>1, NextFacts DEF SuzWithout
<1>3. /\ After(c, SuzWithout(c)) \in Players
      /\ After(c, SuzWithout(c)) # SuzWithout(c)
  <2>1. CASE NextTo(c) = SuzWithout(c)
      BY <1>1, <1>2, <2>1, NextFacts DEF After
  <2>2. CASE NextTo(c) # SuzWithout(c)
      BY <1>1, <2>2, NextFacts DEF After
  <2> QED  BY <2>1, <2>2
<1>4. turn # c => turn \in (Players \ {c}) \cup {NULL}
    BY SuzInPlayers
<1> QED  BY <1>1, <1>2, <1>3, <1>4 DEF TurnWithout

LEMMA PartInv == ASSUME MInv, NEW c \in Conns, Part(c) PROVE MInv'
<1>1. order' = Without(c) /\ c \in Players
    BY DEF Part
<1>2. /\ order' \in Seq(Conns) /\ Players' = Players \ {c}
      /\ \A i, k \in DOMAIN order' : order'[i] = order'[k] => i = k
    BY <1>1, WithoutFacts
<1>3. suz' \in Players' /\ turn' \in Players' \cup {NULL}
    BY <1>2, PartFacts
<1>4. suz' \in Conns /\ suz' # NULL /\ turn' \in Conns \cup {NULL}
    BY <1>2, <1>3, PlayersAreConns, NobodyAssumption
<1>5. picked' \in BOOLEAN /\ ended' \in BOOLEAN /\ over' \in BOOLEAN
    BY DEF Part, MInv, MatchTypeOK
<1> QED  BY <1>2, <1>3, <1>4, <1>5 DEF MInv, MatchTypeOK, MatchInOrder

LEMMA MatchStepInv == MInv /\ [MatchNext]_matchVars => MInv'
<1> SUFFICES ASSUME MInv, [MatchNext]_matchVars PROVE MInv'
    OBVIOUS
<1>1. /\ suz \in Players \cup {NULL} /\ turn \in Players \cup {NULL}
      /\ Len(order) > 1 => suz # NULL
      /\ picked \in BOOLEAN /\ ended \in BOOLEAN /\ over \in BOOLEAN
    BY DEF MInv, MatchTypeOK, MatchInOrder
<1>2. CASE StartRound
    BY <1>1, <1>2, SameOrderInv DEF StartRound
<1>3. ASSUME NEW c \in Conns, Enter(c) PROVE MInv'
    BY <1>3, EnterInv
<1>4. ASSUME NEW c \in Conns, Win(c) PROVE MInv'
  <2>1. c # NULL
      BY NobodyAssumption
  <2> QED  BY <1>1, <1>4, <2>1, SameOrderInv DEF Win
<1>5. ASSUME NEW c \in Conns, Part(c) PROVE MInv'
    BY <1>5, PartInv
<1>6. CASE Choose
  <2>1. NextTo(suz) \in Players
      BY <1>6, SuzInPlayers, NextFacts DEF Choose
  <2> QED  BY <1>1, <1>6, <2>1, SameOrderInv DEF Choose
<1>7. CASE ChooseAgain
    BY <1>1, <1>7, SameOrderInv DEF ChooseAgain
<1>8. CASE Miss
    BY <1>1, <1>8, AfterFacts, SameOrderInv DEF Miss
<1>9. CASE TurnExpires
    BY <1>1, <1>9, AfterFacts, SameOrderInv DEF TurnExpires
<1>10. CASE ChoiceExpires
  <2>1. suz \in Players
      BY <1>10, SuzInPlayers DEF ChoiceExpires
  <2>2. Heir(suz) \in Players \cup {NULL}
      BY <2>1, NextFacts DEF Heir
  <2>3. Len(order) > 1 => Heir(suz) # NULL
      BY <2>1, NextFacts, PlayersAreConns, NobodyAssumption DEF Heir
  <2> QED  BY <1>1, <1>10, <2>2, <2>3, SameOrderInv DEF ChoiceExpires
<1>11. CASE CloseMatch
  <2>1. order' = << >> /\ suz' = NULL /\ turn' = NULL
        /\ picked' = FALSE /\ ended' = FALSE /\ over' = TRUE
      BY <1>11 DEF CloseMatch
  <2>2. order' \in Seq(Conns) /\ DOMAIN order' = {} /\ ~(Len(order') > 1)
      BY <2>1
  <2> QED  BY <2>1, <2>2 DEF MInv, MatchTypeOK, MatchInOrder
<1>12. CASE UNCHANGED matchVars
    BY <1>1, <1>12, SameOrderInv DEF matchVars
<1> QED  BY <1>2, <1>3, <1>4, <1>5, <1>6, <1>7, <1>8, <1>9, <1>10, <1>11, <1>12
         DEF MatchNext

LEMMA MatchInitInv == MatchInit => MInv
<1> SUFFICES ASSUME MatchInit PROVE MInv
    OBVIOUS
<1>1. order = << >> /\ suz = NULL /\ turn = NULL
      /\ picked = FALSE /\ ended = TRUE /\ over = FALSE
    BY DEF MatchInit
<1>2. order \in Seq(Conns) /\ DOMAIN order = {} /\ ~(Len(order) > 1)
    BY <1>1
<1> QED  BY <1>1, <1>2 DEF MInv, MatchTypeOK, MatchInOrder

(* moveSuzerainTurn, movePlayerTurn.  In a match of any number of players      *)
(* nobody is twice, the suzerain and the holder of the turn are players, and   *)
(* two players are never without a suzerain.                                   *)
THEOREM MatchKeepsOrder == MatchSpec => []MatchInOrder
<1>1. MInv => MatchInOrder
    BY DEF MInv
<1> QED  BY <1>1, MatchInitInv, MatchStepInv, PTL DEF MatchSpec

LEMMA TurnStep == MInv /\ [MatchNext]_matchVars
                    => [turn' # turn /\ Len(order') > 1
                            => turn' # suz' \/ turn' = NULL]_matchVars
<1> SUFFICES ASSUME MInv, MatchNext, turn' # turn, Len(order') > 1
             PROVE  turn' # suz' \/ turn' = NULL
    OBVIOUS
<1>1. ASSUME NEW c \in Conns, Enter(c) PROVE turn' # suz' \/ turn' = NULL
  <2>1. suz # NULL /\ turn' = c /\ suz' = suz /\ c \notin Players
      BY <1>1 DEF Enter
  <2> QED  BY <2>1, SuzInPlayers
<1>2. ASSUME NEW c \in Conns, Part(c) PROVE turn' # suz' \/ turn' = NULL
    BY <1>2, PartFacts
<1>3. CASE Choose
    BY <1>3, SuzInPlayers, NextFacts DEF Choose
<1>4. CASE Miss \/ TurnExpires
    BY <1>4, AfterFacts DEF Miss, TurnExpires
<1>5. CASE CloseMatch
    BY <1>5 DEF CloseMatch
<1>6. (StartRound \/ (\E c \in Conns : Win(c)) \/ ChooseAgain \/ ChoiceExpires)
        => turn' = turn
    BY DEF StartRound, Win, ChooseAgain, ChoiceExpires
<1> QED  BY <1>1, <1>2, <1>3, <1>4, <1>5, <1>6 DEF MatchNext

(* The turn is never passed to the suzerain of a match of two or more. *)
THEOREM TurnsSkipSuzerain == MatchSpec => TurnSkipsSuzerain
<1> QED  BY MatchInitInv, MatchStepInv, TurnStep, PTL DEF MatchSpec, TurnSkipsSuzerain

-----------------------------------------------------------------------------
(* The room with its screens. *)

LEMMA ViewStepParts ==
    [ViewNext]_vars => [MatchNext]_matchVars /\ [WordsNext]_wordVars
<1> SUFFICES ASSUME [ViewNext]_vars
             PROVE  [MatchNext]_matchVars /\ [WordsNext]_wordVars
    OBVIOUS
<1>1. CASE RoundStarts
    BY <1>1 DEF RoundStarts, MatchNext, WordsNext
<1>2. CASE SuzerainAsked \/ Reads
    BY <1>2 DEF SuzerainAsked, Reads
<1>3. ASSUME NEW c \in Conns, Joins(c) \/ GuessRight(c)
      PROVE  [MatchNext]_matchVars /\ [WordsNext]_wordVars
    BY <1>3 DEF Joins, GuessRight, SameWord, MatchNext
<1>4. ASSUME NEW c \in Conns, Leaves(c)
      PROVE  [MatchNext]_matchVars /\ [WordsNext]_wordVars
    BY <1>4 DEF Leaves, SameWord, MatchNext, WordsNext
<1>5. ASSUME NEW n \in 1 .. 3, WordChosen(n)
      PROVE  [MatchNext]_matchVars /\ [WordsNext]_wordVars
    BY <1>5 DEF WordChosen, MatchNext, WordsNext
<1>6. CASE WordUnreadable \/ SuzerainLate
    BY <1>6 DEF WordUnreadable, SuzerainLate, SameWord, MatchNext, WordsNext
<1>7. CASE TurnMoves
    BY <1>7 DEF TurnMoves, SameWord, MatchNext, WordsNext
<1>8. CASE Closes
    BY <1>8 DEF Closes, MatchNext
<1>9. CASE UNCHANGED vars
    BY <1>9 DEF vars
<1> QED  BY <1>1, <1>2, <1>3, <1>4, <1>5, <1>6, <1>7, <1>8, <1>9 DEF ViewNext

(* The room with its messages and screens is a match and a word, composed:     *)
(* every step is a step of the one, of the other, of both or of neither.       *)
THEOREM ViewComposes == ViewSpec => MatchSpec /\ WordsSpec
<1>1. ViewInit => MatchInit /\ WordsInit
    BY DEF ViewInit
<1> QED  BY <1>1, ViewStepParts, PTL DEF ViewSpec, MatchSpec, WordsSpec

-----------------------------------------------------------------------------
(* What is on the way to a screen. *)

Screens == [suz : Conns \cup {NULL}, players : Seq(Conns), text : Seq(Seq(Cells))]

Texts == [sig : {"NEWHINT", "CHOOSEWORD"}, text : Seq(Seq(Cells))]

Infos == [sig : {"ROOMOK", "NEWGAME", "PLAYERUPDATE"}, suz : Conns \cup {NULL},
          players : Seq(Conns), text : Seq(Seq(Cells))]

Messages == Texts \cup Infos

LEMMA DrawnScreen ==
    ASSUME NEW f \in Screens, NEW m \in Messages
    PROVE  Drawn(f, m) \in Screens
<1>1. CASE m \in Texts
    BY <1>1 DEF Texts, Screens, Drawn, updateWord
<1>2. CASE m \in Infos
    BY <1>2 DEF Infos, Screens, Drawn, updatePlayer, renderRoom
<1> QED  BY <1>1, <1>2 DEF Messages

(* h tells what the screen s shows after each of the messages u. *)
Story(h, u, s) ==
    /\ h \in Seq(Screens) /\ Len(h) = Len(u) + 1
    /\ h[1] = s
    /\ \A i \in 1 .. Len(u) : h[i + 1] = Drawn(h[i], u[i])

(* The messages u make f of the screen s. *)
Becomes(f, u, s) == \E h : Story(h, u, s) /\ h[Len(u) + 1] = f

LEMMA NothingToRead == ASSUME NEW f, NEW s, Becomes(f, << >>, s) PROVE f = s
  BY DEF Becomes, Story

LEMMA NothingWritten == ASSUME NEW s \in Screens PROVE Becomes(s, << >>, s)
<1>1. << s >> \in Seq(Screens) /\ Len(<< s >>) = 1 /\ << s >>[1] = s
    OBVIOUS
<1>2. Story(<< s >>, << >>, s) /\ << s >>[Len(<< >>) + 1] = s
    BY <1>1 DEF Story
<1> QED  BY <1>2 DEF Becomes

(* A message more: it is drawn over what the screen is going to show. *)
LEMMA MessageWritten ==
    ASSUME NEW f, NEW s, NEW u \in Seq(Messages), NEW m \in Messages, Becomes(f, u, s)
    PROVE  /\ u \o << m >> \in Seq(Messages) /\ Len(u \o << m >>) = Len(u) + 1
           /\ f \in Screens /\ Drawn(f, m) \in Screens
           /\ Becomes(Drawn(f, m), u \o << m >>, s)
<1> DEFINE v == u \o << m >>
           n == Len(u)
<1>1. PICK h : Story(h, u, s) /\ h[n + 1] = f
    BY DEF Becomes
<1>2. n \in Nat /\ h \in Seq(Screens) /\ Len(h) = n + 1
    BY <1>1 DEF Story
<1>3. f \in Screens /\ Drawn(f, m) \in Screens
    BY <1>1, <1>2, DrawnScreen
<1>4. v \in Seq(Messages) /\ Len(v) = n + 1 /\ v[n + 1] = m
      /\ \A i \in 1 .. n : v[i] = u[i]
    BY <1>2
<1> DEFINE g == Append(h, Drawn(f, m))
<1>5. g \in Seq(Screens) /\ Len(g) = n + 2 /\ g[n + 2] = Drawn(f, m)
      /\ \A i \in 1 .. n + 1 : g[i] = h[i]
    BY <1>2, <1>3
<1> HIDE DEF v, n, g
<1>6. ASSUME NEW i \in 1 .. n + 1 PROVE g[i + 1] = Drawn(g[i], v[i])
  <2>1. CASE i \in 1 .. n
    <3>1. i + 1 \in 1 .. n + 1
        BY <1>2, <2>1
    <3> QED  BY <1>1, <1>4, <1>5, <2>1, <3>1 DEF Story, n
  <2>2. CASE i = n + 1
    <3>1. n + 1 \in 1 .. n + 1 /\ i + 1 = n + 2
        BY <1>2, <2>2
    <3> QED  BY <1>1, <1>4, <1>5, <2>2, <3>1
  <2> QED  BY <1>2, <2>1, <2>2
<1>7. g[1] = s
  <2>1. 1 \in 1 .. n + 1
      BY <1>2
  <2> QED  BY <1>1, <1>5, <2>1 DEF Story
<1>8. Story(g, v, s) /\ g[Len(v) + 1] = Drawn(f, m)
  <2>1. Len(v) + 1 = n + 2
      BY <1>2, <1>4
  <2> QED  BY <1>4, <1>5, <1>6, <1>7, <2>1 DEF Story
<1> QED  BY <1>3, <1>4, <1>8 DEF Becomes, v, n

(* A message less: it is on the screen now. *)
LEMMA MessageRead ==
    ASSUME NEW f, NEW s, NEW u \in Seq(Messages), u # << >>, Becomes(f, u, s)
    PROVE  /\ Tail(u) \in Seq(Messages) /\ Len(Tail(u)) = Len(u) - 1
           /\ Drawn(s, Head(u)) \in Screens
           /\ Becomes(f, Tail(u), Drawn(s, Head(u)))
<1> DEFINE v == Tail(u)
           n == Len(u)
<1>1. PICK h : Story(h, u, s) /\ h[n + 1] = f
    BY DEF Becomes
<1>2. n \in Nat \ {0} /\ h \in Seq(Screens) /\ Len(h) = n + 1
    BY <1>1 DEF Story
<1>3. v \in Seq(Messages) /\ Len(v) = n - 1 /\ Head(u) = u[1]
      /\ \A i \in 1 .. n - 1 : v[i] = u[i + 1]
    BY <1>2
<1> DEFINE g == Tail(h)
<1>4. g \in Seq(Screens) /\ Len(g) = n /\ \A i \in 1 .. n : g[i] = h[i + 1]
    BY <1>2
<1> HIDE DEF v, n, g
<1>5. h[2] = Drawn(s, Head(u)) /\ h[2] \in Screens
  <2>1. 1 \in 1 .. n /\ 2 \in 1 .. n + 1 /\ 1 + 1 = 2
      BY <1>2
  <2> QED  BY <1>1, <1>2, <1>3, <2>1 DEF Story, n
<1>6. ASSUME NEW i \in 1 .. n - 1 PROVE g[i + 1] = Drawn(g[i], v[i])
  <2>1. i \in 1 .. n /\ i + 1 \in 1 .. n
      BY <1>2
  <2> QED  BY <1>1, <1>3, <1>4, <2>1 DEF Story, n
<1>7. Story(g, v, h[2]) /\ g[Len(v) + 1] = f
  <2>1. Len(v) + 1 = n /\ 1 \in 1 .. n /\ n \in 1 .. n
      BY <1>2, <1>3
  <2> QED  BY <1>1, <1>3, <1>4, <1>6, <2>1 DEF Story
<1> QED  BY <1>3, <1>5, <1>7 DEF Becomes, v, n

-----------------------------------------------------------------------------
(* The circle of the players. *)

LEMMA Modulus ==
    ASSUME NEW n \in Nat \ {0}
    PROVE  /\ \A a \in Nat : a % n \in 0 .. n - 1
           /\ \A a \in 0 .. n - 1 : a % n = a /\ (a + n) % n = a
  OBVIOUS

(* Everybody is in it, whoever it begins with. *)
LEMMA CircleFacts ==
    ASSUME MInv, NEW c \in Players
    PROVE  /\ Circle(c) \in Seq(Conns)
           /\ {Circle(c)[k] : k \in DOMAIN Circle(c)} = Players
<1> DEFINE n == Len(order)
           p == Place(c)
           C == Circle(c)
<1>1. p \in 1 .. n /\ n \in Nat \ {0} /\ DOMAIN order = 1 .. n
      /\ \A i \in 1 .. n : order[i] \in Conns
    BY NextFacts DEF MInv, MatchTypeOK
<1>2. C = [j \in 1 .. n |-> order[((p + j - 2) % n) + 1]]
    BY DEF Circle
<1> HIDE DEF n, p, C
<1>3. \A j \in 1 .. n : ((p + j - 2) % n) + 1 \in 1 .. n
  <2> SUFFICES ASSUME NEW j \in 1 .. n PROVE ((p + j - 2) % n) + 1 \in 1 .. n
      OBVIOUS
  <2>1. p + j - 2 \in Nat
      BY <1>1
  <2>2. (p + j - 2) % n \in 0 .. n - 1
      BY <1>1, <2>1, Modulus
  <2> QED  BY <1>1, <2>2
<1>4. C \in [1 .. n -> Conns]
    BY <1>1, <1>2, <1>3
<1>5. C \in Seq(Conns) /\ DOMAIN C = 1 .. n
    BY <1>1, <1>4, FunctionIsSeq
<1>6. \A i \in 1 .. n : \E j \in 1 .. n : C[j] = order[i]
  <2> SUFFICES ASSUME NEW i \in 1 .. n PROVE \E j \in 1 .. n : C[j] = order[i]
      OBVIOUS
  <2>1. i - 1 \in 0 .. n - 1
      BY <1>1
  <2>2. CASE i >= p
    <3>1. i - p + 1 \in 1 .. n /\ p + (i - p + 1) - 2 = i - 1
        BY <1>1, <2>2
    <3>2. (p + (i - p + 1) - 2) % n = i - 1
        BY <1>1, <2>1, <3>1, Modulus
    <3>3. C[i - p + 1] = order[(i - 1) + 1] /\ (i - 1) + 1 = i
        BY <1>2, <3>1, <3>2
    <3> QED  BY <3>1, <3>3
  <2>3. CASE i < p
    <3>1. i - p + 1 + n \in 1 .. n /\ p + (i - p + 1 + n) - 2 = (i - 1) + n
        BY <1>1, <2>3
    <3>2. (p + (i - p + 1 + n) - 2) % n = i - 1
        BY <1>1, <2>1, <3>1, Modulus
    <3>3. C[i - p + 1 + n] = order[(i - 1) + 1] /\ (i - 1) + 1 = i
        BY <1>2, <3>1, <3>2
    <3> QED  BY <3>1, <3>3
  <2> QED  BY <1>1, <2>2, <2>3
<1>7. Players = {order[i] : i \in 1 .. n}
    BY <1>1 DEF Players
<1>8. {C[k] : k \in DOMAIN C} = Players
  <2>1. ASSUME NEW k \in 1 .. n PROVE \E i \in 1 .. n : C[k] = order[i]
    <3>1. C[k] = order[((p + k - 2) % n) + 1]
        BY <1>2
    <3> QED  BY <1>3, <3>1
  <2>2. \A x \in {C[k] : k \in DOMAIN C} : x \in Players
      BY <1>5, <1>7, <2>1
  <2>3. ASSUME NEW x \in Players PROVE x \in {C[k] : k \in DOMAIN C}
    <3>1. PICK i \in 1 .. n : x = order[i]
        BY <1>7
    <3>2. PICK k \in 1 .. n : C[k] = order[i]
        BY <1>6
    <3>3. k \in DOMAIN C
        BY <1>5
    <3> QED  BY <3>1, <3>2, <3>3
  <2> QED  BY <2>2, <2>3
<1> QED  BY <1>5, <1>8 DEF C

CircleInv ==
    MInv => \A c \in Players :
        /\ Circle(c) \in Seq(Conns)
        /\ {Circle(c)[k] : k \in DOMAIN Circle(c)} = Players

LEMMA CircleAlways == CircleInv /\ CircleInv'
<1>1. CircleInv
    BY CircleFacts DEF CircleInv
<1> QED  BY <1>1, PTL

-----------------------------------------------------------------------------
(* What every screen is going to show.                                       *)

(* f is right about the room: about its players always, about its match and   *)
(* its word while one is being guessed, and about the words to choose from    *)
(* when Viewer was sent them.                                                *)
Right(f) ==
    Viewer \in Players =>
        /\ {f.players[k] : k \in DOMAIN f.players} = Players
        /\ picked /\ ~ended =>
              f = [suz |-> suz, players |-> Circle(suz), text |-> <<hidden_word>>]
        /\ asked /\ ~picked /\ ~ended /\ suz = Viewer =>
              (Len(f.text) = 3 => f.text = words)

SeenType ==
    /\ asked \in BOOLEAN
    /\ unread \in Seq(Messages) /\ Len(unread) <= MaxUnread + 1
    /\ screen \in Screens

(* The screen may be behind, but what is on the way to it makes it right.     *)
Seen == \E f \in Screens : Becomes(f, unread, screen) /\ Right(f)

VInv == MInv /\ WInv /\ SeenType /\ Seen

(* A handler of the room tells its players with one message, or with none, or *)
(* with two.                                                                 *)
LEMMA Unwritten ==
    ASSUME SeenType, asked' \in BOOLEAN, UNCHANGED <<unread, screen>>,
           NEW f \in Screens, Becomes(f, unread, screen), Right(f)'
    PROVE  SeenType' /\ Seen'
  BY DEF SeenType, Seen

LEMMA Written ==
    ASSUME SeenType, asked' \in BOOLEAN, UNCHANGED screen,
           NEW f \in Screens, Becomes(f, unread, screen),
           NEW m \in Messages, Len(unread) < MaxUnread, unread' = unread \o << m >>,
           Right(Drawn(f, m))'
    PROVE  SeenType' /\ Seen'
<1>1. /\ unread' \in Seq(Messages) /\ Len(unread') = Len(unread) + 1
      /\ Drawn(f, m) \in Screens /\ Becomes(Drawn(f, m), unread', screen)
    BY MessageWritten DEF SeenType
<1>2. Len(unread) \in Nat /\ MaxUnread \in Nat
    BY ViewerAssumption DEF SeenType
<1> QED  BY <1>1, <1>2 DEF SeenType, Seen

LEMMA WrittenTwice ==
    ASSUME SeenType, asked' \in BOOLEAN, UNCHANGED screen,
           NEW f \in Screens, Becomes(f, unread, screen),
           NEW m \in Messages, NEW k \in Messages,
           Len(unread) < MaxUnread, unread' = unread \o (<< m >> \o << k >>),
           Right(Drawn(Drawn(f, m), k))'
    PROVE  SeenType' /\ Seen'
<1> DEFINE u == unread \o << m >>
<1>1. /\ u \in Seq(Messages) /\ Len(u) = Len(unread) + 1
      /\ Drawn(f, m) \in Screens /\ Becomes(Drawn(f, m), u, screen)
    BY MessageWritten DEF SeenType
<1>2. unread' = u \o << k >>
    BY DEF SeenType
<1> HIDE DEF u
<1>3. /\ unread' \in Seq(Messages) /\ Len(unread') = Len(u) + 1
      /\ Drawn(Drawn(f, m), k) \in Screens
      /\ Becomes(Drawn(Drawn(f, m), k), unread', screen)
    BY <1>1, <1>2, MessageWritten
<1>4. Len(unread) \in Nat /\ MaxUnread \in Nat
    BY ViewerAssumption DEF SeenType
<1> QED  BY <1>1, <1>3, <1>4 DEF SeenType, Seen

(* Whoever goes home sees the home page, and is told nothing more.           *)
LEMMA GoesHome ==
    ASSUME asked' \in BOOLEAN, unread' = << >>, screen' = Home, Viewer \notin Players'
    PROVE  SeenType' /\ Seen'
<1>1. Home \in Screens
    BY DEF Home, Screens
<1>2. << >> \in Seq(Messages) /\ Len(<< >>) = 0 /\ MaxUnread \in Nat
    BY ViewerAssumption
<1>3. Becomes(Home, << >>, Home) /\ Right(Home)'
    BY <1>1, NothingWritten DEF Right
<1> QED  BY <1>1, <1>2, <1>3 DEF SeenType, Seen

(* getRoomInfo and the hints write what a message may hold.                   *)
LEMMA MessageTypes ==
    ASSUME MInv', WInv', suz' \in Players', NEW sig \in {"ROOMOK", "NEWGAME", "PLAYERUPDATE"}
    PROVE  /\ RoomInfo(sig) \in Infos
           /\ RoomInfo(sig).suz = suz' /\ RoomInfo(sig).players = Circle(suz)'
           /\ RoomInfo(sig).text = <<hidden_word'>>
           /\ {RoomInfo(sig).players[k] : k \in DOMAIN RoomInfo(sig).players} = Players'
<1>1. Circle(suz)' \in Seq(Conns) /\ {Circle(suz)'[k] : k \in DOMAIN Circle(suz)'} = Players'
    BY CircleAlways DEF CircleInv
<1>2. suz' \in Conns \cup {NULL} /\ <<hidden_word'>> \in Seq(Seq(Cells))
    BY DEF MInv, MatchTypeOK, WInv
<1>3. RoomInfo(sig) = [sig |-> sig, suz |-> suz', players |-> Circle(suz)',
                       text |-> <<hidden_word'>>]
    BY DEF RoomInfo
<1> HIDE DEF RoomInfo
<1> QED  BY <1>1, <1>2, <1>3 DEF Infos

LEMMA TextTypes ==
    /\ WInv' => Hint \in Texts /\ Hint.sig = "NEWHINT" /\ Hint.text = <<hidden_word'>>
    /\ WInv => Offer \in Texts /\ Offer.sig = "CHOOSEWORD" /\ Offer.text = words
<1>1. ASSUME WInv' PROVE Hint \in Texts /\ Hint.sig = "NEWHINT" /\ Hint.text = <<hidden_word'>>
  <2>1. <<hidden_word'>> \in Seq(Seq(Cells))
      BY <1>1 DEF WInv
  <2> QED  BY <2>1 DEF Hint, Texts
<1>2. ASSUME WInv PROVE Offer \in Texts /\ Offer.sig = "CHOOSEWORD" /\ Offer.text = words
  <2>1. \A w \in Seq(Letters) : w \in Seq(Cells)
    <3> SUFFICES ASSUME NEW w \in Seq(Letters) PROVE w \in Seq(Cells)
        OBVIOUS
    <3>1. w \in [1 .. Len(w) -> Cells] /\ Len(w) \in Nat
        BY CellKinds, LenProperties, ElementOfSeq
    <3> QED  BY <3>1, FunctionIsSeq
  <2>2. words \in [1 .. 3 -> Seq(Cells)]
      BY <1>2, <2>1 DEF WInv, Drawn3
  <2>3. words \in Seq(Seq(Cells))
      BY <2>2, FunctionIsSeq
  <2> QED  BY <2>3 DEF Offer, Texts
<1> QED  BY <1>1, <1>2

(* What the layouts make of the four kinds of message.                        *)
LEMMA Drawings ==
    ASSUME NEW f \in Screens, NEW m
    PROVE  /\ m.sig \in {"ROOMOK", "NEWGAME"} =>
                 Drawn(f, m) = [suz |-> m.suz, players |-> m.players, text |-> m.text]
           /\ m.sig = "PLAYERUPDATE" =>
                 Drawn(f, m) = [suz |-> f.suz, players |-> m.players, text |-> f.text]
           /\ m.sig \in {"NEWHINT", "CHOOSEWORD"} =>
                 Drawn(f, m) = [suz |-> f.suz, players |-> f.players, text |-> m.text]
  BY DEF Drawn, renderRoom, updatePlayer, updateWord, Screens

LEMMA JoinsSeen ==
    ASSUME VInv, MInv', WInv', NEW c \in Conns, Joins(c)
    PROVE  SeenType' /\ Seen'
<1>1. PICK f \in Screens : Becomes(f, unread, screen) /\ Right(f)
    BY DEF VInv, Seen
<1>2. /\ Enter(c) /\ SameWord /\ UNCHANGED <<asked, screen>>
      /\ suz' # NULL /\ suz' \in Players' /\ SeenType
  <2>1. Enter(c) /\ SameWord /\ UNCHANGED <<asked, screen>>
      BY DEF Joins
  <2>2. suz' # NULL
      BY <2>1, NobodyAssumption DEF Enter
  <2> QED  BY <2>1, <2>2 DEF VInv, MInv, MatchInOrder
<1>3. Players' = Players \cup {c} /\ asked' \in BOOLEAN
  <2>1. order' = Append(order, c) /\ order \in Seq(Conns)
      BY <1>2 DEF Enter, VInv, MInv, MatchTypeOK
  <2>2. /\ DOMAIN order = 1 .. Len(order) /\ DOMAIN order' = 1 .. Len(order) + 1
        /\ Len(order) \in Nat /\ order'[Len(order) + 1] = c
        /\ \A i \in 1 .. Len(order) : order'[i] = order[i]
      BY <2>1
  <2> QED  BY <1>2, <2>2 DEF Players, SeenType
<1>4. CASE Viewer \notin Players'
  <2>1. unread' = unread /\ Right(f)'
      BY <1>4 DEF Joins, Write, Right
  <2> QED  BY <1>1, <1>2, <1>3, <2>1, Unwritten
<1>5. CASE Viewer \in Players' /\ Viewer = c
  <2>0. PICK m : m = RoomInfo("ROOMOK")
      OBVIOUS
  <2>1. Len(unread) < MaxUnread /\ unread' = unread \o << m >>
      BY <2>0, <1>5 DEF Joins, Write
  <2>2. /\ m \in Messages /\ m.sig = "ROOMOK"
        /\ {m.players[k] : k \in DOMAIN m.players} = Players'
        /\ m.suz = suz' /\ m.players = Circle(suz)' /\ m.text = <<hidden_word'>>
      BY <1>2, <2>0, MessageTypes DEF Messages, RoomInfo
  <2>3. Drawn(f, m) = [suz |-> suz', players |-> m.players, text |-> <<hidden_word'>>]
      BY <1>1, <2>2, Drawings
  <2>4. Right(Drawn(f, m))'
      BY <2>2, <2>3 DEF Right
  <2> QED  BY <1>1, <1>2, <1>3, <2>1, <2>2, <2>4, Written
<1>6. CASE Viewer \in Players' /\ Viewer # c
  <2>0. PICK m : m = RoomInfo("PLAYERUPDATE")
      OBVIOUS
  <2>1. Len(unread) < MaxUnread /\ unread' = unread \o << m >>
      BY <2>0, <1>6 DEF Joins, Write
  <2>2. /\ m \in Messages /\ m.sig = "PLAYERUPDATE"
        /\ {m.players[k] : k \in DOMAIN m.players} = Players'
        /\ m.suz = suz' /\ m.players = Circle(suz)' /\ m.text = <<hidden_word'>>
      BY <1>2, <2>0, MessageTypes DEF Messages, RoomInfo
  <2>3. Drawn(f, m) = [suz |-> f.suz, players |-> m.players, text |-> f.text]
      BY <1>1, <2>2, Drawings
  <2>4. /\ ended' = ended
        /\ suz # NULL => suz' = suz /\ picked' = picked
        /\ suz = NULL => picked' = FALSE /\ suz' = c
        /\ UNCHANGED <<words, hidden_word>>
      BY <1>2 DEF Enter, SameWord, wordVars, VInv, MInv, MatchTypeOK
  <2>5. ASSUME picked', ~ended' PROVE f.suz = suz' /\ f.text = <<hidden_word'>>
    <3>1. Viewer \in Players /\ picked /\ ~ended /\ suz' = suz /\ hidden_word' = hidden_word
        BY <1>3, <1>6, <2>4, <2>5
    <3>2. f = [suz |-> suz, players |-> Circle(suz), text |-> <<hidden_word>>]
        BY <1>1, <3>1 DEF Right
    <3> QED  BY <3>1, <3>2
  <2>6. asked' /\ ~picked' /\ ~ended' /\ suz' = Viewer => (Len(f.text) = 3 => f.text = words')
      BY <1>1, <1>2, <1>3, <1>6, <2>4 DEF Right
  <2>7. Right(Drawn(f, m))'
      BY <2>2, <2>3, <2>5, <2>6 DEF Right
  <2> QED  BY <1>1, <1>2, <1>3, <2>1, <2>2, <2>7, Written
<1> QED  BY <1>4, <1>5, <1>6

LEMMA LeavesSeen ==
    ASSUME VInv, MInv', WInv', NEW c \in Conns, Leaves(c)
    PROVE  SeenType' /\ Seen'
<1> DEFINE hint == turn = c /\ NextTo(c) = SuzWithout(c)
<1>1. PICK f \in Screens : Becomes(f, unread, screen) /\ Right(f)
    BY DEF VInv, Seen
<1>2. /\ Part(c) /\ asked' = asked /\ SeenType /\ asked' \in BOOLEAN
      /\ IF hint THEN GiveHint ELSE SameWord
    BY DEF Leaves, VInv, SeenType
<1>3. /\ Players' = Players \ {c} /\ suz' \in Players' /\ ~ended /\ picked' = picked
      /\ ~ended' => suz' = suz
      /\ words' = words /\ (~hint => hidden_word' = hidden_word)
  <2>1. c \in Players /\ suz' \in Players \ {c}
      BY <1>2, PartFacts DEF VInv
  <2>2. Players' = Players \ {c}
      BY <1>2, <2>1, WithoutFacts DEF VInv, Part
  <2>3. ~ended /\ picked' = picked /\ (~ended' => suz' = suz)
      BY <1>2 DEF Part, Playing, SuzWithout
  <2> QED  BY <1>2, <2>1, <2>2, <2>3 DEF GiveHint, SameWord, wordVars
<1>4. CASE c = Viewer
  <2>1. unread' = << >> /\ screen' = Home /\ Viewer \notin Players'
      BY <1>3, <1>4 DEF Leaves
  <2> QED  BY <1>2, <2>1, GoesHome
<1>5. CASE c # Viewer /\ Viewer \notin Players
  <2>1. UNCHANGED <<unread, screen>> /\ Right(f)'
      BY <1>3, <1>5 DEF Leaves, Write, Right
  <2> QED  BY <1>1, <1>2, <2>1, Unwritten
<1>6. CASE c # Viewer /\ Viewer \in Players
  <2>0. PICK m, k : m = Hint /\ k = RoomInfo("PLAYERUPDATE")
      OBVIOUS
  <2>1. /\ Len(unread) < MaxUnread /\ screen' = screen
        /\ unread' = unread \o ((IF hint THEN << m >> ELSE << >>) \o << k >>)
      BY <1>6, <2>0 DEF Leaves, Write
  <2>2. /\ k \in Messages /\ k.sig = "PLAYERUPDATE"
        /\ {k.players[j] : j \in DOMAIN k.players} = Players'
        /\ k.players = Circle(suz)'
      BY <1>3, <2>0, MessageTypes DEF Messages, RoomInfo
  <2>3. m \in Messages /\ m.sig = "NEWHINT" /\ m.text = <<hidden_word'>>
      BY <2>0, TextTypes DEF Messages
  <2>4. CASE hint
    <3>1. /\ Drawn(f, m) \in Screens
          /\ Drawn(f, m) = [suz |-> f.suz, players |-> f.players, text |-> <<hidden_word'>>]
        BY <1>1, <2>3, Drawings, DrawnScreen
    <3>2. Drawn(Drawn(f, m), k)
            = [suz |-> f.suz, players |-> k.players, text |-> <<hidden_word'>>]
        BY <2>2, <3>1, Drawings
    <3>3. picked' /\ ~ended' => f.suz = suz'
        BY <1>1, <1>3, <1>6 DEF Right
    <3>4. Right(Drawn(Drawn(f, m), k))'
        BY <2>2, <3>2, <3>3 DEF Right
    <3>5. unread' = unread \o (<< m >> \o << k >>)
        BY <2>1, <2>4
    <3> QED  BY <1>1, <1>2, <2>1, <2>2, <2>3, <3>4, <3>5, WrittenTwice
  <2>5. CASE ~hint
    <3>1. Drawn(f, k) = [suz |-> f.suz, players |-> k.players, text |-> f.text]
        BY <1>1, <2>2, Drawings
    <3>2. picked' /\ ~ended' => f.suz = suz' /\ f.text = <<hidden_word'>>
        BY <1>1, <1>3, <1>6, <2>5 DEF Right
    <3>3. asked' /\ ~picked' /\ ~ended' /\ suz' = Viewer => (Len(f.text) = 3 => f.text = words')
        BY <1>1, <1>2, <1>3, <1>6 DEF Right
    <3>4. Right(Drawn(f, k))'
        BY <2>2, <3>1, <3>2, <3>3 DEF Right
    <3>5. unread' = unread \o << k >>
        BY <2>1, <2>5
    <3> QED  BY <1>1, <1>2, <2>1, <2>2, <3>4, <3>5, Written
  <2> QED  BY <2>4, <2>5
<1> QED  BY <1>4, <1>5, <1>6

LEMMA AskedSeen ==
    ASSUME VInv, SuzerainAsked
    PROVE  SeenType' /\ Seen'
<1>1. PICK f \in Screens : Becomes(f, unread, screen) /\ Right(f)
    BY DEF VInv, Seen
<1>2. /\ SeenType /\ asked' = TRUE /\ UNCHANGED <<matchVars, wordVars, screen>> /\ ~picked
    BY DEF SuzerainAsked, VInv
<1>3. Players' = Players
    BY <1>2 DEF Players, matchVars
<1>4. CASE Viewer = suz
  <2>0. PICK m : m = Offer
      OBVIOUS
  <2>1. Len(unread) < MaxUnread /\ unread' = unread \o << m >>
      BY <1>4, <2>0 DEF SuzerainAsked, Write
  <2>2. m \in Messages /\ m.sig = "CHOOSEWORD" /\ m.text = words
      BY <2>0, TextTypes DEF Messages, VInv
  <2>3. Drawn(f, m) = [suz |-> f.suz, players |-> f.players, text |-> words]
      BY <1>1, <2>2, Drawings
  <2>4. Right(Drawn(f, m))'
      BY <1>1, <1>2, <1>3, <2>3 DEF Right, matchVars, wordVars
  <2> QED  BY <1>1, <1>2, <2>1, <2>2, <2>4, Written
<1>5. CASE Viewer # suz
  <2>1. unread' = unread /\ Right(f)'
      BY <1>1, <1>2, <1>3, <1>5 DEF SuzerainAsked, Write, Right, matchVars, wordVars
  <2> QED  BY <1>1, <1>2, <2>1, Unwritten
<1> QED  BY <1>4, <1>5

LEMMA ChosenSeen ==
    ASSUME VInv, MInv', WInv', NEW n \in 1 .. 3, WordChosen(n)
    PROVE  SeenType' /\ Seen'
<1>1. PICK f \in Screens : Becomes(f, unread, screen) /\ Right(f)
    BY DEF VInv, Seen
<1>2. /\ SeenType /\ asked' = asked /\ asked' \in BOOLEAN /\ screen' = screen
      /\ suz # NULL /\ suz' = suz /\ picked' = TRUE /\ order' = order
    BY DEF WordChosen, Choose, VInv, SeenType
<1>3. Players' = Players /\ suz' \in Players'
    BY <1>2, SuzInPlayers DEF Players, VInv
<1>4. CASE Viewer \in Players
  <2>0. PICK m : m = RoomInfo("NEWGAME")
      OBVIOUS
  <2>1. Len(unread) < MaxUnread /\ unread' = unread \o << m >>
      BY <1>4, <2>0 DEF WordChosen, Write
  <2>2. /\ m \in Messages /\ m.sig = "NEWGAME"
        /\ {m.players[k] : k \in DOMAIN m.players} = Players'
        /\ m.suz = suz' /\ m.players = Circle(suz)' /\ m.text = <<hidden_word'>>
      BY <1>3, <2>0, MessageTypes DEF Messages, RoomInfo
  <2>3. Drawn(f, m) = [suz |-> suz', players |-> m.players, text |-> <<hidden_word'>>]
      BY <1>1, <2>2, Drawings
  <2>4. Right(Drawn(f, m))'
      BY <1>2, <2>2, <2>3 DEF Right
  <2> QED  BY <1>1, <1>2, <2>1, <2>2, <2>4, Written
<1>5. CASE Viewer \notin Players
  <2>1. unread' = unread /\ Right(f)'
      BY <1>3, <1>5 DEF WordChosen, Write, Right
  <2> QED  BY <1>1, <1>2, <2>1, Unwritten
<1> QED  BY <1>4, <1>5

LEMMA TurnSeen ==
    ASSUME VInv, WInv', TurnMoves
    PROVE  SeenType' /\ Seen'
<1>1. PICK f \in Screens : Becomes(f, unread, screen) /\ Right(f)
    BY DEF VInv, Seen
<1>2. /\ SeenType /\ asked' = asked /\ asked' \in BOOLEAN
      /\ UNCHANGED <<screen, order, suz, picked, ended>>
    BY DEF TurnMoves, Miss, TurnExpires, VInv, SeenType
<1>3. Players' = Players /\ Circle(suz)' = Circle(suz)
    BY <1>2 DEF Players, Circle, Place
<1>4. CASE NextTo(turn) = suz /\ Viewer \in Players
  <2>0. PICK m : m = Hint
      OBVIOUS
  <2>1. Len(unread) < MaxUnread /\ unread' = unread \o << m >> /\ words' = words
      BY <1>4, <2>0 DEF TurnMoves, Write, GiveHint
  <2>2. m \in Messages /\ m.sig = "NEWHINT" /\ m.text = <<hidden_word'>>
      BY <2>0, TextTypes DEF Messages
  <2>3. Drawn(f, m) = [suz |-> f.suz, players |-> f.players, text |-> <<hidden_word'>>]
      BY <1>1, <2>2, Drawings
  <2>4. Right(Drawn(f, m))'
      BY <1>1, <1>2, <1>3, <2>1, <2>3 DEF Right
  <2> QED  BY <1>1, <1>2, <2>1, <2>2, <2>4, Written
<1>5. CASE NextTo(turn) # suz
  <2>1. unread' = unread /\ words' = words /\ hidden_word' = hidden_word
      BY <1>5 DEF TurnMoves, Quiet, SameWord, wordVars
  <2>2. Right(f)'
      BY <1>1, <1>2, <1>3, <2>1 DEF Right
  <2> QED  BY <1>1, <1>2, <2>1, <2>2, Unwritten
<1>6. CASE NextTo(turn) = suz /\ Viewer \notin Players
  <2>1. unread' = unread /\ Right(f)'
      BY <1>3, <1>6 DEF TurnMoves, Write, Right
  <2> QED  BY <1>1, <1>2, <2>1, Unwritten
<1> QED  BY <1>4, <1>5, <1>6

(* The handlers that tell nobody what this part of the screen shows.          *)
LEMMA QuietSeen ==
    ASSUME VInv,
           RoundStarts \/ WordUnreadable \/ SuzerainLate \/ \E c \in Conns : GuessRight(c)
    PROVE  SeenType' /\ Seen'
<1>1. PICK f \in Screens : Becomes(f, unread, screen) /\ Right(f)
    BY DEF VInv, Seen
<1>2. /\ SeenType /\ asked' \in BOOLEAN /\ UNCHANGED <<order, unread, screen>>
      /\ (~picked' /\ ~asked') \/ ended'
    BY DEF RoundStarts, StartRound, WordUnreadable, ChooseAgain, SuzerainLate, ChoiceExpires,
           GuessRight, Win, Quiet, VInv, SeenType
<1>3. Players' = Players
    BY <1>2 DEF Players
<1>4. Right(f)'
    BY <1>1, <1>2, <1>3 DEF Right
<1> QED  BY <1>1, <1>2, <1>4, Unwritten

LEMMA ReadsSeen == ASSUME VInv, Reads PROVE SeenType' /\ Seen'
<1>1. PICK f \in Screens : Becomes(f, unread, screen) /\ Right(f)
    BY DEF VInv, Seen
<1>2. /\ SeenType /\ asked' = asked /\ unread # << >> /\ UNCHANGED <<matchVars, wordVars>>
      /\ unread' = Tail(unread) /\ screen' = Drawn(screen, Head(unread))
    BY DEF Reads, VInv
<1>3. /\ unread' \in Seq(Messages) /\ Len(unread') = Len(unread) - 1
      /\ screen' \in Screens /\ Becomes(f, unread', screen')
    BY <1>1, <1>2, MessageRead DEF SeenType
<1>4. SeenType'
  <2>1. Len(unread) \in Nat /\ MaxUnread \in Nat
      BY ViewerAssumption DEF SeenType, VInv
  <2> QED  BY <1>2, <1>3, <2>1 DEF SeenType
<1>5. Players' = Players /\ Circle(suz)' = Circle(suz)
    BY <1>2 DEF Players, Circle, Place, matchVars
<1>6. Right(f)'
    BY <1>1, <1>2, <1>5 DEF Right, matchVars, wordVars
<1> QED  BY <1>3, <1>4, <1>6 DEF Seen

-----------------------------------------------------------------------------

LEMMA ViewInitInv == ViewInit => VInv
<1> SUFFICES ASSUME ViewInit PROVE VInv
    OBVIOUS
<1>1. MInv /\ WInv
    BY MatchInitInv, WordsInitInv DEF ViewInit
<1>2. asked = FALSE /\ unread = << >> /\ screen = Home /\ order = << >>
    BY DEF ViewInit, MatchInit
<1>3. Viewer \notin Players
    BY <1>2 DEF Players
<1>4. << >> \in Seq(Messages) /\ Len(<< >>) = 0 /\ MaxUnread \in Nat
    BY ViewerAssumption
<1>5. Home \in Screens
    BY DEF Home, Screens
<1>6. Becomes(Home, << >>, Home) /\ Right(Home)
    BY <1>3, <1>5, NothingWritten DEF Right
<1>7. SeenType /\ Seen
  <2>1. SeenType
    <3>1. unread \in Seq(Messages) /\ Len(unread) = 0 /\ 0 <= MaxUnread + 1
        BY <1>2, <1>4
    <3> QED  BY <1>2, <1>5, <3>1 DEF SeenType
  <2>2. Becomes(Home, unread, screen)
      BY <1>2, <1>6
  <2> QED  BY <1>5, <1>6, <2>1, <2>2 DEF Seen
<1> QED  BY <1>1, <1>7 DEF VInv

LEMMA ViewStepInv == VInv /\ [ViewNext]_vars => VInv'
<1> SUFFICES ASSUME VInv, [ViewNext]_vars PROVE VInv'
    OBVIOUS
<1>1. MInv' /\ WInv'
    BY ViewStepParts, MatchStepInv, WordsStepInv DEF VInv
<1>2. SeenType' /\ Seen'
  <2>1. CASE RoundStarts \/ WordUnreadable \/ SuzerainLate
      BY <2>1, QuietSeen
  <2>2. CASE SuzerainAsked
      BY <2>2, AskedSeen
  <2>3. ASSUME NEW c \in Conns, Joins(c) \/ GuessRight(c) \/ Leaves(c)
        PROVE  SeenType' /\ Seen'
      BY <1>1, <2>3, JoinsSeen, QuietSeen, LeavesSeen
  <2>4. ASSUME NEW n \in 1 .. 3, WordChosen(n) PROVE SeenType' /\ Seen'
      BY <1>1, <2>4, ChosenSeen
  <2>5. CASE TurnMoves
      BY <1>1, <2>5, TurnSeen
  <2>6. CASE Closes
    <3>1. /\ unread' = << >> /\ screen' = Home /\ asked' \in BOOLEAN
          /\ order' = << >>
        BY <2>6 DEF Closes, CloseMatch, VInv, SeenType
    <3>2. Viewer \notin Players'
        BY <3>1 DEF Players
    <3> QED  BY <3>1, <3>2, GoesHome
  <2>7. CASE Reads
      BY <2>7, ReadsSeen
  <2>8. CASE UNCHANGED vars
    <3>1. PICK f \in Screens : Becomes(f, unread, screen) /\ Right(f)
        BY DEF VInv, Seen
    <3>2. UNCHANGED <<order, suz, picked, ended, words, hidden_word, asked, unread, screen>>
        BY <2>8 DEF vars, matchVars, wordVars
    <3>3. Players' = Players /\ Circle(suz)' = Circle(suz)
        BY <3>2 DEF Players, Circle, Place
    <3>4. Right(f)' /\ SeenType /\ asked' \in BOOLEAN
        BY <3>1, <3>2, <3>3 DEF Right, VInv, SeenType
    <3> QED  BY <3>1, <3>2, <3>4, Unwritten
  <2> QED  BY <2>1, <2>2, <2>3, <2>4, <2>5, <2>6, <2>7, <2>8 DEF ViewNext
<1> QED  BY <1>1, <1>2 DEF VInv

LEMMA ViewInvariant == ViewSpec => []VInv
<1> QED  BY ViewInitInv, ViewStepInv, PTL DEF ViewSpec

(* When nothing is on the way, the screen is what it is going to be.          *)
LEMMA ReadIsRight ==
    ASSUME VInv, UpToDate
    PROVE  Viewer \in Players /\ Right(screen)
<1>1. PICK f \in Screens : Becomes(f, unread, screen) /\ Right(f)
    BY DEF VInv, Seen
<1>2. f = screen
    BY <1>1, NothingToRead DEF UpToDate
<1> QED  BY <1>1, <1>2 DEF UpToDate

(* PollSwitches.c:102-120 and 198-261.  While a word is being guessed, whoever *)
(* has read what was sent sees the room as it is, for any number of players,   *)
(* any file of words and any backlog of messages.                             *)
THEOREM ScreensShowTheMatch == ViewSpec => []ScreenShowsMatch
<1>1. ASSUME VInv PROVE ScreenShowsMatch
    BY <1>1, ReadIsRight DEF ScreenShowsMatch, Right
<1> QED  BY <1>1, ViewInvariant, PTL

(* ThreadRoom.c:217-226 and 466-474.  Every join and every exit reaches every  *)
(* screen: the players drawn are the players of the room.                     *)
THEOREM ScreensShowThePlayers == ViewSpec => []ScreenShowsPlayers
<1>1. ASSUME VInv PROVE ScreenShowsPlayers
    BY <1>1, ReadIsRight DEF ScreenShowsPlayers, Right
<1> QED  BY <1>1, ViewInvariant, PTL

(* ThreadRoom.c:100-109.  Three words on the screen of a suzerain who was      *)
(* asked are the three the room holds: the number answered is not about an    *)
(* older offer.                                                              *)
THEOREM OffersAreCurrent == ViewSpec => []OfferIsCurrent
<1>1. ASSUME VInv PROVE OfferIsCurrent
    BY <1>1, ReadIsRight DEF OfferIsCurrent, Right
<1> QED  BY <1>1, ViewInvariant, PTL

(* The variables of the match, of the word and of the screen keep their types, *)
(* and the backlog of messages its bound.                                     *)
THEOREM ViewTyped == ViewSpec => []ViewTypeOK
<1>1. ASSUME VInv PROVE ViewTypeOK
  <2>1. MatchTypeOK /\ WordsTypeOK
      BY <1>1, InvHides DEF VInv, MInv
  <2> QED  BY <1>1, <2>1 DEF ViewTypeOK, VInv, SeenType, Screens
<1> QED  BY <1>1, ViewInvariant, PTL

=============================================================================
