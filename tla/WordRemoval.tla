----------------------------- MODULE WordRemoval -----------------------------
(***************************************************************************)
(* How the UDP service of esercitazione_4/server.c takes a word out of a   *)
(* text: character by character, through a buffer that holds the word read *)
(* so far.  Words fit into the buffer of 256 characters.                   *)
(***************************************************************************)
EXTENDS Integers, Sequences, FiniteSets, SequencesExt

CONSTANTS
  Letters,      \* the characters words are made of
  Separators    \* the blank and the end of line

ASSUME CharsAssumption == Letters \cap Separators = {}

Texts == Seq(Letters \cup Separators)

\* What the loop has read, written and counted.
Reading == [buf |-> <<>>, out |-> <<>>, found |-> 0]

\* One round of the loop: at a separator the buffer is written with it, or the
\* separator alone when the buffer holds the word.
ReadChar(s, c, word) ==
  IF c \notin Separators THEN [s EXCEPT !.buf = Append(@, c)]
  ELSE IF s.buf = word THEN [s EXCEPT !.buf = <<>>, !.out = Append(@, c), !.found = @ + 1]
  ELSE [s EXCEPT !.buf = <<>>, !.out = @ \o Append(s.buf, c)]

\* Fault: the last word is written without being compared.
FlushUncompared(s, word) == [s EXCEPT !.buf = <<>>, !.out = @ \o s.buf]

\* What is left in the buffer at the end of the file.
Flush(s, word) ==
  IF s.buf = word THEN [s EXCEPT !.buf = <<>>, !.found = @ + 1]
  ELSE [s EXCEPT !.buf = <<>>, !.out = @ \o s.buf]

Removal(text, word) ==
  Flush(FoldLeft(LAMBDA s, c : ReadChar(s, c, word), Reading, text), word)

-------------------------------------------------------------------------------
(***************************************************************************)
(* The same, said of the text as a whole.                                  *)
(***************************************************************************)
\* Where word stands in text between separators, or at an end of the text.
Occurrences(text, word) ==
  {i \in DOMAIN text :
     LET last == i + Len(word) - 1 IN
       /\ last <= Len(text) /\ SubSeq(text, i, last) = word
       /\ i = 1 \/ text[i - 1] \in Separators
       /\ last = Len(text) \/ text[last + 1] \in Separators}

\* The text without the characters of those occurrences of words.
Without(text, words) ==
  LET gone == {j \in DOMAIN text : \E w \in words : \E i \in Occurrences(text, w) :
                 j \in i..(i + Len(w) - 1)}
  IN  [i \in 1..Cardinality(DOMAIN text \ gone) |->
         text[CHOOSE j \in DOMAIN text \ gone :
                Cardinality({k \in DOMAIN text \ gone : k <= j}) = i]]
===============================================================================
