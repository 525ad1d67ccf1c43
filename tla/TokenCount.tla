----------------------------- MODULE TokenCount -----------------------------
(***************************************************************************)
(* The token estimate of a text, of a list of messages, and the correction   *)
(* of the backend's figure by the calculated one (service/utils.go and       *)
(* correctTokenCount in service/handler.go).  Of a rune only the class        *)
(* matters, so a text is a sequence of classes.                              *)
(***************************************************************************)
EXTENDS Integers, Sequences, SequencesExt

(* "wide" runes take several bytes in UTF-8. *)
Classes == {"blank", "punct", "wide", "letter"}

Unread == [words |-> 0, punctuation |-> 0, cjk |-> 0, inWord |-> FALSE]

(* Fault: a blank does not end the word. *)
ReadBlankInWord(s, class) ==
  [words       |-> IF class = "blank" /\ s.inWord THEN s.words + 1 ELSE s.words,
   punctuation |-> IF class = "punct" THEN s.punctuation + 1 ELSE s.punctuation,
   cjk         |-> IF class = "wide" THEN s.cjk + 1 ELSE s.cjk,
   inWord      |-> class = "letter" \/ (class # "punct" /\ s.inWord)]

(* One turn of the loop.  A word that punctuation ends is left uncounted, and  *)
(* a wide rune neither begins nor ends one.                                  *)
Read(s, class) ==
  [words       |-> IF class = "blank" /\ s.inWord THEN s.words + 1 ELSE s.words,
   punctuation |-> IF class = "punct" THEN s.punctuation + 1 ELSE s.punctuation,
   cjk         |-> IF class = "wide" THEN s.cjk + 1 ELSE s.cjk,
   inWord      |-> class = "letter" \/ (class = "wide" /\ s.inWord)]

(* int(float64(words) * 1.3) and int(float64(cjk) * 1.5) *)
Tokens(words, punctuation, cjk) == (13 * words) \div 10 + punctuation + (3 * cjk) \div 2

(* The loop over the runes. *)
Scan(text) == FoldLeft(Read, Unread, text)

(* The floor of one token for a text that is not blank (utils.go:122) never    *)
(* bites: such a text has a word at its end, punctuation or a wide rune.      *)
CountTokens(text) ==
  LET s == Scan(text)
  IN  Tokens(IF s.inWord THEN s.words + 1 ELSE s.words, s.punctuation, s.cjk)

Total(counts) == FoldLeft(+, 0, counts)

(* A role is one word.  Every message costs 4 tokens more, the request 3. *)
RoleTokens == CountTokens(<<"letter">>)

CalculateMessageTokens(messages) ==
  Total([i \in DOMAIN messages |-> RoleTokens + CountTokens(messages[i])])
    + 4 * Len(messages) + 3

(* Fault: a difference counts only when the backend reports more. *)
TooFarAbove(s, c) == 5 * (s - c) > c

(* The figures differ by more than a fifth of the calculated one. *)
TooFar(s, c) == 5 * (s - c) > c \/ 5 * (c - s) > c

CorrectTokenCount(s, c) ==
  IF c > 0 /\ (s = 0 \/ TooFar(s, c)) THEN c ELSE s
-----------------------------------------------------------------------------
(* A word reaches position j: since one of its letters there was nothing but     *)
(* letters and wide runes.                                                   *)
InWordAt(text, j) ==
  \E i \in 1..j : text[i] = "letter" /\ \A k \in i..j : text[k] \in {"letter", "wide"}

(* The number of positions in a word that a blank or the end of the text follows. *)
WordsByPosition(text) ==
  Cardinality({j \in DOMAIN text :
                 InWordAt(text, j) /\ (j = Len(text) \/ text[j + 1] = "blank")})

RunesOf(text, class) == Cardinality({i \in DOMAIN text : text[i] = class})

(* What the loop counts, without a loop. *)
TokensByPosition(text) ==
  Tokens(WordsByPosition(text), RunesOf(text, "punct"), RunesOf(text, "wide"))
=============================================================================
