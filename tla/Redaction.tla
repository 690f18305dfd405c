----------------------------- MODULE Redaction -----------------------------
(***************************************************************************)
(* What of a prompt does not leave the machine: redact_text,               *)
(* redact_home_dirs and replace_word (src/prompt.rs).                      *)
(*                                                                         *)
(* A text is a sequence of letters of Letters, of the word "home", and of  *)
(* "/", "-", "~" and " ", which are in no word.  What stands for a name is *)
(* one letter, and in no word either: it is in angle brackets.  " " stands *)
(* for all that ends a name of a folder: blanks, backquotes and quotes.    *)
(* A name that is not known is empty.                                      *)
(***************************************************************************)
EXTENDS Naturals, Sequences, FiniteSets, FiniteSetsExt

CONSTANT Letters

Between == {"/", "-", "~", " "}
Marks == {"<user>", "<hostname>"}

ASSUME LettersAssumption == Letters \cap (Between \cup Marks) = {}

InWord == Letters \cup {"home"}
Text == Seq(InWord \cup Between)
Home == <<"/", "home", "/">>

At(s, i, word) ==
  i + Len(word) - 1 <= Len(s) /\ SubSeq(s, i, i + Len(word) - 1) = word

IsWholeBefore(s, i, word) == i > 1 => s[i - 1] \notin InWord

\* Not part of a longer word.
IsWhole(s, i, word) ==
  /\ i > 1 => s[i - 1] \notin InWord
  /\ i + Len(word) <= Len(s) => s[i + Len(word)] \notin InWord

\* A text written from another: at each place of it a step says what is
\* written there, and at which place it goes on.
Written(step) ==
  LET from[i \in 1..(Len(step) + 1)] ==
        IF i \in DOMAIN step THEN step[i].says \o from[step[i].next] ELSE <<>>
  IN  from[1]

\* str::replace, and replace_word, which leaves matches that are not whole
\* but goes on behind them.
Replacing(s, word, with, whole) ==
  [i \in DOMAIN s |->
     IF ~At(s, i, word) THEN [says |-> <<s[i]>>, next |-> i + 1]
     ELSE [says |-> IF whole => IsWhole(s, i, word) THEN <<with>> ELSE word,
           next |-> i + Len(word)]]

\* Nothing is found before and after every letter.
Replace(s, word, with) ==
  IF word = <<>>
  THEN [k \in 1..(2 * Len(s) + 1) |-> IF k % 2 = 1 THEN with ELSE s[k \div 2]]
  ELSE Written(Replacing(s, word, with, FALSE))

ReplaceWord(s, word, with) ==
  IF word = <<>> THEN s ELSE Written(Replacing(s, word, with, TRUE))

\* redact_home_dirs: a name ends at a slash or at a blank.
NameEnd(s, start) == Min({k \in start..Len(s) : s[k] \in {"/", " "}} \cup {Len(s) + 1})

HomeDirs(s) ==
  [i \in DOMAIN s |->
     IF ~At(s, i, Home) THEN [says |-> <<s[i]>>, next |-> i + 1]
     ELSE LET start == i + Len(Home)
              end   == NameEnd(s, start)
          IN  [says |-> IF end > start THEN Append(Home, "<user>") ELSE Home, next |-> end]]

RedactHomeDirs(s) == Written(HomeDirs(s))

\* A home of one letter, the root, is no home; trim_end_matches.
Trimmed(home) == SubSeq(home, 1, Max({i \in DOMAIN home : home[i] # "/"} \cup {0}))

WithoutHome(text, home) ==
  IF Len(home) > 1 THEN Replace(text, Trimmed(home), "~") ELSE text

\* redact_text: home, hostname and user are those of the machine.
RedactText(text, sys) ==
  ReplaceWord(
    ReplaceWord(RedactHomeDirs(WithoutHome(text, sys.home)), sys.hostname, "<hostname>"),
    sys.user, "<user>")

-----------------------------------------------------------------------------

Holds(s, word) == word = <<>> \/ \E i \in DOMAIN s : At(s, i, word)
\* The letters on both sides.
Beside(s, i, word) == {s[j] : j \in {i - 1, i + Len(word)} \cap DOMAIN s}
HoldsWhole(s, word) ==
  /\ word # <<>>
  /\ \E i \in DOMAIN s : At(s, i, word) /\ Beside(s, i, word) \cap InWord = {}

(* Hidden: what is left after the four replacements, of which each works on *)
(* the text of the one before, names neither user nor host, nor a folder of *)
(* /home; and a text that named none of them is as it was.                  *)
HiddenIn(text, sys, out) ==
  /\ ~HoldsWhole(out, sys.user)
  /\ ~HoldsWhole(out, sys.hostname)
  /\ \A i \in DOMAIN out :
       At(out, i, Home) /\ i + Len(Home) <= Len(out) =>
         out[i + Len(Home)] \in {"<user>", "/", " "}
  /\ (/\ ~HoldsWhole(text, sys.user) /\ ~HoldsWhole(text, sys.hostname)
      /\ ~Holds(text, Home)
      /\ Len(sys.home) > 1 => ~Holds(text, Trimmed(sys.home))) => out = text
=============================================================================
