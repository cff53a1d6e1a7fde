------------------------------- MODULE Cards --------------------------------
(***************************************************************************)
(* The card of a pending question (AskUserQuestionPassthroughCard): what   *)
(* the user picked and wrote for each of its questions.  A text is a       *)
(* string, of which Blank trims to nothing; a value is the set of the      *)
(* labels or the text it is made of.                                       *)
(***************************************************************************)
EXTENDS Naturals, Sequences, FiniteSets

Blank == " "
Trim(text) == IF text = Blank THEN "" ELSE text

\* A question: [options |-> set of labels, multi |-> BOOLEAN].  parsePayload
\* refuses a payload without questions.
Parsed(questions) == questions # <<>>

NewCard(questions) ==
  [picks     |-> [i \in DOMAIN questions |-> ""],
   multi     |-> [i \in DOMAIN questions |-> {}],
   drafts    |-> [i \in DOMAIN questions |-> ""],
   submitted |-> FALSE]

\* A value that is the empty text is none.
Nonempty(value) == IF value = {""} THEN {} ELSE value

\* What the card would answer to question i; {} when nothing.
Value(questions, card, i) ==
  Nonempty(IF Trim(card.drafts[i]) # "" THEN {card.drafts[i]}
           ELSE IF questions[i].multi THEN card.multi[i]
           ELSE {card.picks[i]})

\* buildAnswers succeeds.
Complete(questions, card) ==
  \A i \in DOMAIN questions : Value(questions, card, i) # {}

BuildAnswers(questions, card) == [i \in DOMAIN questions |-> Value(questions, card, i)]

ToggleMulti(card, i, label) ==
  [card EXCEPT !.drafts[i] = "",
               !.multi[i] = (@ \ {label}) \cup ({label} \ @)]

ChooseSingle(card, i, label) == [card EXCEPT !.drafts[i] = "", !.picks[i] = label]

\* A click on the button of an option.
Click(questions, card, i, label) ==
  IF questions[i].multi THEN ToggleMulti(card, i, label) ELSE ChooseSingle(card, i, label)

UpdateDraft(card, i, text) ==
  [card EXCEPT !.drafts[i] = text, !.picks[i] = "", !.multi[i] = {}]
=============================================================================
