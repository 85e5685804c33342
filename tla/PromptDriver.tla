---------------------------- MODULE PromptDriver -----------------------------
(***************************************************************************)
(* Pane drivers: how a prompt is typed into the agent that runs in a pane. *)
(*                                                                         *)
(* A driver is a profile, the key that submits and the key that breaks a   *)
(* line without submitting.  A definition of a driver sets some of them,   *)
(* for a pane or as the default of a workspace.                            *)
(*                                                                         *)
(* What may be missing is a sequence of at most one element.  A text is a  *)
(* sequence of lines, after "\r\n" and "\r" have become "\n".              *)
(***************************************************************************)
EXTENDS Naturals, Sequences, SequencesExt

CONSTANTS
  KeySpecs,       \* the key names that terminal_input can encode
  Size            \* lines of a prompt, with the bytes they take

Or(first, second) == IF first = <<>> THEN second ELSE first

(* The keys and modes that belong to a profile.                            *)
BuiltIn(profile) ==
  [profile |-> profile, submit |-> "Enter",
   soft |-> IF profile \in {"plain", "codex"} THEN <<>> ELSE <<"Shift+Enter">>]

Multiline(profile) ==
  CASE profile = "plain" -> "reject" [] profile = "codex" -> "paste" [] OTHER -> "soft break"

Brackets(profile) == profile # "codex"

Prepare(profile) == IF profile = "codex" THEN <<"Ctrl+A">> ELSE <<>>

NoDriver == [profile |-> <<>>, submit |-> <<>>, soft |-> <<>>, noSoft |-> FALSE]

Merged(defaults, session) ==
  LET base == Or(defaults, <<NoDriver>>)[1]
      over == Or(session, <<NoDriver>>)[1]
  IN  [profile |-> Or(over.profile, base.profile), submit |-> Or(over.submit, base.submit),
       soft |-> Or(over.soft, base.soft), noSoft |-> base.noSoft \/ over.noSoft]

(* A key that is set wins over "no soft break", whoever says which.        *)
Driver(defaults, session, inferred) ==
  LET merged == Merged(defaults, session)
      plain  == BuiltIn(Or(Or(merged.profile, inferred), <<"plain">>)[1])
  IN  [plain EXCEPT !.submit = Or(merged.submit, <<@>>)[1],
                    !.soft = Or(merged.soft, IF merged.noSoft THEN <<>> ELSE @)]

FromEffective(driver) ==
  [profile |-> <<driver.profile>>, submit |-> <<driver.submit>>, soft |-> driver.soft,
   noSoft |-> driver.soft = <<>>]

-----------------------------------------------------------------------------
(* build_prompt_input_plan.  A body is a sequence of pieces: a key, or     *)
(* text that is pasted in brackets or plainly.                             *)

Key(spec) == [kind |-> "key", spec |-> spec]

(* encode_send_input puts brackets around more than one byte of text.      *)
Text(lines, brackets) ==
  LET bytes == FoldLeft(LAMBDA sum, line : sum + Size[line], 0, lines) + Len(lines) - 1
  IN  [kind |-> IF brackets /\ bytes > 1 THEN "pasted" ELSE "typed", lines |-> lines]

LinesOf(piece) == IF piece.kind = "key" THEN <<>> ELSE piece.lines

Bug_EmptyLinesSkipped(lines, soft, brackets) ==
  LET kept == SelectSeq(lines, LAMBDA line : line # "")
  IN  [j \in 1 .. 2 * Len(kept) - 1 |->
        IF j % 2 = 0 THEN Key(soft) ELSE Text(<<kept[(j + 1) \div 2]>>, brackets)]

(* Between any two lines the key that breaks them.                         *)
Broken(lines, soft, brackets) ==
  [j \in 1 .. 2 * Len(lines) - 1 |->
    IF j % 2 = 0 THEN Key(soft) ELSE Text(<<lines[(j + 1) \div 2]>>, brackets)]

(* A driver that breaks lines with a key expects to have one.              *)
Plan(lines, driver, bracketed) ==
  LET mode     == Multiline(driver.profile)
      brackets == Brackets(driver.profile) /\ bracketed
      breaks   == mode = "soft break" /\ Len(lines) > 1
      written  == IF breaks THEN Broken(lines, driver.soft[1], brackets) ELSE <<Text(lines, brackets)>>
      prepared == [i \in DOMAIN Prepare(driver.profile) |-> Key(Prepare(driver.profile)[i])]
      keys     == {driver.submit} \cup (IF breaks THEN ToSet(driver.soft) ELSE {})
  IN  IF mode = "reject" /\ Len(lines) > 1 THEN [result |-> "refused"]
      ELSE IF breaks /\ driver.soft = <<>> THEN [result |-> "panic"]
      ELSE IF ~(keys \subseteq KeySpecs)    THEN [result |-> "refused"]
      ELSE [result |-> "planned", body |-> prepared \o written, submit |-> driver.submit]

=============================================================================
