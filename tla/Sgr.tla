--------------------------------- MODULE Sgr ----------------------------------
(***************************************************************************)
(* Pens of a terminal: the colours and attributes that SGR sequences       *)
(* select, and the sequence that selects a given pen.                      *)
(***************************************************************************)
EXTENDS Integers, Sequences, SequencesExt

Default == <<"default">>

Plain == [fg |-> Default, bg |-> Default, attrs |-> {}]

(* By the code that sets it; 5 and 6 both blink.                           *)
Attribute ==
  <<"bold", "dim", "italic", "underline", "blink", "blink", "inverse", "hidden", "strike">>

Cleared(code) ==
  CASE code = 21 -> {"bold"}
    [] code = 22 -> {"bold", "dim"}
    [] OTHER     -> {Attribute[code - 20]}

Byte(n) == n % 256

Bug_ThirdValueLeft(params, i, field) ==
  LET subs == params[i]
      value(k) == IF i + k <= Len(params) THEN params[i + k][1] ELSE 0
  IN  CASE Len(subs) >= 3 /\ subs[2] = 5 -> [colour |-> <<"indexed", subs[3]>>, used |-> 0]
        [] Len(subs) >= 5 /\ subs[2] = 2 ->
             [colour |-> <<"rgb", subs[3], subs[4], subs[5]>>, used |-> 0]
        [] value(1) = 5 -> [colour |-> <<"indexed", value(2)>>, used |-> 2]
        [] value(1) = 2 -> [colour |-> <<"rgb", value(2), value(3), value(4)>>, used |-> 3]
        [] OTHER        -> [colour |-> field, used |-> 0]

(* An extended colour at i: its values are sub-parameters of i, or the     *)
(* parameters that follow, those used up; missing ones are 0.              *)
Extended(params, i, field) ==
  LET subs == params[i]
      value(k) == IF i + k <= Len(params) THEN Byte(params[i + k][1]) ELSE 0
      next == IF i < Len(params) THEN params[i + 1][1] ELSE -1
  IN  CASE Len(subs) >= 3 /\ subs[2] = 5 ->
             [colour |-> <<"indexed", Byte(subs[3])>>, used |-> 0]
        [] Len(subs) >= 5 /\ subs[2] = 2 ->
             [colour |-> <<"rgb", Byte(subs[3]), Byte(subs[4]), Byte(subs[5])>>, used |-> 0]
        [] next = 5 -> [colour |-> <<"indexed", value(2)>>, used |-> 2]
        [] next = 2 -> [colour |-> <<"rgb", value(2), value(3), value(4)>>, used |-> 4]
        [] OTHER    -> [colour |-> field, used |-> 0]

(* A code on its own.                                                      *)
Selected(pen, code) ==
  CASE code = 0              -> Plain
    [] code \in 1 .. 9       -> [pen EXCEPT !.attrs = @ \cup {Attribute[code]}]
    [] code \in (21 .. 29) \ {26} -> [pen EXCEPT !.attrs = @ \ Cleared(code)]
    [] code \in 30 .. 37     -> [pen EXCEPT !.fg = <<"ansi", code - 30>>]
    [] code = 39             -> [pen EXCEPT !.fg = Default]
    [] code \in 40 .. 47     -> [pen EXCEPT !.bg = <<"ansi", code - 40>>]
    [] code = 49             -> [pen EXCEPT !.bg = Default]
    [] code \in 90 .. 97     -> [pen EXCEPT !.fg = <<"bright", code - 90>>]
    [] code \in 100 .. 107   -> [pen EXCEPT !.bg = <<"bright", code - 100>>]
    [] OTHER                 -> pen

(* The pen and the next parameter after the one at i.                      *)
Command(pen, params, i) ==
  LET code == params[i][1]
  IN  CASE code = 38 -> LET e == Extended(params, i, pen.fg)
                        IN  [pen |-> [pen EXCEPT !.fg = e.colour], next |-> i + 1 + e.used]
        [] code = 48 -> LET e == Extended(params, i, pen.bg)
                        IN  [pen |-> [pen EXCEPT !.bg = e.colour], next |-> i + 1 + e.used]
        [] OTHER     -> [pen |-> Selected(pen, code), next |-> i + 1]

(* params is a sequence of parameters, each the sequence of its            *)
(* sub-parameters.                                                         *)
ApplySgr(pen, params) ==
  IF params = <<>>
    THEN Plain
    ELSE FoldLeft(LAMBDA acc, i : IF i < acc.next THEN acc ELSE Command(acc.pen, params, i),
                  [pen |-> pen, next |-> 1],
                  [i \in 1 .. Len(params) |-> i]).pen

ColourCodes(colour, ground) ==
  CASE colour = Default       -> <<>>
    [] colour[1] = "ansi"     -> <<ground + colour[2]>>
    [] colour[1] = "bright"   -> <<ground + 60 + colour[2]>>
    [] colour[1] = "indexed"  -> <<ground + 8, 5, colour[2]>>
    [] colour[1] = "rgb"      -> <<ground + 8, 2, colour[2], colour[3], colour[4]>>

(* The sequence a snapshot selects a pen with: a reset, the attributes,    *)
(* then the colours.                                                       *)
BuildSgr(pen) ==
  LET set == SelectSeq(<<1, 2, 3, 4, 5, 7, 8, 9>>, LAMBDA c : Attribute[c] \in pen.attrs)
      codes == <<0>> \o set \o ColourCodes(pen.fg, 30) \o ColourCodes(pen.bg, 40)
  IN  [i \in DOMAIN codes |-> <<codes[i]>>]

=============================================================================
