----------------------------- MODULE KeyEncoding -----------------------------
(***************************************************************************)
(* What an application reads when a key or a mouse button is pressed.  Two *)
(* pieces of code say so: the UI encodes its window's events by the modes  *)
(* of its own copy of the screen, and the host encodes the key specs and   *)
(* mouse requests of other clients.  A press reaches the application as a  *)
(* sequence of codes: a byte, or an escape sequence by its form, number    *)
(* and parameters.                                                         *)
(***************************************************************************)
EXTENDS Naturals, Sequences, FiniteSets, SequencesExt, FiniteSetsExt

Modifiers == {"ctrl", "alt", "shift"}

Protocols == {"legacy", "csi-u", "kitty"}

CONSTANTS
  Letters,        \* the letter keys tried: the place in the alphabet, by name
  Literals,       \* other keys that type: the character without and with Shift, by name
  Aliases,        \* names only the host has for keys
  Specs,          \* key specs tried, each as the parts between its plus signs
  Cells,          \* columns and rows tried
  ModesTried      \* what applications ask for

ASSUME KeyEncodingAssumption ==
  /\ \A l \in DOMAIN Letters : Letters[l] \in 1..26
  /\ \A l \in DOMAIN Literals : Literals[l] \in Seq(32..126) /\ Len(Literals[l]) = 2
  /\ Cells \subseteq Nat
  /\ ModesTried \subseteq [protocol : Protocols, mouse : BOOLEAN, sgr : BOOLEAN]

VARIABLES
  modes,          \* what the application has asked for: keyboard protocol, mouse reports, their form
  mirror,         \* the same in the UI's copy of the screen
  read            \* what the last press was, who sent it, and what the application read

keyVars == <<modes, mirror, read>>

-----------------------------------------------------------------------------
(* Codes.                                                                  *)

Code(form, n, params) == <<[form |-> form, n |-> n, params |-> params]>>

Byte(n) == Code("byte", n, <<>>)

(* xterm's modifier parameter.                                             *)
ModParam(mods) ==
  1 + (IF "shift" \in mods THEN 1 ELSE 0) + (IF "alt" \in mods THEN 2 ELSE 0) + (IF "ctrl" \in mods THEN 4 ELSE 0)

Param(mods) == IF mods = {} THEN <<>> ELSE <<ModParam(mods)>>

CsiFinal == [Up |-> 65, Down |-> 66, Right |-> 67, Left |-> 68, Home |-> 72, End |-> 70]

CsiTilde == [Insert |-> 2, Delete |-> 3, PageUp |-> 5, PageDown |-> 6, F5 |-> 15, F6 |-> 17, F7 |-> 18, F8 |-> 19,
             F9 |-> 20, F10 |-> 21, F11 |-> 23, F12 |-> 24]

Ss3 == [F1 |-> 80, F2 |-> 81, F3 |-> 82, F4 |-> 83]

SpecialKeys == {"Enter", "Tab", "Escape", "Space", "Backspace"} \cup DOMAIN CsiFinal \cup DOMAIN CsiTilde \cup DOMAIN Ss3

KeyNames == SpecialKeys \cup DOMAIN Letters \cup DOMAIN Literals

(* No two keys type the same.                                              *)
ASSUME KeyboardAssumption ==
  /\ DOMAIN Letters \cap DOMAIN Literals = {} /\ SpecialKeys \cap (DOMAIN Letters \cup DOMAIN Literals) = {}
  /\ \A l, m \in DOMAIN Letters : Letters[l] = Letters[m] => l = m
  /\ \A l \in DOMAIN Literals : ToSet(Literals[l]) \cap ({32} \cup 65..90 \cup 97..122) = {}
  /\ \A l, m \in DOMAIN Literals : ToSet(Literals[l]) \cap ToSet(Literals[m]) # {} => l = m

Bug_NoParam(n, mods) == Code("csi", n, <<>>)

(* With a parameter the function keys F1 to F4 change their form.          *)
CsiKey(n, mods) == Code("csi", n, Param(mods))

Ss3OrCsi(n, mods) == IF mods = {} THEN Code("ss3", n, <<>>) ELSE CsiKey(n, mods)

(* special_key_bytes, of the UI and of the host: the same but for Space,   *)
(* which the UI leaves to the text that follows the key.                   *)
SpecialBytes(key, mods, protocol, space) ==
  CASE key = "Enter" -> IF mods = {} \/ protocol = "legacy" THEN Byte(13) ELSE Code("u", 13, Param(mods))
    [] key = "Tab" -> IF "shift" \in mods THEN Code("csi", 90, <<>>) ELSE Byte(9)
    [] key = "Escape" -> Byte(27)
    [] key = "Space" -> IF "ctrl" \in mods THEN Byte(0) ELSE space
    [] key = "Backspace" -> IF "ctrl" \in mods THEN Byte(8) ELSE Byte(127)
    [] key \in DOMAIN CsiFinal -> CsiKey(CsiFinal[key], mods)
    [] key \in DOMAIN CsiTilde -> Code("csi~", CsiTilde[key], Param(mods))
    [] key \in DOMAIN Ss3 -> Ss3OrCsi(Ss3[key], mods)

-----------------------------------------------------------------------------
(* The UI.                                                                 *)

(* What Windows says a press types, on an American keyboard.  Control      *)
(* characters are dropped.                                                 *)
Typed(key, mods) ==
  LET shift == IF "shift" \in mods THEN 1 ELSE 0
  IN  IF "ctrl" \in mods /\ ("alt" \in mods \/ key # "Space") THEN <<>>
      ELSE IF key = "Space" THEN Byte(32)
      ELSE IF key \in DOMAIN Letters THEN Byte(Letters[key] + 96 - 32 * shift)
      ELSE IF key \in DOMAIN Literals THEN Byte(Literals[key][1 + shift])
      ELSE <<>>

Bug_OnlyPlainCtrl(key, mods, protocol) ==
  IF key \in DOMAIN Letters /\ mods = {"ctrl"} THEN Byte(Letters[key])
  ELSE IF key \in SpecialKeys THEN SpecialBytes(key, mods, protocol, IF "alt" \in mods THEN Byte(32) ELSE <<>>)
  ELSE <<>>

(* key_event_to_bytes_with_protocol, of the key events of the window,      *)
(* which have no character.                                                *)
KeyEventBytes(key, mods, protocol) ==
  IF key \in DOMAIN Letters /\ "ctrl" \in mods /\ "alt" \notin mods THEN Byte(Letters[key])
  ELSE IF key \in SpecialKeys THEN SpecialBytes(key, mods, protocol, IF "alt" \in mods THEN Byte(32) ELSE <<>>)
  ELSE <<>>

(* A press is a key event and the text after it.                           *)
Pressed(key, mods, protocol) == KeyEventBytes(key, mods, protocol) \o Typed(key, mods)

-----------------------------------------------------------------------------
(* The host.                                                               *)

(* literal_key_codepoint: Shift is looked at for letters only.             *)
LiteralBytes(key, mods) ==
  CASE key \in DOMAIN Letters -> Byte(Letters[key] + IF "shift" \in mods THEN 64 ELSE 96)
    [] key \in DOMAIN Literals -> Byte(Literals[key][1])
    [] key = "Space" -> Byte(32)
    [] OTHER -> <<>>

(* key_spec_to_bytes.                                                      *)
KeySpecBytes(key, mods, protocol) ==
  LET literal == LiteralBytes(key, mods)
      meta    == IF "alt" \in mods THEN Byte(27) ELSE <<>>
  IN  CASE protocol = "kitty" /\ mods # {} /\ literal # <<>> -> Code("u", literal[1].n, Param(mods))
        [] ~(protocol = "kitty" /\ mods # {}) /\ "ctrl" \in mods /\ key \in DOMAIN Letters -> meta \o Byte(Letters[key])
        [] ~(protocol = "kitty" /\ mods # {} /\ literal # <<>>) /\ key \in SpecialKeys ->
             SpecialBytes(key, mods, protocol, Byte(32))
        [] OTHER -> meta \o literal

NotAKey == [key |-> "none", mods |-> {}]

(* KeySpec::parse: only the last part may be anything but a modifier, so a *)
(* plus sign is no key; and a modifier alone is none either.               *)
Parsed(parts) ==
  LET last == parts[Len(parts)]
      name == IF last \in DOMAIN Aliases THEN Aliases[last] ELSE last
  IN  IF name \in KeyNames /\ ToSet(Front(parts)) \subseteq Modifiers
      THEN [key |-> name, mods |-> ToSet(Front(parts))] ELSE NotAKey

(* encode_key_specs, which knows no protocol: one bad spec and nothing is  *)
(* sent.                                                                   *)
EncodedSpecs(specs) ==
  LET keys == [i \in DOMAIN specs |-> Parsed(specs[i])]
  IN  IF NotAKey \in ToSet(keys) THEN <<>>
      ELSE FlattenSeq([i \in DOMAIN keys |-> KeySpecBytes(keys[i].key, keys[i].mods, "csi-u")])

-----------------------------------------------------------------------------
(* The mouse: the same code on both sides.                                 *)

Buttons == [left |-> 0, middle |-> 1, right |-> 2, none |-> 3, up |-> 64, down |-> 65]

ButtonCode(button, mods, motion) ==
  Buttons[button] + (IF "shift" \in mods THEN 4 ELSE 0) + (IF "alt" \in mods THEN 8 ELSE 0)
    + (IF "ctrl" \in mods THEN 16 ELSE 0) + (IF motion THEN 32 ELSE 0)

(* The old form has a byte for a column: `(col + 1) as u8`, saturating.    *)
X10(n) == Min({((n + 1) % 256) + 32, 255})

(* encode_mouse_event: the old form does not say what was released.        *)
MouseEvent(button, press, col, row, mods, sgr) ==
  LET cb == ButtonCode(button, mods, FALSE)
  IN  IF sgr THEN Code(IF press THEN "sgr" ELSE "sgr-release", cb, <<col + 1, row + 1>>)
      ELSE Code("x10", IF press THEN cb + 32 ELSE 35, <<X10(col), X10(row)>>)

(* encode_mouse_motion.                                                    *)
MouseMotion(button, col, row, mods, sgr) ==
  LET cb == ButtonCode(button, mods, TRUE)
  IN  IF sgr THEN Code("sgr", cb, <<col + 1, row + 1>>) ELSE Code("x10", cb + 32, <<X10(col), X10(row)>>)

MouseRequests ==
  [kind : {"press", "release", "click", "move", "wheel-up", "wheel-down"}, button : {"left", "none"}, col : Cells,
   row : {0}, mods : {{}, {"shift", "ctrl"}}, repeat : 0..2]

Repeated(codes, n) == FlattenSeq([i \in 1..n |-> codes])

(* encode_mouse_input: what is refused is empty.                           *)
MouseInput(m, sgr) ==
  LET event(press) == MouseEvent(m.button, press, m.col, m.row, m.mods, sgr)
      wheel(b)     == Repeated(MouseEvent(b, TRUE, m.col, m.row, m.mods, sgr), m.repeat)
  IN  CASE m.repeat = 0 \/ (m.kind \in {"press", "release", "click"} /\ m.button = "none") -> <<>>
        [] m.repeat # 0 /\ m.kind = "wheel-up" -> wheel("up")
        [] m.repeat # 0 /\ m.kind = "wheel-down" -> wheel("down")
        [] m.repeat # 0 /\ m.kind = "move" -> MouseMotion(m.button, m.col, m.row, m.mods, sgr)
        [] m.repeat # 0 /\ m.button # "none" /\ m.kind = "press" -> event(TRUE)
        [] m.repeat # 0 /\ m.button # "none" /\ m.kind = "release" -> event(FALSE)
        [] OTHER -> event(TRUE) \o event(FALSE)

-----------------------------------------------------------------------------
(* Steps.                                                                  *)

Nothing == [by |-> "nobody", what |-> "none", codes |-> <<>>]

KeysInit ==
  /\ modes = [protocol |-> "legacy", mouse |-> FALSE, sgr |-> FALSE]
  /\ mirror = modes
  /\ read = Nothing

(* The application changes a mode; its output reaches the host's screen at *)
(* once, and the UI's later.                                               *)
Negotiate == modes' \in ModesTried \ {modes} /\ UNCHANGED <<mirror, read>>

Mirrored == mirror' = modes /\ UNCHANGED <<modes, read>>

Reads(by, what, codes) ==
  /\ read = Nothing /\ codes # <<>>
  /\ read' = [by |-> by, what |-> what, codes |-> codes] /\ UNCHANGED <<modes, mirror>>

(* The application waits for the next.                                     *)
Await == read # Nothing /\ read' = Nothing /\ UNCHANGED <<modes, mirror>>

PressKey == \E key \in KeyNames, mods \in SUBSET Modifiers :
  Reads("ui", [key |-> key, mods |-> mods, protocol |-> mirror.protocol], Pressed(key, mods, mirror.protocol))

(* handle_keys.                                                            *)
SendKeys == \E spec \in Specs : \E specs \in {<<spec>>, <<spec, spec>>} : Reads("keys", specs, EncodedSpecs(specs))

(* handle_mouse: refused unless the application reports the mouse, or the  *)
(* client forces it.                                                       *)
SendMouse == \E m \in MouseRequests : \E force \in BOOLEAN :
  (modes.mouse \/ force) /\ Reads("mouse", m, MouseInput(m, modes.sgr))

PressMouse == \E m \in MouseRequests :
  /\ mirror.mouse /\ m.kind \in {"press", "release"} /\ m.button # "none"
  /\ Reads("mouse", m, MouseEvent(m.button, m.kind = "press", m.col, m.row, m.mods, mirror.sgr))

KeysNext == Negotiate \/ Mirrored \/ Await \/ PressKey \/ SendKeys \/ SendMouse \/ PressMouse

KeysSpec == KeysInit /\ [][KeysNext]_keyVars

-----------------------------------------------------------------------------
(* Properties.                                                             *)

(* Two presses a terminal does not tell apart: with and without Shift or   *)
(* Alt where no parameter says so, control codes that are keys too, and    *)
(* Enter before anything was negotiated.                                   *)
Alike(p, q) ==
  LET plain == {"Tab", "Escape", "Backspace", "Space"} \cup DOMAIN Letters \cup DOMAIN Literals
      ctrl  == IF p.key \in DOMAIN Letters /\ "ctrl" \in p.mods THEN Letters[p.key] ELSE 0
  IN  \/ p.key = q.key /\ p.key \in plain
         /\ (p.mods \cap {"ctrl"} = q.mods \cap {"ctrl"} \/ p.key \in {"Tab", "Escape"})
      \/ p.key = q.key /\ p.key = "Enter" /\ p.protocol = "legacy"
      \/ <<ctrl, q.key>> \in {<<8, "Backspace">>, <<9, "Tab">>, <<13, "Enter">>}

(* An application told of a key cannot take it for another one, but where  *)
(* every terminal leaves it that choice.                                   *)
KeysToldApart ==
  read.by = "ui" =>
    \A key \in KeyNames, mods \in SUBSET Modifiers :
      LET p == read.what
          q == [key |-> key, mods |-> mods, protocol |-> p.protocol]
      IN  p # q /\ read.codes = Pressed(key, mods, p.protocol) => Alike(p, q) \/ Alike(q, p)

(* A key sent by `wtd keys` is read as the key pressed in the UI is: but   *)
(* for Alt with what types, which the UI sends without the Alt; Ctrl or    *)
(* Shift with characters that are no letters; and Enter with a modifier,   *)
(* which the host sends as if the application had asked for it.            *)
SentAsTyped ==
  read.by = "keys" /\ Len(read.what) = 1 =>
    LET k     == Parsed(read.what[1])
        types == k.key \in DOMAIN Letters \cup DOMAIN Literals \cup {"Space"}
    IN  \/ read.codes = Pressed(k.key, k.mods, modes.protocol)
        \/ types /\ "alt" \in k.mods
        \/ types /\ k.key \notin DOMAIN Letters /\ k.mods # {}
        \/ k.key = "Enter" /\ k.mods # {} /\ modes.protocol = "legacy"

(* The column and row of a report are those of the mouse, wherever the     *)
(* form can hold them; a click is a press and a release of one place.      *)
CellsToldApart ==
  read.by = "mouse" =>
    \A i \in DOMAIN read.codes :
      LET code == read.codes[i]
          off  == IF code.form = "x10" THEN 33 ELSE 1
      IN  code.form # "x10" \/ read.what.col < 223 => code.params = <<off + read.what.col, off + read.what.row>>

(* An application takes no key for another one, and reads the cell of the  *)
(* mouse, wherever the code it is sent could say so.                       *)
ToldApart == KeysToldApart /\ CellsToldApart

(* What is typed, sent by name or clicked is what an application reads,    *)
(* and nothing else.                                                       *)
ReadAsMeant == ToldApart /\ SentAsTyped

=============================================================================
