-------------------------------- MODULE UiKeys --------------------------------
(***************************************************************************)
(* The keyboard of the UI.  Windows gives a key press as two events: a key *)
(* event, which never carries a character, and then, if the key types      *)
(* something, a text event.  The loop of the UI passes the first through   *)
(* palette, mark mode, pass-through and prefix chords, and the second      *)
(* through palette, pass-through and chords, and what is left goes to the  *)
(* focused pane.  A press is one step: both its events wait when the loop  *)
(* drains the queue.  Panes have the numbers the last snapshot gave them,  *)
(* and everything kept by pane is kept by that number.                     *)
(***************************************************************************)
EXTENDS Naturals, Sequences, SequencesExt

CONSTANTS
  Keys,           \* records: name, event, prefix, escape, bytes, text, alt, single, chord, char, mark, palette
  Kind,           \* by pane: does it report the mouse, is it on the alternate screen
  Layouts         \* the panes of the active tab, in order, that a snapshot may show

ASSUME UiKeysAssumption ==
  /\ \A l \in Layouts : l \in Seq(DOMAIN Kind) /\ l # <<>>
  /\ \A pane \in DOMAIN Kind : Kind[pane] \in [mouse : BOOLEAN, alternate : BOOLEAN]

(* The bindings of the presets: a key that is bound and types something    *)
(* has Alt, and the prefix types nothing.  (Nothing keeps a user from      *)
(* binding a letter, which then acts and is typed too.)                    *)
ASSUME KeysAssumption ==
  /\ Keys \subseteq [name : STRING, event : BOOLEAN, prefix : BOOLEAN, escape : BOOLEAN, bytes : BOOLEAN,
                     text : BOOLEAN, alt : BOOLEAN, single : STRING, chord : STRING, char : STRING,
                     mark : STRING, palette : STRING]
  /\ \A k \in Keys : (k.single # "none" /\ k.text => k.alt) /\ (k.prefix => ~k.text)

VARIABLE ui
  \* layout, focus; prefix, armed and suppress flags; palette; the pane marked by keys;
  \* panes with a selection; panes of a selection and of a mouse press in progress;
  \* whether a snapshot is asked for

None == "none"

Actions == {"toggle-command-palette", "pass-through-next-key", "mark-mode", "select-all", "clear-buffer",
            "paste", "rename-pane", "goto-tab", "focus-next-pane", "split-right"}

Prompts == {"rename-pane"}

(* MouseHandler::clear_selection.                                          *)
Cleared(u, pane) ==
  [u EXCEPT !.selected = @ \ {pane}, !.selecting = IF @ = pane THEN 0 ELSE @, !.vt = IF @ = pane THEN 0 ELSE @]

(* prepare_pane_for_live_input, before keys, text or a paste.              *)
Prepared(u, pane) ==
  IF pane \in u.selected /\ ~Kind[u.layout[pane]].alternate THEN Cleared(u, pane) ELSE u

(* MouseHandler::set_selection.                                            *)
Selected(u, pane) == [u EXCEPT !.selected = @ \cup {pane}, !.selecting = IF @ = pane THEN 0 ELSE @]

(* dispatch_action: the actions not named here are asked of the host.  A   *)
(* prompt has its action's argument, and goto-tab has one only as it is    *)
(* bound.                                                                  *)
Dispatch(u, action, args) ==
  CASE action \in Prompts /\ ~args -> [u EXCEPT !.palette = action]
    [] action = "toggle-command-palette" -> [u EXCEPT !.palette = IF @ = None THEN "list" ELSE None]
    [] action = "pass-through-next-key" -> [u EXCEPT !.armed = TRUE]
    [] action = "mark-mode" ->
         [(IF u.focus \in u.selected THEN u ELSE Selected(u, u.focus)) EXCEPT !.marking = u.focus]
    [] action = "select-all" -> [Selected(u, u.focus) EXCEPT !.marking = u.focus]
    [] action = "clear-buffer" -> [Cleared(u, u.focus) EXCEPT !.marking = 0, !.asked = TRUE]
    [] action = "paste" -> Prepared(u, u.focus)
    [] action = "goto-tab" /\ ~args -> u
    [] OTHER -> [u EXCEPT !.asked = TRUE]

(* What a lane makes of its event: the UI then, and where the event went.  *)
To(u, went) == [ui |-> u, went |-> went]

Sent(u, went) == To(Prepared(u, u.focus), went)

-----------------------------------------------------------------------------
(* Key events.                                                             *)

(* The palette takes every key, but for bindings of actions it lists.      *)
PaletteKey(u, k, chosen) ==
  LET hidden == [u EXCEPT !.palette = None]
  IN  IF k.single # None THEN To(Dispatch(u, k.single, FALSE), {"action"})
      ELSE IF k.palette = "dismiss" THEN To(hidden, {"used"})
      ELSE IF k.palette # "enter" THEN To(u, {"used"})
      ELSE IF u.palette # "list" THEN To(Dispatch(hidden, u.palette, TRUE), {"action"})
      ELSE IF chosen = None THEN To(hidden, {"used"})
      ELSE To(Dispatch(hidden, chosen, FALSE), {"action"})

(* apply_optimistic_focus_action.                                          *)
Optimistic(u, action) ==
  IF action = "focus-next-pane" THEN [u EXCEPT !.focus = (@ % Len(u.layout)) + 1] ELSE u

Bug_NotSuppressed(u, k, action) ==
  To(Optimistic(Dispatch(u, action, action = "goto-tab"), action), {"action"})

(* A bound key, with the text a key with Alt may have to come.             *)
Bound(u, k, action) ==
  To([Optimistic(Dispatch(u, action, action = "goto-tab"), action) EXCEPT !.suppress = @ \/ k.alt], {"action"})

(* PrefixStateMachine::process_with_protocol.                              *)
PrefixKey(u, k) ==
  LET idle == [u EXCEPT !.prefix = FALSE]
      raw  == IF k.bytes THEN {"pane"} ELSE {}
  IN  IF u.prefix
        THEN IF k.escape THEN To(idle, {"used"})
             ELSE IF k.prefix THEN Sent(idle, {"prefix"})
             ELSE IF k.chord # None THEN Bound(idle, k, k.chord)
             ELSE Sent(idle, raw \cup {"prefix"})
        ELSE IF k.prefix THEN To([u EXCEPT !.prefix = TRUE], {"used"})
             ELSE IF k.single # None THEN Bound(u, k, k.single)
             ELSE IF k.bytes THEN Sent(u, raw) ELSE To(u, {})

(* move_keyboard_selection; mark mode ends when the focus has moved.       *)
MarkKey(u, k) ==
  IF k.mark = "end" THEN To([u EXCEPT !.marking = 0], {"used"}) ELSE To(Selected(u, u.focus), {"used"})

(* A key event: only keys with bytes of their own disarm pass-through.     *)
KeyLane(u, k, chosen) ==
  LET v == IF u.marking = u.focus THEN u ELSE [u EXCEPT !.marking = 0]
  IN  CASE ~k.event           -> To(u, {})
        [] k.event /\ u.palette # None -> PaletteKey(u, k, chosen)
        [] k.event /\ u.palette = None /\ v.marking # 0 /\ k.mark # None -> MarkKey(v, k)
        [] OTHER -> IF ~v.armed THEN PrefixKey(v, k)
                    ELSE IF k.bytes THEN Sent([v EXCEPT !.armed = FALSE], {"pane"}) ELSE To(v, {})

-----------------------------------------------------------------------------
(* Text events.                                                            *)

(* PrefixStateMachine::process_text: here a key has its character.         *)
PrefixText(u, k) ==
  LET idle == [u EXCEPT !.prefix = FALSE]
  IN  IF k.char # None THEN To(Dispatch(idle, k.char, FALSE), {"action"}) ELSE Sent(idle, {"prefix", "pane"})

TextLane(u, k) ==
  CASE ~k.text -> To(u, {})
    [] k.text /\ u.suppress -> To([u EXCEPT !.suppress = FALSE], {"swallowed"})
    [] k.text /\ ~u.suppress /\ u.palette # None -> To(u, {"query"})
    [] OTHER -> IF u.armed THEN Sent([u EXCEPT !.armed = FALSE], {"pane"})
                ELSE IF u.prefix THEN PrefixText(u, k) ELSE Sent(u, {"pane"})

(* The item of the palette that Enter may find selected.                   *)
Chosen(k) == IF k.palette = "enter" THEN Actions \cup {None} ELSE {None}

Press(k, chosen) == ui' = TextLane(KeyLane(ui, k, chosen).ui, k).ui

(* check_timeout.                                                          *)
PrefixTimeout == ui.prefix /\ ui' = [ui EXCEPT !.prefix = FALSE]

(* The handler of Connected replaces the tabs, and nothing else.           *)
Snapshot(layout, focus) ==
  /\ ui.asked /\ focus \in DOMAIN layout
  /\ ui' = [ui EXCEPT !.layout = layout, !.focus = focus, !.asked = FALSE]

-----------------------------------------------------------------------------
Fresh(layout) ==
  [layout |-> layout, focus |-> 1, prefix |-> FALSE, armed |-> FALSE, suppress |-> FALSE, palette |-> None,
   marking |-> 0, selected |-> {}, selecting |-> 0, vt |-> 0, asked |-> FALSE]

Init == \E layout \in Layouts : ui = Fresh(layout)

Next ==
  \/ \E k \in Keys : \E chosen \in Chosen(k) : Press(k, chosen)
  \/ PrefixTimeout
  \/ \E layout \in Layouts : \E focus \in DOMAIN layout : Snapshot(layout, focus)

Spec == Init /\ [][Next]_ui

-----------------------------------------------------------------------------
(* Properties: of every press in every state the UI comes to.              *)

(* What a key types reaches one place: it is not both an action and text   *)
(* of a pane or a query, unless a chord names the key (Space) or the       *)
(* palette is open; it is in a pane once, unless the key has bytes too     *)
(* (Alt+Space); it stays out of the panes while the palette is open.  It   *)
(* is dropped when the key itself is bound with Alt and acted; or when an  *)
(* earlier one did that types nothing (Ctrl+Alt+1): the flag that is left  *)
(* then (main.rs:1190, 3360) takes the next text, of whatever key (3400).  *)
(* Only such keys leave it, and no key that types does: of each, no more   *)
(* than one text is lost.                                                  *)
OneEffect ==
  \A k \in Keys : \A chosen \in Chosen(k) :
    LET key  == KeyLane(ui, k, chosen)
        text == TextLane(key.ui, k)
        acts == k.alt /\ "action" \in key.went
    IN  /\ "action" \in key.went /\ text.went \ {"swallowed"} # {} =>
             ui.palette # None \/ (ui.prefix /\ k.chord # None)
        /\ "pane" \in key.went \cap text.went => k.bytes /\ k.text
        /\ "prefix" \in key.went \cup text.went => ui.prefix /\ "prefix" \notin key.went \cap text.went
        /\ "swallowed" \in text.went => acts \/ ui.suppress
        /\ text.ui.suppress => ~k.text /\ (acts \/ ui.suppress)
        /\ ui.palette # None /\ key.ui.palette # None => "pane" \notin key.went \cup text.went

=============================================================================
