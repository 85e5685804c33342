------------------------------ MODULE MCKeyboard ------------------------------
(* The keys that differ in how the loop takes them, under the tmux preset  *)
(* and the bindings of Windows Terminal, and panes of each kind.           *)

Unbound == "none"

Plain == [name |-> "x", event |-> TRUE, prefix |-> FALSE, escape |-> FALSE, bytes |-> FALSE, text |-> TRUE,
          alt |-> FALSE, single |-> Unbound, chord |-> Unbound, char |-> Unbound, mark |-> Unbound, palette |-> "other"]

Named(name) == [Plain EXCEPT !.name = name, !.bytes = TRUE, !.text = FALSE]

Shortcut(name, action) == [Named(name) EXCEPT !.single = action]

MCKeys == {
  Plain,
  [Plain EXCEPT !.name = "o", !.char = "focus-next-pane"],
  [Plain EXCEPT !.name = "o of an input method", !.event = FALSE, !.char = "focus-next-pane"],
  [Plain EXCEPT !.name = "Space", !.chord = "mark-mode", !.char = "mark-mode"],
  [Plain EXCEPT !.name = "Alt+Space", !.bytes = TRUE, !.alt = TRUE, !.chord = "mark-mode", !.char = "mark-mode"],
  [Plain EXCEPT !.name = "Alt+Shift+D", !.alt = TRUE, !.single = "split-right"],
  [Plain EXCEPT !.name = "Ctrl+Alt+1", !.alt = TRUE, !.text = FALSE, !.single = "goto-tab"],
  [Named("Ctrl+B") EXCEPT !.prefix = TRUE],
  [Named("Escape") EXCEPT !.escape = TRUE, !.mark = "end", !.palette = "dismiss"],
  [Named("Enter") EXCEPT !.mark = "end", !.palette = "enter"],
  [Named("Up") EXCEPT !.mark = "move", !.chord = "focus-next-pane"],
  [Shortcut("Ctrl+Shift+Space", "toggle-command-palette") EXCEPT !.chord = "mark-mode"],
  Shortcut("Ctrl+Shift+A", "select-all"),
  Shortcut("Ctrl+Shift+K", "clear-buffer"),
  Shortcut("F2", "rename-pane"),
  Shortcut("Ctrl+Shift+V", "paste"),
  Shortcut("F12", "pass-through-next-key")}

MCKind == [shell |-> [mouse |-> FALSE, alternate |-> FALSE],
           inline |-> [mouse |-> TRUE, alternate |-> FALSE],
           editor |-> [mouse |-> TRUE, alternate |-> TRUE]]

MCLayouts == {<<"shell", "inline">>, <<"editor">>}

=============================================================================
