------------------------------ MODULE InputProofs ------------------------------
(***************************************************************************)
(* Proofs about what a user does in a window.  First UiKeys and UiMouse:   *)
(* every press and every drag of the mouse ends with the button, and what  *)
(* a key types reaches one place.  Then UiView: what a pane shows and has  *)
(* selected is what the user chose, while its buffer grows.  At last       *)
(* KeyEncoding: what an application reads tells which key it was, and      *)
(* where the mouse is.                                                     *)
(*                                                                         *)
(* Whatever the keyboard and the palette do to the window, they leave its  *)
(* panes as they are and can only end a selection or forget a press, never *)
(* begin one (Becomes): all else about them is left aside in the argument  *)
(* about the mouse.  That a release settles everything needs that one      *)
(* press began at most one thing, so Apart says which of them exclude each *)
(* other while the button is down.                                         *)
(*                                                                         *)
(* Of a view, SelectionsHeld and StillThere tie what is kept by row to the *)
(* lines that are in those rows now.  A step of a buffer keeps them where  *)
(* it keeps the lines (Renewed); every other step changes one pane's view  *)
(* (OneShown), or that and one that is told of the mouse (MouseShown).     *)
(*                                                                         *)
(* Of a press, the first code alone tells the key (FirstTold), whatever    *)
(* kind it is of: the kinds have different forms or different numbers.     *)
(***************************************************************************)
EXTENDS UiMouse, UiView, KeyEncoding, FiniteSetTheorems, SequenceTheorems, WellFoundedInduction, TLAPS

Palettes == {None, "list"} \cup Prompts

(* What a window keeps for its keys and its mouse.                         *)
Windows ==
  [layout : Layouts, focus : Nat, prefix : BOOLEAN, armed : BOOLEAN, suppress : BOOLEAN, palette : Palettes,
   marking : Nat, selected : SUBSET Nat, selecting : Nat, vt : Nat, asked : BOOLEAN]

IsWindow(u) == u \in Windows /\ u.focus \in DOMAIN u.layout

Drags == [splitting : BOOLEAN, drag : Nat, thumb : Nat]

Typing ==
  IsWindow(ui) /\ mouse \in Drags /\ button \in BOOLEAN /\ upset \in BOOLEAN

(* What one press began while the button is down.                          *)
Apart(u, m, told) ==
  /\ u.vt = 0 => told = {}
  /\ u.vt # 0 => u.vt \in DOMAIN u.layout /\ Kind[u.layout[u.vt]].mouse /\ told \subseteq {u.layout[u.vt]}
  /\ m.thumb # 0 => u.vt = 0 /\ u.selecting = 0 /\ ~m.splitting
  /\ m.drag # 0 => m.splitting /\ m.drag \in Splitters(u)

(* Unless something upset it, what is held or dragged was begun by one     *)
(* press of a button that is still down.                                   *)
InHand == ~upset => Settled(ui, mouse, button, held) \/ (button /\ Apart(ui, mouse, held))

MouseInv == Typing /\ InHand

-----------------------------------------------------------------------------
(* What keys and the palette make of a window.                             *)

(* A window with the same panes, which at most ended a selection and       *)
(* forgot a press.                                                         *)
Becomes(u, v) ==
  /\ IsWindow(v) /\ v.layout = u.layout
  /\ v.vt \in {u.vt, 0} /\ v.selecting \in {u.selecting, 0}

LEMMA BecomesSame ==
  ASSUME NEW u, IsWindow(u)
  PROVE  Becomes(u, u)
BY DEF Becomes

LEMMA BecomesAfter ==
  ASSUME NEW u, NEW v, NEW w, Becomes(u, v), Becomes(v, w)
  PROVE  Becomes(u, w)
BY DEF Becomes

(* Neither is the prefix touched, nor the text that is to be swallowed.    *)
Calm(u, v) == v.prefix = u.prefix /\ v.suppress = u.suppress

LEMMA CalmAfter ==
  ASSUME NEW u, NEW v, NEW w, Calm(u, v), Calm(v, w)
  PROVE  Calm(u, w)
BY DEF Calm

LEMMA ClearedBecomes ==
  ASSUME NEW u, IsWindow(u), NEW p
  PROVE  Becomes(u, Cleared(u, p)) /\ Calm(u, Cleared(u, p))
BY DEF Becomes, Calm, IsWindow, Windows, Cleared

LEMMA PreparedBecomes ==
  ASSUME NEW u, IsWindow(u), NEW p
  PROVE  Becomes(u, Prepared(u, p)) /\ Calm(u, Prepared(u, p))
BY ClearedBecomes, BecomesSame DEF Prepared, Calm

(* The focus is on a pane, and a pane is a number.                         *)
LEMMA FocusIsPane ==
  ASSUME NEW u, IsWindow(u)
  PROVE  /\ u.layout \in Seq(DOMAIN Kind) /\ Len(u.layout) \in Nat \ {0}
         /\ DOMAIN u.layout = 1 .. Len(u.layout)
         /\ u.focus \in Nat /\ u.focus \in 1 .. Len(u.layout)
BY UiKeysAssumption DEF IsWindow, Windows

LEMMA SelectedBecomes ==
  ASSUME NEW u, IsWindow(u), NEW p \in Nat
  PROVE  Becomes(u, Selected(u, p)) /\ Calm(u, Selected(u, p))
BY DEF Becomes, Calm, IsWindow, Windows, Selected

(* Parts of a window no pane nor press depends on.                         *)
LEMMA MarkedBecomes ==
  ASSUME NEW u, IsWindow(u), NEW n \in Nat
  PROVE  Becomes(u, [u EXCEPT !.marking = n]) /\ Calm(u, [u EXCEPT !.marking = n])
BY DEF Becomes, Calm, IsWindow, Windows

LEMMA FlaggedBecomes ==
  ASSUME NEW u, IsWindow(u), NEW b \in BOOLEAN
  PROVE  /\ Becomes(u, [u EXCEPT !.armed = b]) /\ Calm(u, [u EXCEPT !.armed = b])
         /\ Becomes(u, [u EXCEPT !.asked = b]) /\ Calm(u, [u EXCEPT !.asked = b])
         /\ Becomes(u, [u EXCEPT !.prefix = b])
         /\ Becomes(u, [u EXCEPT !.suppress = b])
BY DEF Becomes, Calm, IsWindow, Windows

LEMMA PaletteBecomes ==
  ASSUME NEW u, IsWindow(u), NEW palette \in Palettes
  PROVE  Becomes(u, [u EXCEPT !.palette = palette]) /\ Calm(u, [u EXCEPT !.palette = palette])
BY DEF Becomes, Calm, IsWindow, Windows

(* An action of the UI.                                                    *)
LEMMA DispatchBecomes ==
  ASSUME NEW u, IsWindow(u), NEW action, NEW args
  PROVE  Becomes(u, Dispatch(u, action, args)) /\ Calm(u, Dispatch(u, action, args))
<1> DEFINE D == Dispatch(u, action, args)
           Ok(v) == Becomes(u, v) /\ Calm(u, v)
<1>0. u.focus \in Nat /\ 0 \in Nat
  BY FocusIsPane
<1>1. Ok(u)
  BY BecomesSame DEF Calm
<1>2. CASE action \in Prompts /\ ~args
  <2>1. D = [u EXCEPT !.palette = action] /\ action \in Palettes
    BY <1>2 DEF Dispatch, Palettes, Prompts
  <2> QED BY <2>1, PaletteBecomes
<1>3. CASE action = "toggle-command-palette"
  <2>1. \E palette \in Palettes : D = [u EXCEPT !.palette = palette]
    BY <1>3 DEF Dispatch, Palettes, Prompts
  <2> QED BY <2>1, PaletteBecomes
<1>4. CASE action = "pass-through-next-key"
  <2>1. D = [u EXCEPT !.armed = TRUE]
    BY <1>4 DEF Dispatch, Prompts
  <2> QED BY <2>1, FlaggedBecomes
<1>5. CASE action = "mark-mode"
  <2> DEFINE v == IF u.focus \in u.selected THEN u ELSE Selected(u, u.focus)
  <2>1. D = [v EXCEPT !.marking = u.focus]
    BY <1>5 DEF Dispatch, Prompts
  <2>2. Ok(v)
    BY <1>0, <1>1, SelectedBecomes
  <2>3. IsWindow(v)
    BY <2>2 DEF Becomes
  <2> HIDE DEF v
  <2>4. Becomes(v, D) /\ Calm(v, D)
    BY <1>0, <2>1, <2>3, MarkedBecomes
  <2> QED BY <2>2, <2>4, BecomesAfter, CalmAfter
<1>6. CASE action = "select-all"
  <2> DEFINE v == Selected(u, u.focus)
  <2>1. D = [v EXCEPT !.marking = u.focus]
    BY <1>6 DEF Dispatch, Prompts
  <2>2. Ok(v)
    BY <1>0, SelectedBecomes
  <2>3. IsWindow(v)
    BY <2>2 DEF Becomes
  <2> HIDE DEF v
  <2>4. Becomes(v, D) /\ Calm(v, D)
    BY <1>0, <2>1, <2>3, MarkedBecomes
  <2> QED BY <2>2, <2>4, BecomesAfter, CalmAfter
<1>7. CASE action = "clear-buffer"
  <2> DEFINE v == Cleared(u, u.focus)
             w == [v EXCEPT !.marking = 0]
  <2>1. D = [w EXCEPT !.asked = TRUE]
    BY <1>7 DEF Dispatch, Prompts
  <2>2. Ok(v)
    BY ClearedBecomes
  <2>3. IsWindow(v)
    BY <2>2 DEF Becomes
  <2> HIDE DEF v
  <2>4. Becomes(v, w) /\ Calm(v, w)
    BY <1>0, <2>3, MarkedBecomes
  <2>5. IsWindow(w)
    BY <2>4 DEF Becomes
  <2> HIDE DEF w
  <2>6. Becomes(w, D) /\ Calm(w, D)
    BY <2>1, <2>5, FlaggedBecomes
  <2> QED BY <2>2, <2>4, <2>6, BecomesAfter, CalmAfter
<1>8. CASE action = "paste"
  <2>1. D = Prepared(u, u.focus)
    BY <1>8 DEF Dispatch, Prompts
  <2> QED BY <2>1, PreparedBecomes
<1>9. CASE ~(action \in Prompts /\ ~args) /\ action \notin {"toggle-command-palette", "pass-through-next-key",
                                                         "mark-mode", "select-all", "clear-buffer", "paste"}
  <2>1. D = u \/ D = [u EXCEPT !.asked = TRUE]
    BY <1>9 DEF Dispatch
  <2> QED BY <1>1, <2>1, FlaggedBecomes
<1> QED BY <1>2, <1>3, <1>4, <1>5, <1>6, <1>7, <1>8, <1>9

LEMMA OptimisticBecomes ==
  ASSUME NEW u, IsWindow(u), NEW action
  PROVE  Becomes(u, Optimistic(u, action)) /\ Calm(u, Optimistic(u, action))
<1> DEFINE n == Len(u.layout)
           f == (u.focus % n) + 1
<1>1. n \in Nat \ {0} /\ u.focus \in Nat /\ DOMAIN u.layout = 1 .. n
  BY FocusIsPane
<1>2. f \in 1 .. n /\ f \in Nat
  BY <1>1
<1>3. Optimistic(u, action) = [u EXCEPT !.focus = f] \/ Optimistic(u, action) = u
  BY DEF Optimistic
<1>4. Becomes(u, [u EXCEPT !.focus = f]) /\ Calm(u, [u EXCEPT !.focus = f])
  <2> HIDE DEF f, n
  <2> QED BY <1>1, <1>2 DEF Becomes, Calm, IsWindow, Windows
<1> QED BY <1>3, <1>4, BecomesSame DEF Calm

-----------------------------------------------------------------------------
(* A press of a key: the key event, then the text event.                   *)

LEMMA SentBecomes ==
  ASSUME NEW u, IsWindow(u), NEW went
  PROVE  Becomes(u, Sent(u, went).ui) /\ Calm(u, Sent(u, went).ui) /\ Sent(u, went).went = went
BY PreparedBecomes DEF Sent, To

LEMMA BoundBecomes ==
  ASSUME NEW u, IsWindow(u), NEW k \in Keys, NEW action
  PROVE  /\ Becomes(u, Bound(u, k, action).ui)
         /\ Bound(u, k, action).ui.prefix = u.prefix
         /\ Bound(u, k, action).ui.suppress = (u.suppress \/ k.alt)
         /\ Bound(u, k, action).went = {"action"}
<1> DEFINE v == Dispatch(u, action, action = "goto-tab")
           w == Optimistic(v, action)
           x == [w EXCEPT !.suppress = @ \/ k.alt]
<1>1. Bound(u, k, action) = [ui |-> x, went |-> {"action"}]
  BY DEF Bound, To
<1>2. Becomes(u, v) /\ Calm(u, v)
  BY DispatchBecomes
<1>3. IsWindow(v)
  BY <1>2 DEF Becomes
<1> HIDE DEF v
<1>4. Becomes(v, w) /\ Calm(v, w)
  BY <1>3, OptimisticBecomes
<1>5. IsWindow(w)
  BY <1>4 DEF Becomes
<1> HIDE DEF w
<1>6. k.alt \in BOOLEAN /\ w.suppress \in BOOLEAN
  BY <1>5, KeysAssumption DEF IsWindow, Windows
<1>7. Becomes(w, x)
  <2> DEFINE b == w.suppress \/ k.alt
  <2>1. b \in BOOLEAN
    OBVIOUS
  <2>2. x = [w EXCEPT !.suppress = b]
    OBVIOUS
  <2> HIDE DEF b, x
  <2> QED BY <1>5, <2>1, <2>2, FlaggedBecomes
<1>8. x.prefix = w.prefix /\ x.suppress = (w.suppress \/ k.alt)
  BY <1>5 DEF IsWindow, Windows
<1> HIDE DEF x
<1>9. Becomes(u, x)
  BY <1>2, <1>4, <1>7, BecomesAfter
<1>10. Calm(u, w)
  BY <1>2, <1>4, CalmAfter
<1> QED BY <1>1, <1>8, <1>9, <1>10 DEF Calm

LEMMA PaletteKeyBecomes ==
  ASSUME NEW u, IsWindow(u), NEW k \in Keys, NEW picked
  PROVE  /\ Becomes(u, PaletteKey(u, k, picked).ui) /\ Calm(u, PaletteKey(u, k, picked).ui)
         /\ PaletteKey(u, k, picked).went \in {{"action"}, {"used"}}
<1> DEFINE h == [u EXCEPT !.palette = None]
           P == PaletteKey(u, k, picked)
           Ok(v) == Becomes(u, v) /\ Calm(u, v)
<1>1. Ok(u)
  BY BecomesSame DEF Calm
<1>2. Ok(h)
  BY PaletteBecomes DEF Palettes
<1>3. IsWindow(h)
  BY <1>2 DEF Becomes
<1> HIDE DEF h
<1>4. ASSUME NEW action, NEW args
      PROVE  Ok(Dispatch(u, action, args)) /\ Ok(Dispatch(h, action, args))
  BY <1>2, <1>3, DispatchBecomes, BecomesAfter, CalmAfter
<1>5. ASSUME NEW v, NEW went, P = To(v, went), went \in {{"action"}, {"used"}},
             v = u \/ v = h \/ \E action, args : v = Dispatch(u, action, args) \/ v = Dispatch(h, action, args)
      PROVE  Ok(P.ui) /\ P.went \in {{"action"}, {"used"}}
  BY <1>1, <1>2, <1>4, <1>5 DEF To
<1> HIDE DEF Ok
<1>6. CASE k.single # None
  <2>1. P = To(Dispatch(u, k.single, FALSE), {"action"})
    BY <1>6 DEF PaletteKey
  <2> QED BY <1>5, <2>1 DEF Ok
<1>7. CASE k.single = None /\ k.palette = "dismiss"
  <2>1. P = To(h, {"used"})
    BY <1>7 DEF PaletteKey, h
  <2> QED BY <1>5, <2>1 DEF Ok
<1>8. CASE k.single = None /\ k.palette = "enter" /\ u.palette # "list"
  <2>1. P = To(Dispatch(h, u.palette, TRUE), {"action"})
    BY <1>8 DEF PaletteKey, h
  <2> QED BY <1>5, <2>1 DEF Ok
<1>9. CASE k.single = None /\ k.palette = "enter" /\ u.palette = "list" /\ picked = None
  <2>1. P = To(h, {"used"})
    BY <1>9 DEF PaletteKey, h
  <2> QED BY <1>5, <2>1 DEF Ok
<1>10. CASE k.single = None /\ k.palette = "enter" /\ u.palette = "list" /\ picked # None
  <2>1. P = To(Dispatch(h, picked, FALSE), {"action"})
    BY <1>10 DEF PaletteKey, h
  <2> QED BY <1>5, <2>1 DEF Ok
<1>11. CASE k.single = None /\ k.palette # "dismiss" /\ k.palette # "enter"
  <2>1. P = To(u, {"used"})
    BY <1>11 DEF PaletteKey
  <2> QED BY <1>5, <2>1 DEF Ok
<1> QED BY <1>6, <1>7, <1>8, <1>9, <1>10, <1>11

(* What the prefix leaves of a key, and where the key goes.                *)
LEMMA PrefixKeyBecomes ==
  ASSUME NEW u, IsWindow(u), NEW k \in Keys
  PROVE  LET r == PrefixKey(u, k)
         IN  /\ Becomes(u, r.ui)
             /\ "action" \in r.went => /\ r.ui.suppress = (u.suppress \/ k.alt)
                                       /\ (u.prefix /\ k.chord # None) \/ k.single # None
             /\ "action" \notin r.went => r.ui.suppress = u.suppress
             /\ "pane" \in r.went => k.bytes
             /\ "prefix" \in r.went => u.prefix /\ ~r.ui.prefix
             /\ r.ui.prefix => u.prefix \/ k.prefix
<1> DEFINE r == PrefixKey(u, k)
           idle == [u EXCEPT !.prefix = FALSE]
           raw == IF k.bytes THEN {"pane"} ELSE {}
<1>0. /\ u.prefix \in BOOLEAN /\ k.prefix \in BOOLEAN /\ k.escape \in BOOLEAN /\ k.bytes \in BOOLEAN
      /\ "action" \notin raw /\ "prefix" \notin raw /\ ("pane" \in raw => k.bytes)
  BY KeysAssumption DEF IsWindow, Windows
<1>1. Becomes(u, u) /\ Becomes(u, idle) /\ IsWindow(idle) /\ ~idle.prefix /\ idle.suppress = u.suppress
  <2>1. Becomes(u, idle)
    BY FlaggedBecomes
  <2> QED BY <2>1, BecomesSame DEF Becomes, IsWindow, Windows
<1>2. ASSUME NEW went
      PROVE  /\ Becomes(u, Sent(u, went).ui) /\ Calm(u, Sent(u, went).ui) /\ Sent(u, went).went = went
             /\ Becomes(u, Sent(idle, went).ui) /\ Calm(idle, Sent(idle, went).ui) /\ Sent(idle, went).went = went
  BY <1>1, SentBecomes, BecomesAfter
<1> HIDE DEF idle, raw
<1>3. CASE u.prefix /\ k.escape
  <2>1. r.ui = idle /\ r.went = {"used"}
    BY <1>3 DEF PrefixKey, To, idle
  <2> QED BY <1>1, <1>3, <2>1
<1>4. CASE u.prefix /\ ~k.escape /\ k.prefix
  <2>1. r = Sent(idle, {"prefix"})
    BY <1>4 DEF PrefixKey, idle
  <2>2. /\ Becomes(u, r.ui) /\ r.ui.prefix = FALSE /\ r.ui.suppress = u.suppress
        /\ r.went = {"prefix"}
    BY <1>1, <1>2, <2>1 DEF Calm
  <2> QED BY <1>4, <2>2
<1>5. CASE u.prefix /\ ~k.escape /\ ~k.prefix /\ k.chord # None
  <2>1. r = Bound(idle, k, k.chord)
    BY <1>5 DEF PrefixKey, idle
  <2>2. /\ Becomes(idle, r.ui) /\ r.ui.prefix = idle.prefix
        /\ r.ui.suppress = (u.suppress \/ k.alt) /\ r.went = {"action"}
    BY <1>1, <2>1, BoundBecomes
  <2> QED BY <1>1, <1>5, <2>2, BecomesAfter
<1>6. CASE u.prefix /\ ~k.escape /\ ~k.prefix /\ k.chord = None
  <2>1. r = Sent(idle, raw \cup {"prefix"})
    BY <1>6 DEF PrefixKey, idle, raw
  <2>2. /\ Becomes(u, r.ui) /\ r.ui.prefix = FALSE /\ r.ui.suppress = u.suppress
        /\ r.went = raw \cup {"prefix"}
    BY <1>1, <1>2, <2>1 DEF Calm
  <2> QED BY <1>0, <1>6, <2>2
<1>7. CASE ~u.prefix /\ k.prefix
  <2> DEFINE waiting == [u EXCEPT !.prefix = TRUE]
  <2>1. r.ui = waiting /\ r.went = {"used"}
    BY <1>7 DEF PrefixKey, To
  <2>2. Becomes(u, waiting) /\ waiting.suppress = u.suppress
    BY FlaggedBecomes DEF IsWindow, Windows
  <2> QED BY <1>7, <2>1, <2>2
<1>8. CASE ~u.prefix /\ ~k.prefix /\ k.single # None
  <2>1. r = Bound(u, k, k.single)
    BY <1>8 DEF PrefixKey
  <2> QED BY <1>8, <2>1, BoundBecomes
<1>9. CASE ~u.prefix /\ ~k.prefix /\ k.single = None
  <2>1. r = Sent(u, raw) \/ (r.ui = u /\ r.went = {})
    BY <1>9 DEF PrefixKey, To, raw
  <2> QED BY <1>0, <1>1, <1>2, <1>9, <2>1 DEF Calm
<1> QED BY <1>0, <1>3, <1>4, <1>5, <1>6, <1>7, <1>8, <1>9

(* Mark mode that has lost its pane ends with the next key.                *)
LEMMA KeyLaneBecomes ==
  ASSUME NEW u, IsWindow(u), NEW k \in Keys, NEW picked
  PROVE  LET r == KeyLane(u, k, picked)
         IN  /\ Becomes(u, r.ui)
             /\ u.palette = None /\ "action" \in r.went =>
                  /\ r.ui.suppress = (u.suppress \/ k.alt)
                  /\ (u.prefix /\ k.chord # None) \/ k.single # None
             /\ u.palette # None => "pane" \notin r.went /\ "prefix" \notin r.went
             /\ u.palette # None \/ "action" \notin r.went => r.ui.suppress = u.suppress
             /\ "pane" \in r.went => k.bytes
             /\ "prefix" \in r.went => u.prefix /\ ~r.ui.prefix
             /\ r.ui.prefix => u.prefix \/ k.prefix
<1> DEFINE r == KeyLane(u, k, picked)
           v == IF u.marking = u.focus THEN u ELSE [u EXCEPT !.marking = 0]
           disarmed == [v EXCEPT !.armed = FALSE]
<1>0. k.event \in BOOLEAN /\ k.prefix \in BOOLEAN /\ k.bytes \in BOOLEAN /\ u.prefix \in BOOLEAN /\ u.focus \in Nat
  BY KeysAssumption DEF IsWindow, Windows
<1>1. Becomes(u, u) /\ Calm(u, u)
  BY BecomesSame DEF Calm
<1>2. Becomes(u, v) /\ Calm(u, v)
  BY <1>1, MarkedBecomes
<1>3. IsWindow(v)
  BY <1>2 DEF Becomes
<1>4. CASE ~k.event
  <2>1. r.ui = u /\ r.went = {}
    BY <1>4 DEF KeyLane, To
  <2> QED BY <1>0, <1>1, <2>1
<1>5. CASE k.event /\ u.palette # None
  <2>1. r = PaletteKey(u, k, picked)
    BY <1>5 DEF KeyLane
  <2> QED BY <1>5, <2>1, PaletteKeyBecomes DEF Calm
<1>6. CASE k.event /\ u.palette = None /\ v.marking # 0 /\ k.mark # None
  <2>1. r = MarkKey(v, k)
    BY <1>6 DEF KeyLane, v
  <2> HIDE DEF v
  <2>2. v.focus \in Nat /\ 0 \in Nat
    BY <1>3 DEF IsWindow, Windows
  <2>3. Becomes(v, r.ui) /\ Calm(v, r.ui) /\ r.went = {"used"}
    BY <1>3, <2>1, <2>2, MarkedBecomes, SelectedBecomes DEF MarkKey, To
  <2>4. Becomes(u, r.ui) /\ Calm(u, r.ui)
    BY <1>2, <2>3, BecomesAfter, CalmAfter
  <2> QED BY <1>0, <1>6, <2>3, <2>4 DEF Calm
<1>7. CASE k.event /\ u.palette = None /\ ~(v.marking # 0 /\ k.mark # None) /\ ~v.armed
  <2>1. r = PrefixKey(v, k)
    BY <1>7 DEF KeyLane, v
  <2>2. v.suppress = u.suppress /\ v.prefix = u.prefix
    BY <1>2 DEF Calm
  <2> HIDE DEF v
  <2>3. /\ Becomes(v, r.ui)
        /\ "action" \in r.went => /\ r.ui.suppress = (u.suppress \/ k.alt)
                                  /\ (u.prefix /\ k.chord # None) \/ k.single # None
        /\ "action" \notin r.went => r.ui.suppress = u.suppress
        /\ "pane" \in r.went => k.bytes
        /\ "prefix" \in r.went => u.prefix /\ ~r.ui.prefix
        /\ r.ui.prefix => u.prefix \/ k.prefix
    BY <1>3, <2>1, <2>2, PrefixKeyBecomes
  <2> QED BY <1>2, <1>7, <2>3, BecomesAfter
<1>8. CASE k.event /\ u.palette = None /\ ~(v.marking # 0 /\ k.mark # None) /\ v.armed
  <2>1. r = IF k.bytes THEN Sent(disarmed, {"pane"}) ELSE To(v, {})
    BY <1>8 DEF KeyLane, v
  <2> HIDE DEF v
  <2>2. Becomes(v, disarmed) /\ Calm(v, disarmed)
    BY <1>3, FlaggedBecomes
  <2>3. IsWindow(disarmed)
    BY <2>2 DEF Becomes
  <2> HIDE DEF disarmed
  <2>4. k.bytes => Becomes(disarmed, r.ui) /\ Calm(disarmed, r.ui) /\ r.went = {"pane"}
    BY <2>1, <2>3, SentBecomes
  <2>5. ~k.bytes => r.ui = v /\ r.went = {}
    BY <2>1 DEF To
  <2>6. Becomes(u, r.ui) /\ Calm(u, r.ui)
    BY <1>0, <1>2, <2>2, <2>4, <2>5, BecomesAfter, CalmAfter
  <2> QED BY <1>0, <1>8, <2>4, <2>5, <2>6 DEF Calm
<1> QED BY <1>0, <1>4, <1>5, <1>6, <1>7, <1>8

LEMMA TextLaneBecomes ==
  ASSUME NEW u, IsWindow(u), NEW k \in Keys
  PROVE  LET r == TextLane(u, k)
         IN  /\ Becomes(u, r.ui)
             /\ r.went # {} => k.text
             /\ "swallowed" \in r.went => u.suppress
             /\ u.suppress => r.went \subseteq {"swallowed"}
             /\ "pane" \in r.went => u.palette = None
             /\ "prefix" \in r.went => u.palette = None /\ u.prefix
             /\ r.ui.suppress => ~k.text /\ u.suppress
<1> DEFINE r == TextLane(u, k)
           loud == [u EXCEPT !.suppress = FALSE]
           disarmed == [u EXCEPT !.armed = FALSE]
           idle == [u EXCEPT !.prefix = FALSE]
<1>0. k.text \in BOOLEAN /\ u.suppress \in BOOLEAN /\ u.armed \in BOOLEAN /\ u.prefix \in BOOLEAN
  BY KeysAssumption DEF IsWindow, Windows
<1>1. Becomes(u, u) /\ Becomes(u, loud) /\ Becomes(u, disarmed) /\ Becomes(u, idle)
  BY BecomesSame, FlaggedBecomes
<1>2. IsWindow(disarmed) /\ IsWindow(idle)
  BY <1>1 DEF Becomes
<1>9. ~loud.suppress /\ disarmed.suppress = u.suppress /\ idle.suppress = u.suppress
  BY DEF IsWindow, Windows
<1>3. CASE ~k.text
  <2>1. r.ui = u /\ r.went = {}
    BY <1>3 DEF TextLane, To
  <2> QED BY <1>1, <1>3, <2>1
<1>4. CASE k.text /\ u.suppress
  <2>1. r.ui = loud /\ r.went = {"swallowed"}
    BY <1>4 DEF TextLane, To
  <2> HIDE DEF loud
  <2> QED BY <1>1, <1>4, <1>9, <2>1
<1>5. CASE k.text /\ ~u.suppress /\ u.palette # None
  <2>1. r.ui = u /\ r.went = {"query"}
    BY <1>5 DEF TextLane, To
  <2> QED BY <1>1, <1>5, <2>1
<1>6. CASE k.text /\ ~u.suppress /\ u.palette = None /\ u.armed
  <2>1. r = Sent(disarmed, {"pane"})
    BY <1>6 DEF TextLane
  <2> HIDE DEF disarmed
  <2>2. Becomes(disarmed, r.ui) /\ r.ui.suppress = disarmed.suppress /\ r.went = {"pane"}
    BY <1>2, <2>1, SentBecomes DEF Calm
  <2>3. Becomes(u, r.ui)
    BY <1>1, <2>2, BecomesAfter
  <2> QED BY <1>6, <1>9, <2>2, <2>3
<1>7. CASE k.text /\ ~u.suppress /\ u.palette = None /\ ~u.armed /\ u.prefix
  <2>1. r = PrefixText(u, k)
    BY <1>7 DEF TextLane
  <2>2. r = To(Dispatch(idle, k.char, FALSE), {"action"}) \/ r = Sent(idle, {"prefix", "pane"})
    BY <2>1 DEF PrefixText
  <2> HIDE DEF idle
  <2>3. Becomes(idle, r.ui) /\ r.ui.suppress = idle.suppress /\ r.went \in {{"action"}, {"prefix", "pane"}}
    <3>1. CASE r = To(Dispatch(idle, k.char, FALSE), {"action"})
      <4>1. r.ui = Dispatch(idle, k.char, FALSE) /\ r.went = {"action"}
        BY <3>1 DEF To
      <4>2. Becomes(idle, r.ui) /\ Calm(idle, r.ui)
        BY <1>2, <4>1, DispatchBecomes
      <4> QED BY <4>1, <4>2 DEF Calm
    <3>2. CASE r = Sent(idle, {"prefix", "pane"})
      BY <1>2, <3>2, SentBecomes DEF Calm
    <3> QED BY <2>2, <3>1, <3>2
  <2>4. Becomes(u, r.ui)
    BY <1>1, <2>3, BecomesAfter
  <2> QED BY <1>7, <1>9, <2>3, <2>4
<1>8. CASE k.text /\ ~u.suppress /\ u.palette = None /\ ~u.armed /\ ~u.prefix
  <2>1. r = Sent(u, {"pane"})
    BY <1>8 DEF TextLane
  <2>2. Becomes(u, r.ui) /\ r.ui.suppress = u.suppress /\ r.went = {"pane"}
    BY <2>1, SentBecomes DEF Calm
  <2> QED BY <1>8, <2>2
<1> QED BY <1>0, <1>3, <1>4, <1>5, <1>6, <1>7, <1>8

LEMMA PressBecomes ==
  ASSUME IsWindow(ui), NEW k \in Keys, NEW picked, Press(k, picked)
  PROVE  Becomes(ui, ui')
<1> DEFINE v == KeyLane(ui, k, picked).ui
<1>1. Becomes(ui, v)
  BY KeyLaneBecomes
<1>2. IsWindow(v)
  BY <1>1 DEF Becomes
<1>3. ui' = TextLane(v, k).ui
  BY DEF Press
<1> HIDE DEF v
<1>4. Becomes(v, ui')
  BY <1>2, <1>3, TextLaneBecomes
<1> QED BY <1>1, <1>4, BecomesAfter

(* Whatever the window shows, what the next key types has one effect.      *)
LEMMA OneEffectAlways ==
  ASSUME IsWindow(ui)
  PROVE  OneEffect
<1> SUFFICES ASSUME NEW k \in Keys, NEW picked \in Chosen(k)
             PROVE  LET key  == KeyLane(ui, k, picked)
                        text == TextLane(key.ui, k)
                        acts == k.alt /\ "action" \in key.went
                    IN  /\ "action" \in key.went /\ text.went \ {"swallowed"} # {} =>
                             ui.palette # None \/ (ui.prefix /\ k.chord # None)
                        /\ "pane" \in key.went \cap text.went => k.bytes /\ k.text
                        /\ "prefix" \in key.went \cup text.went => ui.prefix /\ "prefix" \notin key.went \cap text.went
                        /\ "swallowed" \in text.went => acts \/ ui.suppress
                        /\ text.ui.suppress => ~k.text /\ (acts \/ ui.suppress)
                        /\ ui.palette # None /\ key.ui.palette # None => "pane" \notin key.went \cup text.went
  BY DEF OneEffect
<1> DEFINE key == KeyLane(ui, k, picked)
           v == key.ui
           text == TextLane(v, k)
           acts == k.alt /\ "action" \in key.went
<1>1. /\ Becomes(ui, v)
      /\ ui.palette = None /\ "action" \in key.went =>
           /\ v.suppress = (ui.suppress \/ k.alt)
           /\ (ui.prefix /\ k.chord # None) \/ k.single # None
      /\ ui.palette # None => "pane" \notin key.went /\ "prefix" \notin key.went
      /\ ui.palette # None \/ "action" \notin key.went => v.suppress = ui.suppress
      /\ "pane" \in key.went => k.bytes
      /\ "prefix" \in key.went => ui.prefix /\ ~v.prefix
      /\ v.prefix => ui.prefix \/ k.prefix
  BY KeyLaneBecomes
<1>2. IsWindow(v)
  BY <1>1 DEF Becomes
<1>3. /\ text.went # {} => k.text
      /\ "swallowed" \in text.went => v.suppress
      /\ v.suppress => text.went \subseteq {"swallowed"}
      /\ "pane" \in text.went => v.palette = None
      /\ "prefix" \in text.went => v.palette = None /\ v.prefix
      /\ text.ui.suppress => ~k.text /\ v.suppress
  BY <1>2, TextLaneBecomes
<1>4. (k.single # None /\ k.text => k.alt) /\ (k.prefix => ~k.text)
  BY KeysAssumption DEF None
<1> HIDE DEF key, v, text
<1>5. "action" \in key.went /\ text.went \ {"swallowed"} # {} => ui.palette # None \/ (ui.prefix /\ k.chord # None)
  BY <1>1, <1>3, <1>4
<1>6. "prefix" \in key.went \cup text.went => ui.prefix /\ "prefix" \notin key.went \cap text.went
  BY <1>1, <1>3, <1>4
<1>7. /\ "swallowed" \in text.went => acts \/ ui.suppress
      /\ text.ui.suppress => ~k.text /\ (acts \/ ui.suppress)
  <2>1. k.alt \in BOOLEAN /\ ui.suppress \in BOOLEAN
    BY KeysAssumption DEF IsWindow, Windows
  <2> QED BY <1>1, <1>3, <2>1
<1>8. ui.palette # None /\ v.palette # None => "pane" \notin key.went \cup text.went
  BY <1>1, <1>3
<1>9. "pane" \in key.went \cap text.went => k.bytes /\ k.text
  BY <1>1, <1>3
<1> QED BY <1>5, <1>6, <1>7, <1>8, <1>9 DEF key, v, text

-----------------------------------------------------------------------------
(* The mouse.                                                              *)

LEMMA InHandAfter ==
  ASSUME NEW cause \in BOOLEAN, upset \in BOOLEAN, Upset(cause),
         ~upset /\ ~cause => Settled(ui, mouse, button, held)' \/ (button' /\ Apart(ui, mouse, held)')
  PROVE  upset' \in BOOLEAN /\ InHand'
BY DEF Upset, InHand

(* What the keys and the palette do leaves what is in hand as it is.       *)
LEMMA StillInHand ==
  ASSUME MouseInv, NEW v, Becomes(ui, v), v.vt = ui.vt, ~upset
  PROVE  Settled(v, mouse, button, held) \/ (button /\ Apart(v, mouse, held))
<1>1. Settled(ui, mouse, button, held) \/ (button /\ Apart(ui, mouse, held))
  BY DEF MouseInv, InHand
<1>2. v.layout = ui.layout /\ (ui.selecting = 0 => v.selecting = 0)
  BY DEF Becomes
<1> QED BY <1>1, <1>2 DEF Settled, Apart, Splitters

LEMMA KeyboardInHand == MouseInv /\ Keyboard => MouseInv'
<1> SUFFICES ASSUME MouseInv, Keyboard PROVE MouseInv'
  OBVIOUS
<1>1. IsWindow(ui) /\ upset \in BOOLEAN
  BY DEF MouseInv, Typing
<1>2. UNCHANGED <<mouse, button, held>> /\ Upset(ui'.vt # ui.vt)
  BY DEF Keyboard
<1>3. Becomes(ui, ui')
  BY <1>1, PressBecomes, FlaggedBecomes DEF Keyboard, PrefixTimeout
<1>4. ~upset /\ ui'.vt = ui.vt => Settled(ui, mouse, button, held)' \/ (button' /\ Apart(ui, mouse, held)')
  BY <1>2, <1>3, StillInHand DEF Settled, Apart, Splitters
<1>5. upset' \in BOOLEAN /\ InHand'
  BY <1>1, <1>2, <1>4, InHandAfter
<1> QED BY <1>2, <1>3, <1>5 DEF MouseInv, Typing, Becomes

(* A step that changes of the window what keys and the palette may.        *)
LEMMA WindowInHand ==
  ASSUME MouseInv, NEW cause \in BOOLEAN, Becomes(ui, ui'), ~cause => ui'.vt = ui.vt,
         UNCHANGED <<mouse, button, held>>, Upset(cause)
  PROVE  MouseInv'
<1>1. ~upset /\ ~cause => Settled(ui, mouse, button, held)' \/ (button' /\ Apart(ui, mouse, held)')
  BY StillInHand DEF Settled, Apart, Splitters
<1>2. upset' \in BOOLEAN /\ InHand'
  BY <1>1, InHandAfter DEF MouseInv, Typing
<1> QED BY <1>2 DEF MouseInv, Typing, Becomes

LEMMA RightDownInHand ==
  ASSUME MouseInv, NEW area, RightDown(area)
  PROVE  MouseInv'
<1>1. IsWindow(ui)
  BY DEF MouseInv, Typing
<1>2. Becomes(ui, ui')
  BY <1>1, PreparedBecomes DEF RightDown
<1> QED BY <1>2, WindowInHand DEF RightDown

LEMMA TabMenuInHand == MouseInv /\ TabMenu => MouseInv'
<1> SUFFICES ASSUME MouseInv, TabMenu PROVE MouseInv'
  OBVIOUS
<1>1. IsWindow(ui)
  BY DEF MouseInv, Typing
<1>2. PICK goes \in BOOLEAN : ui' = [ui EXCEPT !.palette = "rename-pane", !.asked = @ \/ goes]
  BY DEF TabMenu
<1>3. Becomes(ui, ui') /\ ui'.vt = ui.vt
  BY <1>1, <1>2 DEF Becomes, IsWindow, Windows, Palettes, Prompts
<1> QED BY <1>3, WindowInHand DEF TabMenu

LEMMA ZoomInHand ==
  ASSUME MouseInv, NEW area, Zoom(area)
  PROVE  MouseInv'
<1>1. mouse' = [mouse EXCEPT !.drag = 0] /\ UNCHANGED <<ui, button, held>> /\ Upset(FALSE)
  BY DEF Zoom
<1>2. mouse' \in Drags /\ mouse'.drag = 0 /\ mouse'.splitting = mouse.splitting /\ mouse'.thumb = mouse.thumb
  BY <1>1 DEF MouseInv, Typing, Drags
<1>3. ~upset => Settled(ui, mouse, button, held)' \/ (button' /\ Apart(ui, mouse, held)')
  <2>1. Settled(ui, mouse, button, held) => Settled(ui, mouse, button, held)'
    BY <1>1 DEF Settled
  <2>2. button /\ Apart(ui, mouse, held) => button' /\ Apart(ui, mouse, held)'
    BY <1>1, <1>2 DEF Apart
  <2> QED BY <2>1, <2>2 DEF MouseInv, InHand
<1>4. upset' \in BOOLEAN /\ InHand'
  BY <1>1, <1>3, InHandAfter DEF MouseInv, Typing
<1> QED BY <1>1, <1>2, <1>4 DEF MouseInv, Typing

(* A snapshot comes while nothing is in hand, or it upsets what is.        *)
LEMMA ShownInHand ==
  ASSUME MouseInv, NEW layout \in Layouts, NEW place \in DOMAIN layout, Shown(layout, place)
  PROVE  MouseInv'
<1>1. /\ ui' = [ui EXCEPT !.layout = layout, !.focus = place, !.asked = FALSE]
      /\ held' = held \cap ToSet(layout) /\ UNCHANGED <<mouse, button>> /\ Upset(~Settled(ui, mouse, button, held))
  BY DEF Shown, Snapshot
<1>2. place \in Nat
  BY UiKeysAssumption
<1>3. IsWindow(ui') /\ ui'.vt = ui.vt /\ ui'.selecting = ui.selecting
  BY <1>1, <1>2 DEF MouseInv, Typing, IsWindow, Windows
<1>4. Settled(ui, mouse, button, held) => Settled(ui, mouse, button, held)'
  BY <1>1, <1>3 DEF Settled
<1>5. upset' \in BOOLEAN /\ InHand'
  BY <1>1, <1>4, InHandAfter DEF MouseInv, Typing
<1> QED BY <1>1, <1>3, <1>5 DEF MouseInv, Typing

LEMMA DoubleDownInHand == MouseInv /\ LeftDoubleDown => MouseInv'
<1> SUFFICES ASSUME MouseInv, LeftDoubleDown PROVE MouseInv'
  OBVIOUS
<1>1. ~button /\ button' = TRUE /\ UNCHANGED <<ui, mouse, held>> /\ Upset(FALSE)
  BY DEF LeftDoubleDown
<1>2. ~upset => button' /\ Apart(ui, mouse, held)'
  BY <1>1 DEF MouseInv, InHand, Settled, Apart
<1>3. upset' \in BOOLEAN /\ InHand'
  BY <1>1, <1>2, InHandAfter DEF MouseInv, Typing
<1> QED BY <1>1, <1>3 DEF MouseInv, Typing

(* A press finds nothing in hand, and begins one thing.                    *)
LEMMA PressOnPaletteApart ==
  ASSUME MouseInv, PressOnPalette
  PROVE  IsWindow(ui') /\ mouse' \in Drags /\ (Settled(ui, mouse, button, held) => Apart(ui, mouse, held)')
<1>1. IsWindow(ui) /\ mouse \in Drags /\ UNCHANGED <<mouse, held>>
  BY DEF MouseInv, Typing, PressOnPalette
<1> DEFINE hidden == [ui EXCEPT !.palette = None]
<1>2. Becomes(ui, hidden)
  BY <1>1, PaletteBecomes DEF Palettes
<1>3. IsWindow(hidden)
  BY <1>2 DEF Becomes
<1>4. ui' = hidden \/ ui' = ui \/ \E picked \in Actions : ui' = Dispatch(hidden, picked, FALSE)
  BY DEF PressOnPalette
<1> HIDE DEF hidden
<1>5. Becomes(ui, ui')
  <2>1. ui' = ui => Becomes(ui, ui')
    BY <1>1, BecomesSame
  <2>2. ASSUME NEW picked PROVE Becomes(ui, Dispatch(hidden, picked, FALSE))
    BY <1>2, <1>3, DispatchBecomes, BecomesAfter
  <2> QED BY <1>2, <1>4, <2>1, <2>2
<1> QED BY <1>1, <1>5 DEF Becomes, Settled, Apart

LEMMA PressOnBarApart ==
  ASSUME MouseInv, NEW i \in DOMAIN ui.layout, PressOnBar(i)
  PROVE  IsWindow(ui') /\ mouse' \in Drags /\ (Settled(ui, mouse, button, held) => Apart(ui, mouse, held)')
<1>1. IsWindow(ui) /\ mouse \in Drags /\ i \in Nat
  BY FocusIsPane DEF MouseInv, Typing
<1>2. ui' = [ui EXCEPT !.focus = i] /\ held' = held /\ (mouse' = mouse \/ mouse' = [mouse EXCEPT !.thumb = i])
  BY DEF PressOnBar
<1>3. IsWindow(ui') /\ ui'.vt = ui.vt /\ ui'.selecting = ui.selecting
  BY <1>1, <1>2 DEF IsWindow, Windows
<1>4. mouse' \in Drags /\ mouse'.splitting = mouse.splitting /\ mouse'.drag = mouse.drag
  BY <1>1, <1>2 DEF Drags
<1> QED BY <1>2, <1>3, <1>4 DEF Settled, Apart

LEMMA PressOnSplitterApart ==
  ASSUME MouseInv, NEW i \in Splitters(ui), PressOnSplitter(i)
  PROVE  IsWindow(ui') /\ mouse' \in Drags /\ (Settled(ui, mouse, button, held) => Apart(ui, mouse, held)')
<1>1. IsWindow(ui) /\ mouse \in Drags /\ i \in Nat
  BY FocusIsPane DEF MouseInv, Typing, Splitters
<1>2. mouse' = [mouse EXCEPT !.splitting = TRUE, !.drag = i] /\ UNCHANGED <<ui, held>>
  BY DEF PressOnSplitter
<1>3. mouse' \in Drags /\ mouse'.splitting = TRUE /\ mouse'.drag = i /\ mouse'.thumb = mouse.thumb
  BY <1>1, <1>2 DEF Drags
<1> QED BY <1>1, <1>2, <1>3 DEF Settled, Apart

LEMMA PressOnPaneApart ==
  ASSUME MouseInv, NEW i \in DOMAIN ui.layout, PressOnPane(i)
  PROVE  IsWindow(ui') /\ mouse' \in Drags /\ (Settled(ui, mouse, button, held) => Apart(ui, mouse, held)')
<1>1. IsWindow(ui) /\ mouse \in Drags /\ i \in Nat /\ mouse' = mouse
  BY FocusIsPane DEF MouseInv, Typing, PressOnPane
<1>2. i # 0
  BY <1>1, FocusIsPane
<1>3. CASE Kind[ui.layout[i]].mouse
  <2>1. ui' = [ui EXCEPT !.focus = i, !.vt = i] /\ held' = held \cup {ui.layout[i]}
    BY <1>3 DEF PressOnPane
  <2>2. IsWindow(ui') /\ ui'.vt = i /\ ui'.layout = ui.layout /\ ui'.selecting = ui.selecting
    BY <1>1, <2>1 DEF IsWindow, Windows
  <2> QED BY <1>1, <1>2, <1>3, <2>1, <2>2 DEF Settled, Apart, Splitters
<1>4. CASE ~Kind[ui.layout[i]].mouse
  <2>1. ui' = [ui EXCEPT !.focus = i, !.vt = 0, !.selecting = i, !.selected = @ \cup {i}] /\ held' = held
    BY <1>4 DEF PressOnPane
  <2>2. IsWindow(ui') /\ ui'.vt = 0 /\ ui'.layout = ui.layout
    BY <1>1, <2>1 DEF IsWindow, Windows
  <2> QED BY <1>1, <2>1, <2>2 DEF Settled, Apart, Splitters
<1> QED BY <1>3, <1>4

LEMMA LeftDownInHand ==
  ASSUME MouseInv, NEW area \in Areas(ui), LeftDown(area)
  PROVE  MouseInv'
<1>1. ~button /\ button' = TRUE /\ Upset(FALSE)
  BY DEF LeftDown
<1>2. IsWindow(ui) /\ mouse \in Drags
  BY DEF MouseInv, Typing
<1>3. IsWindow(ui') /\ mouse' \in Drags /\ (Settled(ui, mouse, button, held) => Apart(ui, mouse, held)')
  <2>1. CASE ui.palette # None
    BY <2>1, PressOnPaletteApart DEF LeftDown
  <2>2. CASE ui.palette = None /\ area = <<"strip", 0>>
    <3>1. UNCHANGED <<ui, mouse, held>>
      BY <2>2 DEF LeftDown
    <3> QED BY <1>2, <3>1 DEF Settled, Apart
  <2>3. CASE ui.palette = None /\ \E i \in DOMAIN ui.layout : area = <<"pane", i>>
    <3>1. PICK i \in DOMAIN ui.layout : area = <<"pane", i>>
      BY <2>3
    <3>2. PressOnPane(i)
      BY <2>3, <3>1 DEF LeftDown
    <3> QED BY <3>2, PressOnPaneApart
  <2>4. CASE ui.palette = None /\ \E i \in Splitters(ui) : area = <<"splitter", i>>
    <3>1. PICK i \in Splitters(ui) : area = <<"splitter", i>>
      BY <2>4
    <3>2. PressOnSplitter(i)
      BY <2>4, <3>1 DEF LeftDown
    <3> QED BY <3>2, PressOnSplitterApart
  <2>5. CASE ui.palette = None /\ \E i \in DOMAIN ui.layout : area = <<"bar", i>>
    <3>1. PICK i \in DOMAIN ui.layout : area = <<"bar", i>>
      BY <2>5
    <3>2. PressOnBar(i)
      BY <2>5, <3>1 DEF LeftDown
    <3> QED BY <3>2, PressOnBarApart
  <2> QED BY <2>1, <2>2, <2>3, <2>4, <2>5 DEF Areas
<1>4. ~upset => button' /\ Apart(ui, mouse, held)'
  BY <1>1, <1>3 DEF MouseInv, InHand
<1>5. upset' \in BOOLEAN /\ InHand'
  BY <1>1, <1>4, InHandAfter DEF MouseInv, Typing
<1> QED BY <1>1, <1>3, <1>5 DEF MouseInv, Typing

(* A release settles everything, unless the palette took it: the pane that *)
(* was told of the press is the one that is told of the release.           *)
LEMMA LeftUpInHand ==
  ASSUME MouseInv, NEW area \in Areas(ui), NEW selects \in BOOLEAN, LeftUp(area, selects)
  PROVE  MouseInv'
<1>1. button /\ button' = FALSE /\ Upset(ui.palette # None)
  BY DEF LeftUp
<1>2. IsWindow(ui) /\ mouse \in Drags
  BY DEF MouseInv, Typing
<1>3. CASE ui.palette # None
  <2>1. UNCHANGED <<ui, mouse, held>>
    BY <1>3 DEF LeftUp
  <2>2. upset' \in BOOLEAN /\ InHand'
    BY <1>1, <1>3, InHandAfter DEF MouseInv, Typing
  <2> QED BY <1>1, <2>1, <2>2 DEF MouseInv, Typing
<1>4. CASE ui.palette = None /\ mouse.thumb # 0
  <2>1. mouse' = [mouse EXCEPT !.thumb = 0] /\ UNCHANGED <<ui, held>>
    BY <1>4 DEF LeftUp
  <2>2. mouse' \in Drags
    BY <1>2, <2>1 DEF Drags
  <2>3. ASSUME ~upset PROVE Settled(ui, mouse, button, held)'
    <3>1. Apart(ui, mouse, held)
      BY <1>1, <2>3 DEF MouseInv, InHand, Settled
    <3>2. ui.vt = 0 /\ ui.selecting = 0 /\ ~mouse.splitting /\ held = {} /\ mouse.drag = 0
      BY <1>2, <1>4, <3>1 DEF Apart, Drags
    <3>3. mouse' = [splitting |-> FALSE, drag |-> 0, thumb |-> 0]
      BY <1>2, <2>1, <3>2 DEF Drags
    <3> QED BY <1>1, <2>1, <3>2, <3>3 DEF Settled
  <2>4. upset' \in BOOLEAN /\ InHand'
    BY <1>1, <2>3, InHandAfter DEF MouseInv, Typing
  <2> QED BY <1>1, <1>2, <2>1, <2>2, <2>4 DEF MouseInv, Typing
<1>5. CASE ui.palette = None /\ mouse.thumb = 0
  <2>1. /\ \E target \in ReleaseTargets(ui, area) : held' = Told(ui, target)
        /\ ui' = [ui EXCEPT !.vt = 0, !.selecting = 0, !.selected = IF selects THEN @ ELSE @ \ {ui.selecting}]
        /\ mouse' = IF mouse.splitting THEN [mouse EXCEPT !.splitting = FALSE, !.drag = 0] ELSE mouse
    BY <1>5 DEF LeftUp
  <2>2. IsWindow(ui') /\ ui'.vt = 0 /\ ui'.selecting = 0
    BY <1>2, <2>1 DEF IsWindow, Windows
  <2>3. mouse' \in Drags
    BY <1>2, <2>1 DEF Drags
  <2>4. ASSUME ~upset PROVE Settled(ui, mouse, button, held)'
    <3>1. Apart(ui, mouse, held)
      BY <1>1, <2>4 DEF MouseInv, InHand, Settled
    <3>2. held' = {}
      BY <2>1, <3>1 DEF Apart, ReleaseTargets, Told
    <3>3. mouse' = [splitting |-> FALSE, drag |-> 0, thumb |-> 0]
      BY <1>2, <1>5, <2>1, <3>1 DEF Apart, Drags
    <3> QED BY <1>1, <2>2, <3>2, <3>3 DEF Settled
  <2>5. upset' \in BOOLEAN /\ InHand'
    BY <1>1, <2>4, InHandAfter DEF MouseInv, Typing
  <2> QED BY <1>1, <2>2, <2>3, <2>5 DEF MouseInv, Typing
<1> QED BY <1>3, <1>4, <1>5

-----------------------------------------------------------------------------
LEMMA StartsInHand == MouseInit => MouseInv
<1> SUFFICES ASSUME MouseInit PROVE MouseInv
  OBVIOUS
<1>1. PICK layout \in Layouts : ui = Fresh(layout)
  BY DEF MouseInit, Init
<1>2. 1 \in DOMAIN layout
  BY UiKeysAssumption
<1>3. IsWindow(ui) /\ ui.selecting = 0 /\ ui.vt = 0
  BY <1>1, <1>2 DEF Fresh, IsWindow, Windows, Palettes
<1> QED BY <1>3 DEF MouseInit, MouseInv, Typing, Drags, InHand, Settled

LEMMA StepKeepsInHand == MouseInv /\ [MouseNext]_vars => MouseInv'
<1> SUFFICES ASSUME MouseInv, [MouseNext]_vars PROVE MouseInv'
  OBVIOUS
<1>1. ASSUME NEW area \in Areas(ui), LeftDown(area) \/ RightDown(area) \/ Zoom(area) PROVE MouseInv'
  BY <1>1, LeftDownInHand, RightDownInHand, ZoomInHand
<1>2. ASSUME NEW area \in Areas(ui), NEW selects \in BOOLEAN, LeftUp(area, selects) PROVE MouseInv'
  BY <1>2, LeftUpInHand
<1>3. CASE LeftDoubleDown
  BY <1>3, DoubleDownInHand
<1>4. CASE TabMenu
  BY <1>4, TabMenuInHand
<1>5. CASE Keyboard
  BY <1>5, KeyboardInHand
<1>6. ASSUME NEW layout \in Layouts, NEW place \in DOMAIN layout, Shown(layout, place) PROVE MouseInv'
  BY <1>6, ShownInHand
<1>7. CASE UNCHANGED vars
  BY <1>7 DEF vars, MouseInv, Typing, InHand, Settled, Apart, Splitters
<1> QED BY <1>1, <1>2, <1>3, <1>4, <1>5, <1>6, <1>7 DEF MouseNext

(* Whatever the keys, the palette, the mouse and the snapshots do in what  *)
(* order (UiMouse): the window is one of its panes with the focus on one   *)
(* of them, and unless the palette, a snapshot or typing came between, all *)
(* that is held or dragged was begun by one press of a button still down.  *)
THEOREM MouseInvariant == MouseSpec => []MouseInv
<1>1. MouseInit => MouseInv
  BY StartsInHand
<1>2. MouseInv /\ [MouseNext]_vars => MouseInv'
  BY StepKeepsInHand
<1> QED BY <1>1, <1>2, PTL DEF MouseSpec

(* What is pressed or dragged ends with the button: handle_event tells the *)
(* release to the pane that was told of the press, and clears every drag   *)
(* (mouse_handler.rs), unless the palette took the release, a snapshot     *)
(* renumbered the panes or typing made the mouse forget the press.         *)
THEOREM PressesEndHolds == MouseSpec => []PressesEnd
<1>1. MouseInv => PressesEnd
  <2> SUFFICES ASSUME MouseInv PROVE PressesEnd
    OBVIOUS
  <2>1. PressesReleased
    BY DEF MouseInv, InHand, Settled, PressesReleased
  <2>2. ASSUME ~upset PROVE ~button => ui.selecting = 0 /\ ui.vt = 0 /\ mouse = [splitting |-> FALSE, drag |-> 0, thumb |-> 0]
    BY <2>2 DEF MouseInv, InHand, Settled
  <2>3. ASSUME ~upset PROVE mouse.drag # 0 => mouse.drag \in Splitters(ui)
    BY <2>3 DEF MouseInv, InHand, Settled, Apart
  <2> QED BY <2>1, <2>2, <2>3 DEF PressesEnd, DragsEnd
<1> QED BY <1>1, MouseInvariant, PTL

(* What a key types reaches one place, in every state the window comes to  *)
(* under the bindings of KeysAssumption: the key event and the text event  *)
(* of one press, taken in turn by the loop of the UI (main.rs), are not    *)
(* both an action and text, but with the palette open or a chord that      *)
(* names the key, and not twice in a pane, but for a key with bytes and    *)
(* text.  A text is dropped by an Alt binding of its own key, or by one    *)
(* before that typed nothing, which costs one text and no more.            *)
THEOREM OneEffectHolds == MouseSpec => []OneEffect
<1>1. MouseInv => OneEffect
  BY OneEffectAlways DEF MouseInv, Typing
<1> QED BY <1>1, MouseInvariant, PTL

-----------------------------------------------------------------------------
(* What a window keeps of the views of its panes.                          *)
Places == 1 .. Cardinality(Sessions)

Positions == Int \X Int

Selections == {<<>>} \cup (Positions \X Positions)

Lines == {<<>>} \cup (Int \X Int)

Kinds == {"lines", "alternate", "mouse"}

Screens == [printed : Int, history : 0..MaxHistory, kind : Kinds]

PaneViews == [offset : Nat, selection : Selections]

PaneDrags == [down : BOOLEAN, pane : Nat, told : Nat, out : {-1, 0, 1}, cell : CellsAt]

Thumbs == [pane : Places \cup {0}, grab : Int, top : Int, history : Nat]

BufferRows == 0 .. (MaxHistory + Rows - 1)

Finds ==
  [pane : Nat, query : DOMAIN Queries \cup {"none"}, matches : SUBSET BufferRows, current : BufferRows, sure : BOOLEAN]

ViewTyping ==
  /\ screens \in [Sessions -> Screens]
  /\ panes \in SetToSeqs(Sessions) /\ focus \in Places
  /\ views \in [Places -> PaneViews] /\ chosen \in [Places -> Lines]
  /\ drag \in PaneDrags /\ thumb \in Thumbs /\ mark \in [pane : Nat, start : BOOLEAN] /\ find \in Finds

(* The ends of a selection are on the lines they were put on.              *)
HeldIn(s, selection, lines) ==
  lines # <<>> => [i \in DOMAIN selection |-> LineAt(s, selection[i][1])] = lines

SelectionsHeld == \A p \in Places : HeldIn(Screen(p), views[p].selection, chosen[p])

(* What a search found is still there.                                     *)
StillThere == find.sure =>
  /\ find.pane \in Places
  /\ \A row \in find.matches :
       row < TotalRows(Screen(find.pane)) /\ LineAt(Screen(find.pane), row) \in Queries[find.query]

ViewInv == ViewTyping /\ SelectionsHeld /\ StillThere

-----------------------------------------------------------------------------
LEMMA MaxOfTwo ==
  ASSUME NEW a \in Int, NEW b \in Int
  PROVE  Max({a, b}) = IF a >= b THEN a ELSE b
<1>1. CASE a >= b
  <2>1. a \in {a, b} /\ \A y \in {a, b} : a >= y
    BY <1>1
  <2>2. \A x \in {a, b} : (\A y \in {a, b} : x >= y) => x = a
    BY <1>1
  <2> QED BY <1>1, <2>1, <2>2 DEF Max
<1>2. CASE ~(a >= b)
  <2>1. b \in {a, b} /\ \A y \in {a, b} : b >= y
    BY <1>2
  <2>2. \A x \in {a, b} : (\A y \in {a, b} : x >= y) => x = b
    BY <1>2
  <2> QED BY <1>2, <2>1, <2>2 DEF Max
<1> QED BY <1>1, <1>2

LEMMA MinOfTwo ==
  ASSUME NEW a \in Int, NEW b \in Int
  PROVE  Min({a, b}) = IF a <= b THEN a ELSE b
<1>1. CASE a <= b
  <2>1. a \in {a, b} /\ \A y \in {a, b} : a <= y
    BY <1>1
  <2>2. \A x \in {a, b} : (\A y \in {a, b} : x <= y) => x = a
    BY <1>1
  <2> QED BY <1>1, <2>1, <2>2 DEF Min
<1>2. CASE ~(a <= b)
  <2>1. b \in {a, b} /\ \A y \in {a, b} : b <= y
    BY <1>2
  <2>2. \A x \in {a, b} : (\A y \in {a, b} : x <= y) => x = b
    BY <1>2
  <2> QED BY <1>2, <2>1, <2>2 DEF Min
<1> QED BY <1>1, <1>2

LEMMA ClampedIs ==
  ASSUME NEW n \in Int, NEW high \in Nat
  PROVE  /\ Clamped(n, high) = IF n < 0 THEN 0 ELSE IF n <= high THEN n ELSE high
         /\ Clamped(n, high) \in 0..high
<1>1. Min({n, high}) = IF n <= high THEN n ELSE high
  BY MinOfTwo
<1>2. Min({n, high}) \in Int
  BY <1>1
<1>3. Max({0, Min({n, high})}) = IF 0 >= Min({n, high}) THEN 0 ELSE Min({n, high})
  BY <1>2, MaxOfTwo
<1> QED BY <1>1, <1>3 DEF Clamped

LEMMA SameLength ==
  ASSUME NEW m \in Nat, NEW n \in Nat, 1..m = 1..n
  PROVE  m = n
<1>1. m <= n
  BY m = 0 \/ m \in 1..m
<1>2. n <= m
  BY n = 0 \/ n \in 1..n
<1> QED BY <1>1, <1>2

LEMMA Numbered ==
  ASSUME NEW q \in SetToSeqs(Sessions)
  PROVE  /\ 1 .. Len(q) = Places /\ 1 \in Places /\ Places \subseteq Nat \ {0}
         /\ q \in [Places -> Sessions]
         /\ \A i, j \in Places : q[i] = q[j] => i = j
<1>1. Cardinality(Sessions) \in Nat /\ Cardinality(Sessions) # 0
  BY UiViewAssumption, FS_CardinalityType, FS_EmptySet
<1>2. q \in [Places -> Sessions] /\ \A i, j \in Places : i # j => q[i] # q[j]
  BY DEF SetToSeqs, Places
<1>3. q \in Seq(Sessions)
  BY <1>1, <1>2, SeqDef DEF Places
<1>4. 1 .. Len(q) = Places
  BY <1>2, <1>3, LenProperties
<1> QED BY <1>1, <1>2, <1>4 DEF Places

(* What a window knows of a pane.                                          *)
LEMMA PaneKnown ==
  ASSUME ViewTyping, NEW p \in Places
  PROVE  /\ Numbers = Places /\ panes[p] \in Sessions /\ Screen(p) \in Screens
         /\ views[p] \in PaneViews /\ chosen[p] \in Lines
         /\ Screen(p).history \in Nat /\ Screen(p).history <= MaxHistory
         /\ views[p].offset \in Nat /\ views[p].selection \in Selections
<1>1. Numbers = Places /\ panes[p] \in Sessions
  BY Numbered DEF ViewTyping, Numbers
<1>2. Screen(p) \in Screens
  BY <1>1 DEF ViewTyping, Screen
<1>3. views[p] \in PaneViews /\ chosen[p] \in Lines
  BY DEF ViewTyping
<1> QED BY <1>1, <1>2, <1>3, UiViewAssumption DEF Screens, PaneViews

LEMMA BaseIs ==
  ASSUME ViewTyping, NEW p \in Places
  PROVE  /\ Base(p) = IF Screen(p).history >= views[p].offset THEN Screen(p).history - views[p].offset ELSE 0
         /\ Base(p) \in Nat /\ Base(p) <= Screen(p).history
<1>1. Screen(p).history \in Nat /\ views[p].offset \in Nat
  BY PaneKnown
<1>2. Max({Screen(p).history - views[p].offset, 0})
        = IF Screen(p).history - views[p].offset >= 0 THEN Screen(p).history - views[p].offset ELSE 0
  BY <1>1, MaxOfTwo
<1> QED BY <1>1, <1>2 DEF Base

LEMMA LineTyped ==
  ASSUME NEW s \in Screens, NEW row \in Int
  PROVE  LineAt(s, row) \in Int
<1>1. s.history \in Int /\ s.printed \in Int
  BY UiViewAssumption DEF Screens
<1> QED BY <1>1, UiViewAssumption DEF LineAt, TotalRows

(* A step that does not scroll a pane further than it may.                 *)
Reaches(p, offset) ==
  offset <= Screen(p).history \/ offset <= views[p].offset \/ (thumb.pane = p /\ thumb.history > Screen(p).history)

(* The buffers and the numbers of the panes stay.                          *)
Still == UNCHANGED <<screens, panes>>

LEMMA PaneByPane ==
  ASSUME ViewTyping, Still,
         views' \in [Places -> PaneViews], chosen' \in [Places -> Lines],
         \A p \in Places : HeldIn(Screen(p), views'[p].selection, chosen'[p]) /\ Reaches(p, views'[p].offset)
  PROVE  SelectionsHeld' /\ NoFurther
<1>1. SelectionsHeld'
  <2> SUFFICES ASSUME NEW p \in Places PROVE HeldIn(Screen(p)', views'[p].selection, chosen'[p])
    BY DEF SelectionsHeld
  <2>1. Screen(p)' = Screen(p)
    BY DEF Screen, Still
  <2> QED BY <2>1
<1>2. NoFurther
  <2>1. DOMAIN views = Places
    BY DEF ViewTyping
  <2> SUFFICES ASSUME NEW p \in Places
               PROVE  views'[p].offset <= Max({screens'[panes'[p]].history, views[p].offset})
                        \/ (thumb.pane = p /\ thumb.history > screens'[panes'[p]].history)
    BY <2>1 DEF NoFurther
  <2>2. screens'[panes'[p]].history = Screen(p).history
    BY DEF Screen, Still
  <2>3. Screen(p).history \in Nat /\ views[p].offset \in Nat
    BY PaneKnown
  <2>4. views'[p].offset \in Nat
    BY DEF PaneViews
  <2>5. Max({Screen(p).history, views[p].offset})
          = IF Screen(p).history >= views[p].offset THEN Screen(p).history ELSE views[p].offset
    BY <2>3, MaxOfTwo
  <2>6. Reaches(p, views'[p].offset)
    OBVIOUS
  <2> QED BY <2>2, <2>3, <2>4, <2>5, <2>6 DEF Reaches
<1> QED BY <1>1, <1>2

LEMMA AsItWas ==
  ASSUME ViewTyping, SelectionsHeld, NEW p \in Places
  PROVE  HeldIn(Screen(p), views[p].selection, chosen[p]) /\ Reaches(p, views[p].offset)
<1>1. views[p].offset \in Nat
  BY PaneKnown
<1> QED BY <1>1 DEF SelectionsHeld, Reaches

LEMMA NothingShown ==
  ASSUME ViewTyping, SelectionsHeld, Still, UNCHANGED <<views, chosen>>
  PROVE  /\ views' \in [Places -> PaneViews] /\ chosen' \in [Places -> Lines]
         /\ SelectionsHeld' /\ NoFurther
<1>1. views' \in [Places -> PaneViews] /\ chosen' \in [Places -> Lines]
  BY DEF ViewTyping
<1> QED BY <1>1, PaneByPane, AsItWas

LEMMA OneShown ==
  ASSUME ViewTyping, SelectionsHeld, Still,
         NEW p \in Places, NEW v \in PaneViews, NEW c \in Lines,
         views' = [views EXCEPT ![p] = v], chosen' = [chosen EXCEPT ![p] = c],
         HeldIn(Screen(p), v.selection, c), Reaches(p, v.offset)
  PROVE  /\ views' \in [Places -> PaneViews] /\ chosen' \in [Places -> Lines]
         /\ SelectionsHeld' /\ NoFurther
<1>1. views' \in [Places -> PaneViews] /\ chosen' \in [Places -> Lines]
  BY DEF ViewTyping
<1>2. ASSUME NEW q \in Places
      PROVE  HeldIn(Screen(q), views'[q].selection, chosen'[q]) /\ Reaches(q, views'[q].offset)
  <2>1. views \in [Places -> PaneViews] /\ chosen \in [Places -> Lines]
    BY DEF ViewTyping
  <2>2. CASE q = p
    <3>1. views'[q] = v /\ chosen'[q] = c
      BY <2>1, <2>2
    <3> QED BY <3>1, <2>2
  <2>3. CASE q # p
    <3>1. views'[q] = views[q] /\ chosen'[q] = chosen[q]
      BY <2>1, <2>3
    <3> QED BY <3>1, AsItWas
  <2> QED BY <2>2, <2>3
<1> QED BY <1>1, <1>2, PaneByPane

LEMMA FindKept ==
  ASSUME ViewTyping, StillThere, Still, UNCHANGED find
  PROVE  StillThere'
<1>1. \A p : Screen(p)' = Screen(p)
  BY DEF Screen, Still
<1> QED BY <1>1 DEF StillThere

-----------------------------------------------------------------------------
(* Scrolling and selecting.                                                *)

LEMMA ScrollToShown ==
  ASSUME ViewTyping, SelectionsHeld, Still,
         NEW p \in Places, NEW offset \in Nat, ScrollTo(p, offset), Reaches(p, offset)
  PROVE  /\ views' \in [Places -> PaneViews] /\ chosen' \in [Places -> Lines] /\ drag' \in PaneDrags
         /\ SelectionsHeld' /\ NoFurther
<1> DEFINE v == [offset |-> offset, selection |-> views[p].selection]
<1>1. v \in PaneViews /\ chosen[p] \in Lines
  BY PaneKnown DEF PaneViews
<1>2. v.offset = offset /\ v.selection = views[p].selection
  OBVIOUS
<1>3. views' = [views EXCEPT ![p] = v]
  BY DEF ScrollTo, View
<1>4. chosen' = [chosen EXCEPT ![p] = chosen[p]]
  BY DEF ScrollTo, ViewTyping
<1>5. drag' \in PaneDrags
  BY DEF ScrollTo, ViewTyping
<1>6. HeldIn(Screen(p), v.selection, chosen[p]) /\ Reaches(p, v.offset)
  BY <1>2, AsItWas
<1> HIDE DEF v
<1> QED BY <1>1, <1>3, <1>4, <1>5, <1>6, OneShown

LEMMA ScrollByShown ==
  ASSUME ViewTyping, SelectionsHeld, Still, NEW p \in Places, NEW lines \in Int, ScrollBy(p, lines)
  PROVE  /\ views' \in [Places -> PaneViews] /\ chosen' \in [Places -> Lines] /\ drag' \in PaneDrags
         /\ SelectionsHeld' /\ NoFurther
<1>1. Screen(p).history \in Nat /\ views[p].offset + lines \in Int
  BY PaneKnown
<1>2. Clamped(views[p].offset + lines, Screen(p).history) \in 0 .. Screen(p).history
  BY <1>1, ClampedIs
<1> DEFINE o == Clamped(views[p].offset + lines, Screen(p).history)
<1>3. o \in Nat /\ Reaches(p, o)
  BY <1>1, <1>2 DEF Reaches
<1>4. ScrollTo(p, o)
  BY DEF ScrollBy
<1> HIDE DEF o
<1> QED BY <1>3, <1>4, ScrollToShown

LEMMA LinesOfIs ==
  ASSUME ViewTyping, NEW p \in Places, NEW selection \in Selections
  PROVE  /\ LinesOf(p, selection) \in Lines
         /\ HeldIn(Screen(p), selection, LinesOf(p, selection))
<1>1. HeldIn(Screen(p), selection, LinesOf(p, selection))
  BY DEF HeldIn, LinesOf
<1>2. CASE selection = <<>>
  <2>1. LinesOf(p, selection) = <<>>
    BY <1>2 DEF LinesOf
  <2> QED BY <1>1, <2>1 DEF Lines
<1>3. CASE selection \in Positions \X Positions
  <2>1. selection[1] \in Positions /\ selection[2] \in Positions /\ DOMAIN selection = 1..2
    BY <1>3
  <2>2. selection[1][1] \in Int /\ selection[2][1] \in Int
    BY <2>1 DEF Positions
  <2>3. LineAt(Screen(p), selection[1][1]) \in Int /\ LineAt(Screen(p), selection[2][1]) \in Int
    BY <2>2, PaneKnown, LineTyped
  <2>4. LinesOf(p, selection) = <<LineAt(Screen(p), selection[1][1]), LineAt(Screen(p), selection[2][1])>>
    BY <2>1 DEF LinesOf
  <2> QED BY <1>1, <2>3, <2>4 DEF Lines
<1> QED BY <1>2, <1>3 DEF Selections

LEMMA UndraggedTyped ==
  ASSUME drag \in PaneDrags, NEW p, NEW clears
  PROVE  Undragged(p, clears) \in PaneDrags
BY DEF Undragged, PaneDrags

LEMMA SelectShown ==
  ASSUME ViewTyping, SelectionsHeld, Still,
         NEW p \in Places, NEW offset \in Nat, NEW selection \in Selections,
         Select(p, offset, selection), Reaches(p, offset)
  PROVE  /\ views' \in [Places -> PaneViews] /\ chosen' \in [Places -> Lines] /\ drag' \in PaneDrags
         /\ SelectionsHeld' /\ NoFurther
<1> DEFINE v == [offset |-> offset, selection |-> selection]
           c == LinesOf(p, selection)
<1>1. v \in PaneViews /\ v.offset = offset /\ v.selection = selection
  BY DEF PaneViews
<1>2. c \in Lines /\ HeldIn(Screen(p), v.selection, c) /\ Reaches(p, v.offset)
  BY <1>1, LinesOfIs
<1>3. views' = [views EXCEPT ![p] = v] /\ chosen' = [chosen EXCEPT ![p] = c]
  BY DEF Select, View
<1>4. drag' \in PaneDrags
  BY UndraggedTyped DEF Select, ViewTyping
<1> HIDE DEF v, c
<1> QED BY <1>1, <1>2, <1>3, <1>4, OneShown

-----------------------------------------------------------------------------
(* The scrollbar.                                                          *)

LEMMA Products ==
  ASSUME NEW t \in Nat, NEW h \in Nat, NEW c \in 0..h
  PROVE  /\ t * (h - c) \in Nat /\ t * h \in Nat /\ t * c \in Nat
         /\ t * (h - c) = t * h - t * c /\ h * t = t * h
<1>1. h - c \in Nat /\ c \in Nat
  OBVIOUS
<1>2. t * (h - c) \in Nat /\ t * h \in Nat /\ t * c \in Nat
  BY <1>1
<1> QED BY <1>2

LEMMA DividedBack ==
  ASSUME NEW t \in Nat \ {0}, NEW c \in Nat
  PROVE  (2 * (t * c) + t) \div (2 * t) = c
<1> DEFINE d == 2 * t
           a == 2 * (t * c) + t
<1>1. d \in Nat /\ d > 0 /\ t < d /\ t \in Nat
  OBVIOUS
<1>2. a = d * c + t
  OBVIOUS
<1> HIDE DEF a, d
<1>3. (d * c + t) \div d = c
  BY <1>1
<1> QED BY <1>2, <1>3 DEF a, d

LEMMA BarTyped ==
  /\ ArrowHeight \in Int /\ Track \in Int
  /\ \A h \in Nat : ThumbHeight(h) \in Int /\ Travel(h) \in Nat
<1>1. Height \in Nat /\ Rows \in Nat \ {0}
  BY UiViewAssumption
<1>2. Height \div 4 \in Int
  BY <1>1
<1>3. ArrowHeight \in Int
  BY <1>2, MinOfTwo DEF ArrowHeight
<1>4. Track \in Int
  BY <1>1, <1>3 DEF Track
<1>5. ASSUME NEW h \in Nat PROVE ThumbHeight(h) \in Int /\ Travel(h) \in Nat
  <2> DEFINE x == (Track * Rows) \div (h + Rows)
             a == Min({MinThumb, Track})
             b == Min({x, Track})
  <2>1. x \in Int
    <3>1. Track * Rows \in Int /\ h + Rows \in Nat \ {0}
      BY <1>1, <1>4
    <3> QED BY <3>1
  <2>2. a \in Int /\ a <= Track
    BY <1>4, MinOfTwo DEF MinThumb
  <2>3. b \in Int /\ b <= Track
    <3> HIDE DEF x
    <3> QED BY <1>4, <2>1, MinOfTwo
  <2>4. ThumbHeight(h) = Max({a, b})
    BY DEF ThumbHeight
  <2> HIDE DEF a, b
  <2>5. Max({a, b}) = IF a >= b THEN a ELSE b
    BY <2>2, <2>3, MaxOfTwo
  <2> QED BY <1>4, <2>2, <2>3, <2>4, <2>5 DEF Travel
<1> QED BY <1>3, <1>4, <1>5

LEMMA ThumbTopTyped ==
  ASSUME NEW h \in Nat, NEW offset \in Int
  PROVE  ThumbTop(h, offset) \in Int
<1>1. Clamped(offset, h) \in Int
  BY ClampedIs
<1>2. ArrowHeight * h \in Int /\ Travel(h) * (h - Clamped(offset, h)) \in Int
  BY <1>1, BarTyped
<1> QED BY <1>2 DEF ThumbTop

LEMMA OffsetTyped ==
  ASSUME NEW h \in Nat, NEW top \in Int
  PROVE  OffsetForTop(h, top) \in Int
<1> DEFINE t == Travel(h)
           down == Clamped(top - ArrowHeight * h, t * h)
<1>1. t \in Nat /\ t * h \in Nat /\ ArrowHeight * h \in Int
  <2>1. t \in Nat /\ ArrowHeight \in Int
    BY BarTyped
  <2> HIDE DEF t
  <2> QED BY <2>1
<1>2. down \in Int
  <2>1. top - ArrowHeight * h \in Int
    BY <1>1
  <2> HIDE DEF t
  <2> QED BY <1>1, <2>1, ClampedIs
<1>3. OffsetForTop(h, top) = IF t = 0 THEN 0 ELSE (2 * (h * t - down) + t) \div (2 * t)
  BY DEF OffsetForTop
<1> HIDE DEF t, down
<1>4. ASSUME t # 0 PROVE (2 * (h * t - down) + t) \div (2 * t) \in Int
  <2>1. 2 * (h * t - down) + t \in Int /\ 2 * t \in Nat \ {0}
    BY <1>1, <1>2, <1>4
  <2> QED BY <2>1
<1> QED BY <1>3, <1>4

(* A thumb that is dragged by nothing leaves the view as it is: what the   *)
(* thumb's place loses in rounding is given back.                          *)
LEMMA ThumbRoundTrip ==
  ASSUME NEW h \in Nat, NEW offset \in Nat, Travel(h) > 0
  PROVE  OffsetForTop(h, ThumbTop(h, offset)) = Min({offset, h})
<1> DEFINE t == Travel(h)
           c == Clamped(offset, h)
           top == ThumbTop(h, offset)
           down == Clamped(top - ArrowHeight * h, t * h)
<1>1. t \in Nat \ {0}
  BY BarTyped
<1>2. c \in 0..h /\ c = Min({offset, h})
  <2>1. Clamped(offset, h) = (IF offset <= h THEN offset ELSE h) /\ Clamped(offset, h) \in 0..h
    <3>1. offset \in Int /\ ~(offset < 0)
      OBVIOUS
    <3> QED BY <3>1, ClampedIs
  <2>2. Min({offset, h}) = IF offset <= h THEN offset ELSE h
    BY MinOfTwo
  <2> QED BY <2>1, <2>2
<1>3. top = ArrowHeight * h + t * (h - c)
  BY DEF ThumbTop
<1>4. OffsetForTop(h, top) = (2 * (h * t - down) + t) \div (2 * t)
  BY <1>1 DEF OffsetForTop
<1>5. down = t * (h - c)
  <2> HIDE DEF t, c
  <2>1. ArrowHeight * h \in Int
    BY BarTyped
  <2>2. t * (h - c) \in Nat /\ t * h \in Nat /\ t * (h - c) <= t * h
    BY <1>1, <1>2, Products
  <2>3. top - ArrowHeight * h = t * (h - c)
    <3> HIDE DEF top
    <3> QED BY <1>3, <2>1, <2>2
  <2> HIDE DEF top
  <2> QED BY <2>2, <2>3, ClampedIs
<1> HIDE DEF t, c, top, down
<1>6. h * t - down = t * c
  BY <1>1, <1>2, <1>5, Products
<1>7. (2 * (t * c) + t) \div (2 * t) = c
  BY <1>1, <1>2, DividedBack
<1>8. OffsetForTop(h, top) = c
  BY <1>4, <1>6, <1>7
<1> QED BY <1>2, <1>8 DEF c, top

-----------------------------------------------------------------------------
(* Applications and the host.                                              *)

MarkTyped == mark \in [pane : Nat, start : BOOLEAN]

(* The lines of a buffer as it becomes.                                    *)
SameLines(s, t) == TotalRows(s) <= TotalRows(t) /\ \A row \in Int : LineAt(t, row) = LineAt(s, row)

(* Buffers change, and only panes whose lines stay keep what they know.    *)
LEMMA Renewed ==
  ASSUME ViewInv, NEW ps, Unsure(ps), Stale(ps),
         screens' \in [Sessions -> Screens], panes' \in SetToSeqs(Sessions), focus' \in Places,
         views' \in [Places -> PaneViews], drag' \in PaneDrags, thumb' \in Thumbs, MarkTyped',
         \A p \in Places : views'[p].offset <= views[p].offset,
         \A p \in Places \ ps : SameLines(Screen(p), Screen(p)') /\ views'[p] = views[p]
  PROVE  ViewInv' /\ NoFurther
<1>1. chosen' \in [Places -> Lines]
  <2>1. chosen \in [Places -> Lines] /\ <<>> \in Lines
    BY DEF ViewInv, ViewTyping, Lines
  <2> QED BY <2>1 DEF Unsure
<1>2. find' \in Finds /\ find'.pane = find.pane /\ find'.matches = find.matches /\ find'.query = find.query
        /\ (find'.sure => find.sure /\ find.pane \notin ps)
  BY DEF ViewInv, ViewTyping, Stale, Finds
<1>3. ViewTyping'
  BY <1>1, <1>2 DEF ViewTyping, MarkTyped
<1>4. SelectionsHeld'
  <2> SUFFICES ASSUME NEW p \in Places PROVE HeldIn(Screen(p)', views'[p].selection, chosen'[p])
    BY DEF SelectionsHeld
  <2>0. DOMAIN chosen = Places
    BY DEF ViewInv, ViewTyping
  <2>1. CASE p \in ps
    <3>1. chosen'[p] = <<>>
      BY <2>0, <2>1 DEF Unsure
    <3> QED BY <3>1 DEF HeldIn
  <2>2. CASE p \notin ps
    <3>1. chosen'[p] = chosen[p] /\ views'[p] = views[p]
      BY <2>0, <2>2 DEF Unsure
    <3>2. \A row \in Int : LineAt(Screen(p)', row) = LineAt(Screen(p), row)
      BY <2>2 DEF SameLines
    <3>3. HeldIn(Screen(p), views[p].selection, chosen[p])
      BY DEF ViewInv, SelectionsHeld
    <3>4. \A i \in DOMAIN views[p].selection : views[p].selection[i][1] \in Int
      <4>1. views[p].selection \in Selections
        BY PaneKnown DEF ViewInv
      <4>2. CASE views[p].selection = <<>>
        BY <4>2
      <4>3. CASE views[p].selection \in Positions \X Positions
        BY <4>3 DEF Positions
      <4> QED BY <4>1, <4>2, <4>3 DEF Selections
    <3>5. [i \in DOMAIN views[p].selection |-> LineAt(Screen(p)', views[p].selection[i][1])]
            = [i \in DOMAIN views[p].selection |-> LineAt(Screen(p), views[p].selection[i][1])]
      BY <3>2, <3>4
    <3> QED BY <3>1, <3>3, <3>5 DEF HeldIn
  <2> QED BY <2>1, <2>2
<1>5. StillThere'
  <2> SUFFICES ASSUME find'.sure
               PROVE  /\ find'.pane \in Places
                      /\ \A row \in find'.matches :
                           /\ row < TotalRows(screens'[panes'[find'.pane]])
                           /\ LineAt(screens'[panes'[find'.pane]], row) \in Queries[find'.query]
    BY DEF StillThere, Screen, LineAt, TotalRows
  <2>0. PICK q : q = find.pane
    OBVIOUS
  <2>1. find.sure /\ q \in Places \ ps
    BY <1>2, <2>0 DEF ViewInv, StillThere
  <2>2. SameLines(Screen(q), Screen(q)') /\ Screen(q)' = screens'[panes'[q]]
    BY <2>1 DEF Screen
  <2> DEFINE t == screens'[panes'[q]]
  <2>3. ASSUME NEW row \in find.matches
        PROVE  row < TotalRows(t) /\ LineAt(t, row) \in Queries[find.query]
    <3>1. row \in Int
      <4>1. find.matches \in SUBSET BufferRows
        BY DEF ViewInv, ViewTyping, Finds
      <4> QED BY <4>1 DEF BufferRows
    <3>2. row < TotalRows(Screen(q)) /\ LineAt(Screen(q), row) \in Queries[find.query]
      BY <2>0, <2>1 DEF ViewInv, StillThere
    <3>3. TotalRows(Screen(q)) \in Int /\ TotalRows(t) \in Int
      <4>1. Screen(q).history \in Int
        BY <2>1, PaneKnown DEF ViewInv
      <4>2. panes'[q] \in Sessions
        BY <2>1, Numbered
      <4>3. t.history \in Int
        BY <4>2, UiViewAssumption DEF Screens
      <4> HIDE DEF t
      <4> QED BY <4>1, <4>3, UiViewAssumption DEF TotalRows
    <3>4. TotalRows(Screen(q)) <= TotalRows(t) /\ LineAt(t, row) = LineAt(Screen(q), row)
      <4>1. SameLines(Screen(q), t)
        BY <2>2
      <4> HIDE DEF t
      <4> QED BY <3>1, <4>1 DEF SameLines
    <3> HIDE DEF t
    <3> QED BY <3>1, <3>2, <3>3, <3>4
  <2> QED BY <1>2, <2>0, <2>1, <2>3
<1>6. NoFurther
  <2>1. DOMAIN views = Places
    BY DEF ViewInv, ViewTyping
  <2> SUFFICES ASSUME NEW p \in Places
               PROVE  views'[p].offset <= Max({screens'[panes'[p]].history, views[p].offset})
    BY <2>1 DEF NoFurther
  <2>2. panes'[p] \in Sessions
    BY Numbered
  <2>3. screens'[panes'[p]].history \in Int
    BY <2>2, UiViewAssumption DEF Screens
  <2>4. views[p].offset \in Int /\ views'[p].offset \in Int /\ views'[p].offset <= views[p].offset
    <3>1. views[p].offset \in Nat
      BY PaneKnown DEF ViewInv
    <3>2. views'[p] \in PaneViews
      OBVIOUS
    <3> QED BY <3>1, <3>2 DEF PaneViews
  <2> DEFINE h == screens'[panes'[p]].history
             o == views[p].offset
  <2>5. Max({h, o}) = IF h >= o THEN h ELSE o
    <3> HIDE DEF h, o
    <3>1. h \in Int /\ o \in Int
      BY <2>3, <2>4 DEF h, o
    <3> QED BY <3>1, MaxOfTwo
  <2> QED BY <2>3, <2>4, <2>5
<1> QED BY <1>3, <1>4, <1>5, <1>6 DEF ViewInv

LEMMA OutputKeeps ==
  ASSUME ViewInv, Output
  PROVE  ViewInv' /\ NoFurther
<1>1. PICK s \in Sessions :
        LET full == screens[s].history = MaxHistory
        IN  /\ screens[s].kind # "alternate"
            /\ screens' = [screens EXCEPT ![s].printed = @ + 1, ![s].history = Min({@ + 1, MaxHistory})]
            /\ Unsure(IF full THEN NumbersOf(s) ELSE {}) /\ Stale(IF full THEN NumbersOf(s) ELSE {})
            /\ UNCHANGED <<panes, focus, views, drag, thumb, mark>>
  BY DEF Output
<1> DEFINE ps == IF screens[s].history = MaxHistory THEN NumbersOf(s) ELSE {}
<1>2. screens[s] \in Screens /\ screens[s].history \in Nat /\ screens[s].history <= MaxHistory /\ MaxHistory \in Nat
  BY UiViewAssumption DEF ViewInv, ViewTyping, Screens
<1>3. Min({screens[s].history + 1, MaxHistory})
        = IF screens[s].history + 1 <= MaxHistory THEN screens[s].history + 1 ELSE MaxHistory
  BY <1>2, MinOfTwo
<1> DEFINE t == [screens[s] EXCEPT !.printed = @ + 1, !.history = Min({@ + 1, MaxHistory})]
<1>4. screens' = [screens EXCEPT ![s] = t]
  BY <1>1
<1>5. t \in Screens /\ t.kind = screens[s].kind /\ t.printed = screens[s].printed + 1
        /\ t.history = (IF screens[s].history = MaxHistory THEN MaxHistory ELSE screens[s].history + 1)
  <2> DEFINE h == Min({screens[s].history + 1, MaxHistory})
             u == [screens[s] EXCEPT !.printed = @ + 1]
  <2>1. h \in 0..MaxHistory /\ h = (IF screens[s].history = MaxHistory THEN MaxHistory ELSE screens[s].history + 1)
    BY <1>2, <1>3
  <2>2. u \in Screens /\ u.printed = screens[s].printed + 1 /\ u.kind = screens[s].kind
    BY <1>2 DEF Screens
  <2>3. t = [u EXCEPT !.history = h]
    BY <1>2 DEF Screens
  <2> HIDE DEF t, u, h
  <2>4. t \in Screens /\ t.printed = u.printed /\ t.kind = u.kind /\ t.history = h
    BY <2>1, <2>2, <2>3 DEF Screens
  <2> QED BY <2>1, <2>2, <2>4
<1> HIDE DEF t
<1>6. screens' \in [Sessions -> Screens]
  BY <1>4, <1>5 DEF ViewInv, ViewTyping
<1>7. ASSUME NEW p \in Places \ ps PROVE SameLines(Screen(p), Screen(p)')
  <2>0. Screen(p)' = screens'[panes[p]] /\ panes[p] \in Sessions /\ Numbers = Places /\ Screen(p) \in Screens
    BY <1>1, PaneKnown DEF ViewInv, Screen
  <2>1. CASE panes[p] # s
    <3>1. Screen(p)' = Screen(p)
      BY <1>4, <2>0, <2>1 DEF Screen, ViewInv, ViewTyping
    <3>2. TotalRows(Screen(p)) \in Int
      BY <2>0, UiViewAssumption DEF TotalRows, Screens
    <3> QED BY <3>1, <3>2 DEF SameLines
  <2>2. CASE panes[p] = s
    <3>1. Screen(p)' = t /\ Screen(p) = screens[s]
      BY <1>4, <2>0, <2>2 DEF Screen, ViewInv, ViewTyping
    <3>2. screens[s].history # MaxHistory
      BY <2>0, <2>2 DEF NumbersOf
    <3>3. t.history = screens[s].history + 1
      BY <1>5, <3>2
    <3>4. TotalRows(t) = TotalRows(screens[s]) + 1 /\ TotalRows(screens[s]) \in Int
      BY <1>2, <3>3, UiViewAssumption DEF TotalRows
    <3>5. ASSUME NEW row \in Int PROVE LineAt(t, row) = LineAt(screens[s], row)
      <4>1. screens[s].printed \in Int
        BY <1>2 DEF Screens
      <4> QED BY <1>1, <1>5, <3>4, <4>1 DEF LineAt
    <3> QED BY <3>1, <3>4, <3>5 DEF SameLines
  <2> QED BY <2>1, <2>2
<1>8. Unsure(ps) /\ Stale(ps)
  BY <1>1
<1>9. /\ panes' \in SetToSeqs(Sessions) /\ focus' \in Places /\ views' \in [Places -> PaneViews]
      /\ drag' \in PaneDrags /\ thumb' \in Thumbs /\ MarkTyped' /\ views' = views
  BY <1>1 DEF ViewInv, ViewTyping, MarkTyped
<1>10. \A p \in Places : views'[p].offset <= views[p].offset
  BY <1>9 DEF PaneViews
<1> HIDE DEF ps
<1> QED BY <1>6, <1>7, <1>8, <1>9, <1>10, Renewed

(* A step of one buffer is none of the others.                             *)
LEMMA OtherLines ==
  ASSUME ViewTyping, NEW s \in Sessions, NEW t, screens' = [screens EXCEPT ![s] = t], UNCHANGED panes,
         NEW p \in Places, panes[p] # s
  PROVE  SameLines(Screen(p), Screen(p)')
<1>1. panes[p] \in Sessions /\ Screen(p) \in Screens
  BY PaneKnown
<1>2. Screen(p)' = Screen(p)
  BY <1>1 DEF Screen, ViewTyping
<1>3. TotalRows(Screen(p)) \in Int
  BY <1>1, UiViewAssumption DEF TotalRows, Screens
<1> QED BY <1>2, <1>3 DEF SameLines

LEMMA SetKindKeeps ==
  ASSUME ViewInv, SetKind
  PROVE  ViewInv' /\ NoFurther
<1>1. PICK s \in Sessions, kind \in {"lines", "alternate", "mouse"} :
        /\ screens' = [screens EXCEPT ![s].kind = kind]
        /\ Unsure(NumbersOf(s)) /\ Stale(NumbersOf(s))
        /\ UNCHANGED <<panes, focus, views, drag, thumb, mark>>
  BY DEF SetKind
<1> DEFINE t == [screens[s] EXCEPT !.kind = kind]
<1>2. screens' = [screens EXCEPT ![s] = t] /\ t \in Screens
  BY <1>1 DEF ViewInv, ViewTyping, Screens, Kinds
<1> HIDE DEF t
<1>3. screens' \in [Sessions -> Screens]
  BY <1>2 DEF ViewInv, ViewTyping
<1>4. ASSUME NEW p \in Places \ NumbersOf(s) PROVE SameLines(Screen(p), Screen(p)')
  <2>1. panes[p] # s
    BY PaneKnown DEF ViewInv, NumbersOf
  <2> QED BY <1>1, <1>2, <2>1, OtherLines DEF ViewInv
<1>5. /\ panes' \in SetToSeqs(Sessions) /\ focus' \in Places /\ views' \in [Places -> PaneViews]
      /\ drag' \in PaneDrags /\ thumb' \in Thumbs /\ MarkTyped' /\ views' = views
  BY <1>1 DEF ViewInv, ViewTyping, MarkTyped
<1>6. \A p \in Places : views'[p].offset <= views[p].offset
  BY <1>5 DEF PaneViews
<1> QED BY <1>1, <1>3, <1>4, <1>5, <1>6, Renewed

LEMMA ReshownKeeps ==
  ASSUME ViewInv, Reshown
  PROVE  ViewInv' /\ NoFurther
<1>0. PICK s \in Sessions : \E h \in {0, screens[s].history} : screens' = [screens EXCEPT ![s].history = h]
  BY DEF Reshown
<1>1. PICK h \in {0, screens[s].history} : screens' = [screens EXCEPT ![s].history = h]
  BY <1>0
<1> DEFINE t == [screens[s] EXCEPT !.history = h]
<1>2. screens' = [screens EXCEPT ![s] = t] /\ t \in Screens
  BY <1>1, UiViewAssumption DEF ViewInv, ViewTyping, Screens
<1> HIDE DEF t
<1>3. screens' \in [Sessions -> Screens]
  BY <1>2 DEF ViewInv, ViewTyping
<1>4. panes' \in SetToSeqs(Sessions) /\ DOMAIN panes' = Places
  BY Numbered DEF Reshown
<1>5. Numbers = Places
  BY Numbered DEF ViewInv, ViewTyping, Numbers
<1>6. /\ focus' \in Places /\ views' \in [Places -> PaneViews]
      /\ drag' \in PaneDrags /\ thumb' \in Thumbs /\ MarkTyped' /\ views' = views
      /\ Unsure(Places) /\ Stale(Places)
  BY <1>4, <1>5 DEF ViewInv, ViewTyping, MarkTyped, Reshown
<1>7. \A p \in Places : views'[p].offset <= views[p].offset
  BY <1>6 DEF PaneViews
<1> QED BY <1>3, <1>4, <1>6, <1>7, Renewed

LEMMA ClearKeeps ==
  ASSUME ViewInv, Clear
  PROVE  ViewInv' /\ NoFurther
<1>1. PICK blank \in {0, Rows} :
        /\ screens' = [screens EXCEPT ![panes[focus]].printed = @ + blank, ![panes[focus]].history = 0]
        /\ View(focus, 0, <<>>) /\ drag' = Undragged(focus, TRUE)
        /\ Unsure({focus}) /\ Stale({focus})
        /\ mark' = [pane |-> 0, start |-> FALSE]
        /\ UNCHANGED <<panes, focus, thumb>>
  BY DEF Clear
<1>2. focus \in Places /\ panes[focus] \in Sessions
  BY PaneKnown DEF ViewInv, ViewTyping
<1> DEFINE s == panes[focus]
           t == [screens[s] EXCEPT !.printed = @ + blank, !.history = 0]
<1>3. screens' = [screens EXCEPT ![s] = t]
  BY <1>1
<1>4. t \in Screens
  <2> DEFINE u == [screens[s] EXCEPT !.printed = @ + blank]
  <2>1. u \in Screens
    BY <1>2, UiViewAssumption DEF ViewInv, ViewTyping, Screens
  <2>2. t = [u EXCEPT !.history = 0]
    BY <1>2 DEF ViewInv, ViewTyping, Screens
  <2> HIDE DEF t, u
  <2> QED BY <2>1, <2>2, UiViewAssumption DEF Screens
<1> HIDE DEF t
<1>5. screens' \in [Sessions -> Screens]
  BY <1>2, <1>3, <1>4 DEF ViewInv, ViewTyping
<1>6. ASSUME NEW p \in Places \ {focus} PROVE SameLines(Screen(p), Screen(p)')
  <2>1. panes[p] # s
    BY <1>2, Numbered DEF ViewInv, ViewTyping
  <2> QED BY <1>1, <1>2, <1>3, <2>1, OtherLines DEF ViewInv
<1> DEFINE v == [offset |-> 0, selection |-> <<>>]
<1>7. v \in PaneViews /\ v.offset = 0
  BY DEF PaneViews, Selections
<1>8. views' = [views EXCEPT ![focus] = v]
  BY <1>1 DEF View
<1> HIDE DEF v
<1>9. views' \in [Places -> PaneViews] /\ views'[focus] = v /\ \A p \in Places \ {focus} : views'[p] = views[p]
  BY <1>2, <1>7, <1>8 DEF ViewInv, ViewTyping
<1>10. \A p \in Places : views'[p].offset <= views[p].offset
  BY <1>2, <1>7, <1>9, PaneKnown DEF ViewInv
<1>11. /\ panes' \in SetToSeqs(Sessions) /\ focus' \in Places
       /\ drag' \in PaneDrags /\ thumb' \in Thumbs /\ MarkTyped'
  BY <1>1, UndraggedTyped DEF ViewInv, ViewTyping, MarkTyped
<1> QED BY <1>1, <1>5, <1>6, <1>9, <1>10, <1>11, Renewed

-----------------------------------------------------------------------------
(* Keys.                                                                   *)

LEMMA KeptKeeps ==
  ASSUME ViewInv, Kept, focus' \in Places, MarkTyped',
         views' \in [Places -> PaneViews], chosen' \in [Places -> Lines], drag' \in PaneDrags, SelectionsHeld'
  PROVE  ViewInv'
<1>1. ViewTyping'
  BY DEF ViewInv, ViewTyping, Kept, MarkTyped
<1>2. StillThere'
  BY FindKept DEF Kept, Still, ViewInv
<1> QED BY <1>1, <1>2 DEF ViewInv

LEMMA UnviewedKeeps ==
  ASSUME ViewInv, Kept, UNCHANGED <<views, chosen, drag>>, focus' \in Places, MarkTyped'
  PROVE  ViewInv' /\ NoFurther
<1>1. Still /\ drag' \in PaneDrags
  BY DEF Kept, Still, ViewInv, ViewTyping
<1>2. /\ views' \in [Places -> PaneViews] /\ chosen' \in [Places -> Lines]
      /\ SelectionsHeld' /\ NoFurther
  BY <1>1, NothingShown DEF ViewInv
<1> QED BY <1>1, <1>2, KeptKeeps

LEMMA FocusKnown ==
  ASSUME ViewInv
  PROVE  /\ focus \in Places /\ MarkTyped /\ drag \in PaneDrags /\ ViewTyping /\ SelectionsHeld
         /\ Rows \in Nat \ {0} /\ Cols \in Nat \ {0} /\ MaxHistory \in Nat
BY UiViewAssumption DEF ViewInv, ViewTyping, MarkTyped

LEMMA NavigateKeeps ==
  ASSUME ViewInv, Navigate
  PROVE  ViewInv' /\ NoFurther
<1>1. Still /\ focus' \in Places /\ MarkTyped' /\ Kept
  BY FocusKnown DEF Navigate, Kept, Still, MarkTyped
<1> DEFINE page == Max({Rows - 1, 1})
<1>2. page \in Int
  BY FocusKnown, MaxOfTwo
<1> DEFINE Done ==
      /\ views' \in [Places -> PaneViews] /\ chosen' \in [Places -> Lines] /\ drag' \in PaneDrags
      /\ SelectionsHeld' /\ NoFurther
<1>3. ASSUME NEW lines \in {1, -1, page, -page}, ScrollBy(focus, lines) PROVE Done
  <2>1. lines \in Int
    <3> HIDE DEF page
    <3> QED BY <1>2
  <2> QED BY <1>1, <1>3, <2>1, FocusKnown, ScrollByShown
<1>4. ASSUME NEW offset \in {0, Screen(focus).history}, ScrollTo(focus, offset) PROVE Done
  <2>1. offset \in Nat /\ offset <= Screen(focus).history
    BY FocusKnown, PaneKnown
  <2>2. Reaches(focus, offset)
    BY <2>1 DEF Reaches
  <2> QED BY <1>1, <1>4, <2>1, <2>2, FocusKnown, ScrollToShown
<1>5. Done
  BY <1>3, <1>4 DEF Navigate
<1> QED BY <1>1, <1>5, KeptKeeps

LEMMA CursorTyped ==
  ASSUME ViewTyping, NEW p \in Places, NEW row \in Int, NEW col \in Int
  PROVE  CursorAt(p, row, col) \in Positions
<1>1. Base(p) + row \in Int /\ TotalRows(Screen(p)) - 1 \in Int /\ Cols - 1 \in Int
  BY BaseIs, PaneKnown, UiViewAssumption DEF TotalRows
<1>2. Min({Base(p) + row, TotalRows(Screen(p)) - 1}) \in Int
  BY <1>1, MinOfTwo
<1>3. Min({col, Cols - 1}) \in Int
  BY <1>1, MinOfTwo
<1> QED BY <1>2, <1>3 DEF CursorAt, Positions

LEMMA SelectStill ==
  ASSUME ViewInv, Kept, UNCHANGED focus, MarkTyped', NEW selection \in Selections,
         Select(focus, views[focus].offset, selection)
  PROVE  ViewInv' /\ NoFurther
<1>1. Still /\ focus' \in Places
  BY FocusKnown DEF Kept, Still
<1>2. views[focus].offset \in Nat /\ Reaches(focus, views[focus].offset)
  BY FocusKnown, PaneKnown, AsItWas
<1>3. /\ views' \in [Places -> PaneViews] /\ chosen' \in [Places -> Lines] /\ drag' \in PaneDrags
      /\ SelectionsHeld' /\ NoFurther
  BY <1>1, <1>2, FocusKnown, SelectShown
<1> QED BY <1>1, <1>3, KeptKeeps

LEMMA MarkModeKeeps ==
  ASSUME ViewInv, MarkMode
  PROVE  ViewInv' /\ NoFurther
<1>1. Kept /\ UNCHANGED focus /\ mark' = [pane |-> focus, start |-> FALSE]
  BY DEF MarkMode, Marking
<1>2. focus' \in Places /\ MarkTyped'
  BY <1>1, FocusKnown DEF MarkTyped, Places
<1>3. PICK row \in 0..(Rows - 1) :
        IF views[focus].selection # <<>> THEN UNCHANGED <<views, chosen, drag>>
        ELSE LET at == CursorAt(focus, row, 0) IN Select(focus, views[focus].offset, <<at, at>>)
  BY DEF MarkMode
<1>4. CASE views[focus].selection # <<>>
  BY <1>1, <1>2, <1>3, <1>4, UnviewedKeeps
<1>5. CASE views[focus].selection = <<>>
  <2> DEFINE at == CursorAt(focus, row, 0)
  <2>1. at \in Positions
    BY FocusKnown, CursorTyped
  <2>2. Select(focus, views[focus].offset, <<at, at>>)
    BY <1>3, <1>5
  <2> HIDE DEF at
  <2>3. <<at, at>> \in Selections
    BY <2>1 DEF Selections
  <2> QED BY <1>1, <1>2, <2>2, <2>3, SelectStill
<1> QED BY <1>4, <1>5

LEMMA SelectAllKeeps ==
  ASSUME ViewInv, SelectAll
  PROVE  ViewInv' /\ NoFurther
<1>1. Kept /\ UNCHANGED focus /\ mark' = [pane |-> focus, start |-> FALSE]
  BY DEF SelectAll, Marking
<1>2. MarkTyped'
  BY <1>1, FocusKnown DEF MarkTyped, Places
<1> DEFINE from == <<Base(focus), 0>>
           to   == <<Min({Base(focus) + Rows, TotalRows(Screen(focus))}) - 1, Cols - 1>>
<1>3. from \in Positions
  BY FocusKnown, BaseIs DEF Positions
<1>4. to \in Positions
  <2>1. Base(focus) + Rows \in Int /\ TotalRows(Screen(focus)) \in Int
    BY FocusKnown, BaseIs, PaneKnown DEF TotalRows
  <2>2. Min({Base(focus) + Rows, TotalRows(Screen(focus))}) \in Int
    BY <2>1, MinOfTwo
  <2> QED BY <2>2, FocusKnown DEF Positions
<1>5. Select(focus, views[focus].offset, <<from, to>>)
  BY DEF SelectAll
<1> HIDE DEF from, to
<1>6. <<from, to>> \in Selections
  BY <1>3, <1>4 DEF Selections
<1> QED BY <1>1, <1>2, <1>5, <1>6, SelectStill

LEMMA OtherKeysKeep ==
  ASSUME ViewInv, SwitchEndpoint \/ EndMark \/ FocusOther
  PROVE  ViewInv' /\ NoFurther
<1>1. Kept /\ UNCHANGED <<views, chosen, drag>>
  BY DEF SwitchEndpoint, EndMark, FocusOther
<1>2. focus' \in Places
  BY FocusKnown, PaneKnown DEF SwitchEndpoint, EndMark, FocusOther
<1>3. MarkTyped'
  <2>1. CASE SwitchEndpoint
    <3>1. mark \in [pane : Nat, start : BOOLEAN] /\ mark' = [mark EXCEPT !.start = ~mark.start]
      BY <2>1, FocusKnown DEF SwitchEndpoint, MarkTyped
    <3>2. CASE mark.start = TRUE
      <4>1. mark' = [mark EXCEPT !.start = FALSE]
        BY <3>1, <3>2
      <4> QED BY <3>1, <4>1 DEF MarkTyped
    <3>3. CASE mark.start = FALSE
      <4>1. mark' = [mark EXCEPT !.start = TRUE]
        BY <3>1, <3>3
      <4> QED BY <3>1, <4>1 DEF MarkTyped
    <3>4. mark.start \in BOOLEAN
      BY <3>1
    <3> QED BY <3>2, <3>3, <3>4
  <2>2. CASE EndMark
    BY <2>2, FocusKnown DEF EndMark, MarkTyped
  <2>3. CASE FocusOther
    BY <2>3, FocusKnown DEF FocusOther, MarkTyped
  <2> QED BY <2>1, <2>2, <2>3
<1> QED BY <1>1, <1>2, <1>3, UnviewedKeeps

LEMMA TypeKeeps ==
  ASSUME ViewInv, Type
  PROVE  ViewInv' /\ NoFurther
<1>1. Kept /\ Still /\ UNCHANGED <<focus, mark>> /\ focus' \in Places /\ MarkTyped' /\ ForInput(focus, TRUE)
  BY FocusKnown DEF Type, Kept, Still, MarkTyped
<1>2. CASE Screen(focus).kind = "alternate"
  BY <1>1, <1>2, UnviewedKeeps DEF ForInput
<1>3. CASE Screen(focus).kind # "alternate"
  <2>1. 0 \in Nat /\ Reaches(focus, 0) /\ <<>> \in Selections
    BY FocusKnown, PaneKnown DEF Reaches, Selections
  <2>2. Select(focus, 0, <<>>) \/ ScrollTo(focus, 0)
    BY <1>1, <1>3 DEF ForInput
  <2>3. /\ views' \in [Places -> PaneViews] /\ chosen' \in [Places -> Lines] /\ drag' \in PaneDrags
        /\ SelectionsHeld' /\ NoFurther
    BY <1>1, <2>1, <2>2, FocusKnown, SelectShown, ScrollToShown
  <2> QED BY <1>1, <2>3, KeptKeeps
<1> QED BY <1>2, <1>3

LEMMA MovesTyped ==
  ASSUME NEW s \in Screens, NEW at \in Positions, NEW to \in Moves(at, s)
  PROVE  to \in Positions
<1>1. at[1] \in Int /\ at[2] \in Int /\ TotalRows(s) - 1 \in Int /\ Cols - 1 \in Int
  BY UiViewAssumption DEF Positions, Screens, TotalRows
<1> DEFINE left  == Max({at[2] - 1, 0})
           up    == Max({at[1] - 1, 0})
           right == Min({at[2] + 1, Cols - 1})
           down  == Min({at[1] + 1, TotalRows(s) - 1})
           last  == Cols - 1
           end   == TotalRows(s) - 1
<1>2. left \in Int /\ up \in Int
  BY <1>1, MaxOfTwo
<1>3. right \in Int
  BY <1>1, MinOfTwo
<1>4. down \in Int
  BY <1>1, MinOfTwo
<1> DEFINE Row(x) == [at EXCEPT ![1] = x]
           Col(x) == [at EXCEPT ![2] = x]
<1>5. \A x \in Int : Row(x) \in Positions /\ Col(x) \in Positions
  BY DEF Positions
<1>6. to \in {Col(left), Col(right), Row(up), Row(down), Col(0), Col(last), Row(0), Row(end)}
  BY DEF Moves
<1>7. last \in Int /\ end \in Int
  BY <1>1
<1> HIDE DEF left, up, right, down, last, end, Row, Col
<1> QED BY <1>2, <1>3, <1>4, <1>5, <1>6, <1>7

(* A selection with lines known has an end on each.                        *)
LEMMA BothEnds ==
  ASSUME ViewInv, NEW p \in Places, chosen[p] # <<>>
  PROVE  /\ views[p].selection \in Positions \X Positions
         /\ chosen[p] = <<LineAt(Screen(p), views[p].selection[1][1]), LineAt(Screen(p), views[p].selection[2][1])>>
<1>1. [i \in DOMAIN views[p].selection |-> LineAt(Screen(p), views[p].selection[i][1])] = chosen[p]
  BY DEF ViewInv, SelectionsHeld, HeldIn
<1>2. views[p].selection # <<>>
  BY <1>1
<1>3. views[p].selection \in Positions \X Positions
  BY <1>2, PaneKnown DEF ViewInv, Selections
<1>4. DOMAIN views[p].selection = 1..2
  BY <1>3
<1> QED BY <1>1, <1>3, <1>4

LEMMA MoveMarkKeeps ==
  ASSUME ViewInv, MoveMark
  PROVE  ViewInv' /\ NoFurther
<1> DEFINE end == IF mark.start THEN 1 ELSE 2
           sel == views[focus].selection
           old == IF sel # <<>> THEN sel ELSE <<CursorAt(focus, 0, 0), CursorAt(focus, 0, 0)>>
           c(at) == IF sel = <<>> THEN LinesOf(focus, [old EXCEPT ![end] = at])
                    ELSE IF chosen[focus] = <<>> THEN <<>>
                    ELSE [chosen[focus] EXCEPT ![end] = LineAt(Screen(focus), at[1])]
<1>0. Kept /\ UNCHANGED <<focus, mark>>
  BY DEF MoveMark
<1>1. Still /\ focus' \in Places /\ MarkTyped'
  BY <1>0, FocusKnown DEF Kept, Still, MarkTyped
<1>2. PICK at \in Moves(old[end], Screen(focus)) :
        /\ View(focus, views[focus].offset, [old EXCEPT ![end] = at])
        /\ chosen' = [chosen EXCEPT ![focus] = c(at)]
        /\ drag' = Undragged(focus, FALSE)
  BY DEF MoveMark
<1>3. end \in {1, 2} /\ sel \in Selections /\ Screen(focus) \in Screens /\ chosen[focus] \in Lines
        /\ views[focus].offset \in Nat /\ Reaches(focus, views[focus].offset)
  BY FocusKnown, PaneKnown, AsItWas
<1> HIDE DEF end
<1>4. old \in Positions \X Positions
  <2>1. CASE sel = <<>>
    <3>1. CursorAt(focus, 0, 0) \in Positions
      BY FocusKnown, CursorTyped
    <3> QED BY <2>1, <3>1
  <2>2. CASE sel # <<>>
    BY <1>3, <2>2 DEF Selections
  <2> QED BY <2>1, <2>2
<1> DEFINE new == [old EXCEPT ![end] = at]
<1>5. at \in Positions /\ new \in Positions \X Positions /\ new[end] = at
        /\ \A i \in {1, 2} : i # end => new[i] = old[i]
  <2> HIDE DEF old
  <2>1. old[end] \in Positions
    BY <1>3, <1>4
  <2>2. at \in Positions
    BY <1>2, <1>3, <2>1, MovesTyped
  <2> QED BY <1>3, <1>4, <2>2
<1>6. new \in Selections
  <2> HIDE DEF new
  <2> QED BY <1>5 DEF Selections
<1>7. c(at) \in Lines /\ HeldIn(Screen(focus), new, c(at))
  <2>1. CASE sel = <<>>
    <3>1. c(at) = LinesOf(focus, new)
      BY <2>1
    <3> HIDE DEF new, c
    <3> QED BY <1>6, <3>1, FocusKnown, LinesOfIs
  <2>2. CASE sel # <<>> /\ chosen[focus] = <<>>
    <3>1. c(at) = <<>>
      BY <2>2
    <3> HIDE DEF new, c
    <3> QED BY <3>1 DEF Lines, HeldIn
  <2>3. CASE sel # <<>> /\ chosen[focus] # <<>>
    <3>1. c(at) = [chosen[focus] EXCEPT ![end] = LineAt(Screen(focus), at[1])]
      BY <2>3
    <3>2. chosen[focus] = <<LineAt(Screen(focus), old[1][1]), LineAt(Screen(focus), old[2][1])>>
      BY <2>3, FocusKnown, BothEnds
    <3> DEFINE L(i) == LineAt(Screen(focus), new[i][1])
    <3> HIDE DEF old
    <3>3. c(at) = <<L(1), L(2)>>
      <4>1. CASE end = 1
        <5>1. new[1] = at /\ new[2] = old[2]
          BY <1>5, <4>1
        <5> HIDE DEF c, new
        <5> QED BY <3>1, <3>2, <4>1, <5>1
      <4>2. CASE end = 2
        <5>1. new[2] = at /\ new[1] = old[1]
          BY <1>5, <4>2
        <5> HIDE DEF c, new
        <5> QED BY <3>1, <3>2, <4>2, <5>1
      <4> QED BY <1>3, <4>1, <4>2
    <3>4. new[1][1] \in Int /\ new[2][1] \in Int /\ DOMAIN new = 1..2
      <4> HIDE DEF new
      <4> QED BY <1>5 DEF Positions
    <3>5. L(1) \in Int /\ L(2) \in Int
      <4> HIDE DEF new
      <4> QED BY <1>3, <3>4, LineTyped
    <3> HIDE DEF c
    <3>6. c(at) \in Lines
      <4> HIDE DEF L
      <4> QED BY <3>3, <3>5 DEF Lines
    <3>7. [i \in DOMAIN new |-> LineAt(Screen(focus), new[i][1])] = <<L(1), L(2)>>
      <4> HIDE DEF new
      <4> QED BY <3>4
    <3> QED BY <3>3, <3>6, <3>7 DEF HeldIn
  <2> QED BY <2>1, <2>2, <2>3
<1> DEFINE v == [offset |-> views[focus].offset, selection |-> new]
<1>8. views' = [views EXCEPT ![focus] = v]
  BY <1>2 DEF View
<1>9. chosen' = [chosen EXCEPT ![focus] = c(at)]
  BY <1>2
<1> HIDE DEF new, c
<1>10. v \in PaneViews /\ v.offset = views[focus].offset /\ v.selection = new
  BY <1>3, <1>6 DEF PaneViews
<1> HIDE DEF v
<1>11. /\ views' \in [Places -> PaneViews] /\ chosen' \in [Places -> Lines]
       /\ SelectionsHeld' /\ NoFurther
  <2> DEFINE d == c(at)
  <2>1. d \in Lines /\ HeldIn(Screen(focus), v.selection, d) /\ Reaches(focus, v.offset)
          /\ chosen' = [chosen EXCEPT ![focus] = d]
    BY <1>3, <1>7, <1>9, <1>10
  <2> HIDE DEF d
  <2> QED BY <1>1, <1>8, <1>10, <2>1, FocusKnown, OneShown
<1>12. drag' \in PaneDrags
  BY <1>2, FocusKnown, UndraggedTyped
<1> QED BY <1>0, <1>1, <1>11, <1>12, KeptKeeps

-----------------------------------------------------------------------------
(* Search.                                                                 *)

LEMMA Least ==
  ASSUME NEW S \in SUBSET Nat, S # {}
  PROVE  \E x \in S : \A y \in S : x <= y
<1> DEFINE R == {ss \in Nat \X Nat : ss[1] < ss[2]}
<1>1. IsWellFoundedOn(R, Nat)
  BY NatLessThanWellFounded DEF OpToRel
<1>2. PICK x \in S : \A y \in S : <<y, x>> \notin R
  <2> HIDE DEF R
  <2> QED BY <1>1, WFMin
<1>3. ASSUME NEW y \in S, y < x PROVE FALSE
  <2>1. <<y, x>> \in Nat \X Nat /\ <<y, x>>[1] < <<y, x>>[2]
    BY <1>3
  <2>2. <<y, x>> \in R
    BY <2>1
  <2> QED BY <1>2, <1>3, <2>2
<1>4. \A y \in S : x <= y
  BY <1>3
<1> QED BY <1>4

LEMMA MinOfSome ==
  ASSUME NEW S \in SUBSET Nat, S # {}
  PROVE  Min(S) \in S
BY Least DEF Min

LEMMA ApplyFindShown ==
  ASSUME ViewTyping, SelectionsHeld, Still, NEW p \in Places, NEW row \in Nat, ApplyFind(p, row)
  PROVE  /\ views' \in [Places -> PaneViews] /\ chosen' \in [Places -> Lines] /\ drag' \in PaneDrags
         /\ SelectionsHeld' /\ NoFurther
         /\ views'[p].selection[1][1] = row
         /\ row < TotalRows(Screen(p))
              => row - Max({Screen(p).history - views'[p].offset, 0}) \in 0..(Rows - 1)
<1> DEFINE h == Screen(p).history
           o == h - Min({row, h})
           at == <<row, 0>>
<1>1. h \in Nat /\ Rows \in Nat \ {0}
  BY PaneKnown, UiViewAssumption
<1>2. Min({row, h}) = IF row <= h THEN row ELSE h
  <2> HIDE DEF h
  <2> QED BY <1>1, MinOfTwo
<1>3. o \in Nat /\ o <= h /\ h - o = IF row <= h THEN row ELSE h
  <2> HIDE DEF h
  <2> QED BY <1>1, <1>2
<1>4. Select(p, o, <<at, at>>)
  BY DEF ApplyFind
<1>5. at \in Positions /\ at[1] = row
  BY DEF Positions
<1> HIDE DEF at
<1>6. <<at, at>> \in Selections
  BY <1>5 DEF Selections
<1>7. Reaches(p, o)
  BY <1>3 DEF Reaches
<1>8. views'[p].offset = o /\ views'[p].selection = <<at, at>>
  BY <1>4 DEF Select, View, ViewTyping
<1>9. Max({h - o, 0}) = h - o
  <2>1. h - o \in Int /\ h - o >= 0
    <3> HIDE DEF h, o
    <3> QED BY <1>1, <1>3
  <2> HIDE DEF h, o
  <2> QED BY <2>1, MaxOfTwo
<1>10. row < h + Rows => row - (h - o) \in 0..(Rows - 1)
  <2> HIDE DEF h, o
  <2> QED BY <1>1, <1>3
<1>11. row < TotalRows(Screen(p)) => row - Max({h - views'[p].offset, 0}) \in 0..(Rows - 1)
  BY <1>8, <1>9, <1>10 DEF TotalRows
<1>12. views'[p].selection[1][1] = row
  BY <1>5, <1>8
<1> HIDE DEF o
<1> QED BY <1>3, <1>4, <1>6, <1>7, <1>11, <1>12, SelectShown

LEMMA MatchesKnown ==
  ASSUME ViewInv, NEW query
  PROVE  /\ Matches(Screen(focus), query) \in SUBSET BufferRows
         /\ \A row \in Matches(Screen(focus), query) :
              row < TotalRows(Screen(focus)) /\ LineAt(Screen(focus), row) \in Queries[query]
         /\ Matches(Screen(focus), query) # {}
              => Min(Matches(Screen(focus), query)) \in Matches(Screen(focus), query)
<1> DEFINE s == Screen(focus)
           n == TotalRows(s)
           M == Matches(s, query)
<1>1. n \in Nat /\ n <= MaxHistory + Rows
  BY FocusKnown, PaneKnown DEF TotalRows
<1> HIDE DEF s, n
<1>2. \A row \in M : row \in 0..(n - 1) /\ LineAt(s, row) \in Queries[query]
  BY DEF Matches, n
<1> HIDE DEF M
<1>3. \A row \in M : row \in BufferRows /\ row \in Nat /\ row < n
  BY <1>1, <1>2, FocusKnown DEF BufferRows
<1>4. M \in SUBSET Nat
  BY <1>3
<1>5. M # {} => Min(M) \in M
  BY <1>4, MinOfSome
<1> QED BY <1>2, <1>3, <1>5 DEF s, n, M

LEMMA FindKeeps ==
  ASSUME ViewInv, Find
  PROVE  ViewInv' /\ NoFurther /\ Lands
<1>0. PICK query \in DOMAIN Queries :
        LET matches == Matches(Screen(focus), query)
            first   == IF matches = {} THEN 0 ELSE Min(matches)
        IN  /\ find' = [pane |-> focus, query |-> query, matches |-> matches, current |-> first, sure |-> TRUE]
            /\ IF matches = {} THEN Select(focus, views[focus].offset, <<>>) ELSE ApplyFind(focus, first)
            /\ UNCHANGED <<screens, panes, focus, thumb, mark>>
  BY DEF Find
<1> DEFINE s == Screen(focus)
           M == Matches(s, query)
           first == IF M = {} THEN 0 ELSE Min(M)
<1>1. /\ find' = [pane |-> focus, query |-> query, matches |-> M, current |-> first, sure |-> TRUE]
      /\ IF M = {} THEN Select(focus, views[focus].offset, <<>>) ELSE ApplyFind(focus, first)
      /\ UNCHANGED <<screens, panes, focus, thumb, mark>>
  BY <1>0
<1>2. /\ M \in SUBSET BufferRows
      /\ \A row \in M : row < TotalRows(s) /\ LineAt(s, row) \in Queries[query]
      /\ M # {} => first \in M
  BY MatchesKnown
<1>3. 0 \in BufferRows /\ BufferRows \subseteq Nat
  BY FocusKnown DEF BufferRows
<1>4. first \in BufferRows /\ (M = {} => first = 0)
  BY <1>2, <1>3
<1> HIDE DEF M, first
<1>5. /\ views' \in [Places -> PaneViews] /\ chosen' \in [Places -> Lines] /\ drag' \in PaneDrags
      /\ SelectionsHeld' /\ NoFurther
      /\ M # {} => /\ views'[focus].selection[1][1] = first
                   /\ first - Max({s.history - views'[focus].offset, 0}) \in 0..(Rows - 1)
  <2>1. Still
    BY <1>1 DEF Still
  <2>2. CASE M = {}
    <3>1. <<>> \in Selections /\ views[focus].offset \in Nat /\ Reaches(focus, views[focus].offset)
      BY FocusKnown, PaneKnown, AsItWas DEF Selections
    <3> QED BY <1>1, <2>1, <2>2, <3>1, FocusKnown, SelectShown
  <2>3. CASE M # {}
    <3>1. first \in Nat /\ first < TotalRows(s)
      BY <1>2, <1>3, <1>4, <2>3
    <3> QED BY <1>1, <2>1, <2>3, <3>1, FocusKnown, ApplyFindShown
  <2> QED BY <2>2, <2>3
<1>6. find' \in Finds /\ find'.pane = focus /\ find'.query = query /\ find'.matches = M /\ find'.current = first
  <2>1. focus \in Nat
    BY FocusKnown DEF Places
  <2> QED BY <1>1, <1>2, <1>4, <2>1 DEF Finds
<1>7. ViewTyping'
  BY <1>1, <1>5, <1>6 DEF ViewInv, ViewTyping
<1>8. s = screens'[panes'[find'.pane]]
  BY <1>1, <1>6 DEF Screen
<1>9. StillThere'
  <2> SUFFICES /\ find'.pane \in Places
               /\ \A row \in find'.matches :
                    /\ row < TotalRows(screens'[panes'[find'.pane]])
                    /\ LineAt(screens'[panes'[find'.pane]], row) \in Queries[find'.query]
    BY DEF StillThere, Screen, LineAt, TotalRows
  <2> HIDE DEF s
  <2> QED BY <1>2, <1>6, <1>8, FocusKnown
<1>10. Lands
  <2> SUFFICES ASSUME M # {}
               PROVE  /\ LineAt(s, first) \in Queries[query]
                      /\ first - Max({s.history - views'[focus].offset, 0}) \in 0..(Rows - 1)
                      /\ views'[focus].selection[1][1] = first
    BY <1>6 DEF Lands
  <2> QED BY <1>2, <1>5
<1> QED BY <1>5, <1>7, <1>9, <1>10 DEF ViewInv

LEMMA FindNextKeeps ==
  ASSUME ViewInv, FindNext
  PROVE  ViewInv' /\ NoFurther /\ Lands
<1>1. PICK next \in find.matches :
        /\ find.pane = focus /\ find.matches # {}
        /\ find' = [find EXCEPT !.current = next]
        /\ ApplyFind(focus, next)
        /\ UNCHANGED <<screens, panes, focus, thumb, mark>>
  BY DEF FindNext
<1>2. next \in find.matches
  OBVIOUS
<1>3. next \in BufferRows /\ next \in Nat
  <2>1. find.matches \in SUBSET BufferRows
    BY DEF ViewInv, ViewTyping, Finds
  <2> QED BY <1>2, <2>1 DEF BufferRows
<1>4. ApplyFind(focus, next) /\ find' = [find EXCEPT !.current = next] /\ Still
  BY <1>1 DEF Still
<1>5. /\ views' \in [Places -> PaneViews] /\ chosen' \in [Places -> Lines] /\ drag' \in PaneDrags
      /\ SelectionsHeld' /\ NoFurther
      /\ views'[focus].selection[1][1] = next
      /\ next < TotalRows(Screen(focus))
           => next - Max({Screen(focus).history - views'[focus].offset, 0}) \in 0..(Rows - 1)
  BY <1>3, <1>4, FocusKnown, ApplyFindShown
<1>6. find' \in Finds /\ find'.pane = focus /\ find'.query = find.query /\ find'.matches = find.matches
        /\ find'.sure = find.sure /\ find'.current = next
  BY <1>1, <1>3, <1>4 DEF ViewInv, ViewTyping, Finds
<1>7. ViewTyping'
  BY <1>1, <1>5, <1>6 DEF ViewInv, ViewTyping
<1>8. Screen(focus) = screens'[panes'[find'.pane]]
  BY <1>1, <1>6 DEF Screen
<1>9. find.sure => /\ focus \in Places
                   /\ \A row \in find.matches :
                        row < TotalRows(Screen(focus)) /\ LineAt(Screen(focus), row) \in Queries[find.query]
  BY <1>1 DEF ViewInv, StillThere
<1>10. StillThere'
  <2> SUFFICES ASSUME find'.sure
               PROVE  /\ find'.pane \in Places
                      /\ \A row \in find'.matches :
                           /\ row < TotalRows(screens'[panes'[find'.pane]])
                           /\ LineAt(screens'[panes'[find'.pane]], row) \in Queries[find'.query]
    BY DEF StillThere, Screen, LineAt, TotalRows
  <2> QED BY <1>6, <1>8, <1>9
<1>11. Lands
  <2> SUFFICES ASSUME find'.sure
               PROVE  /\ LineAt(Screen(focus), next) \in Queries[find'.query]
                      /\ next - Max({Screen(focus).history - views'[focus].offset, 0}) \in 0..(Rows - 1)
                      /\ views'[focus].selection[1][1] = next
    BY <1>6 DEF Lands
  <2> QED BY <1>2, <1>5, <1>6, <1>9
<1> QED BY <1>5, <1>7, <1>10, <1>11 DEF ViewInv

-----------------------------------------------------------------------------
(* The mouse.                                                              *)

LEMMA MouseShown ==
  ASSUME ViewTyping, SelectionsHeld, Still,
         NEW vs \in [Places -> PaneViews], chosen' \in [Places -> Lines],
         NEW told, views' = Reported(vs, told),
         \A p \in Places : HeldIn(Screen(p), vs[p].selection, chosen'[p]) /\ Reaches(p, vs[p].offset)
  PROVE  views' \in [Places -> PaneViews] /\ SelectionsHeld' /\ NoFurther
<1>1. ASSUME NEW p \in Places PROVE Reaches(p, 0)
  BY PaneKnown DEF Reaches
<1>2. CASE told \in Numbers /\ Screen(told).kind = "mouse"
  <2>1. told \in Places
    BY <1>2, Numbered DEF ViewTyping, Numbers
  <2> DEFINE v == [vs[told] EXCEPT !.offset = 0]
  <2>2. views' = [vs EXCEPT ![told] = v]
    BY <1>2 DEF Reported
  <2>3. v \in PaneViews /\ v.offset = 0 /\ v.selection = vs[told].selection
    BY <2>1 DEF PaneViews
  <2> HIDE DEF v
  <2>4. views' \in [Places -> PaneViews] /\ views'[told] = v /\ \A p \in Places \ {told} : views'[p] = vs[p]
    BY <2>1, <2>2, <2>3
  <2>5. \A p \in Places : HeldIn(Screen(p), views'[p].selection, chosen'[p]) /\ Reaches(p, views'[p].offset)
    BY <1>1, <2>1, <2>3, <2>4
  <2> QED BY <2>4, <2>5, PaneByPane
<1>3. CASE ~(told \in Numbers /\ Screen(told).kind = "mouse")
  <2>1. views' = vs
    BY <1>3 DEF Reported
  <2> QED BY <2>1, PaneByPane
<1> QED BY <1>2, <1>3

LEMMA PressCellKeeps ==
  ASSUME ViewInv, PressCell
  PROVE  ViewInv' /\ NoFurther
<1>1. PICK p \in Numbers, cell \in CellsAt :
        LET at == <<BufferRow(p, cell[1]), cell[2]>>
        IN  /\ focus' = p
            /\ IF Screen(p).kind = "mouse"
                 THEN /\ views' = Reported(views, p) /\ drag' = [drag EXCEPT !.down = TRUE, !.told = p]
                      /\ UNCHANGED chosen
                 ELSE /\ View(p, views[p].offset, <<at, at>>)
                      /\ drag' = [down |-> TRUE, pane |-> p, told |-> 0, out |-> 0, cell |-> cell]
                      /\ chosen' = [chosen EXCEPT ![p] = <<Drawn(p, cell[1]), Drawn(p, cell[1])>>]
            /\ Kept /\ UNCHANGED mark
  BY DEF PressCell
<1> DEFINE at == <<BufferRow(p, cell[1]), cell[2]>>
<1>2. p \in Places /\ p \in Nat /\ cell[1] \in Int /\ cell[2] \in Int
  <2>1. cell[1] \in Int /\ cell[2] \in Int
    BY FocusKnown DEF CellsAt
  <2>2. p \in Places
    BY FocusKnown, PaneKnown
  <2> QED BY <2>1, <2>2 DEF Places
<1>3. Still /\ Kept /\ focus' \in Places /\ MarkTyped'
  BY <1>1, <1>2, FocusKnown DEF Kept, Still, MarkTyped
<1>4. CASE Screen(p).kind = "mouse"
  <2>1. chosen' \in [Places -> Lines] /\ views \in [Places -> PaneViews] /\ chosen' = chosen
    BY <1>1, <1>4 DEF ViewInv, ViewTyping
  <2>2. views' = Reported(views, p)
    BY <1>1, <1>4
  <2>3. drag' \in PaneDrags
    BY <1>1, <1>2, <1>4, FocusKnown DEF PaneDrags
  <2>4. \A q \in Places : HeldIn(Screen(q), views[q].selection, chosen'[q]) /\ Reaches(q, views[q].offset)
    BY <2>1, FocusKnown, AsItWas
  <2>5. views' \in [Places -> PaneViews] /\ SelectionsHeld' /\ NoFurther
    BY <1>3, <2>1, <2>2, <2>4, FocusKnown, MouseShown
  <2> QED BY <1>3, <2>1, <2>3, <2>5, KeptKeeps
<1>5. CASE Screen(p).kind # "mouse"
  <2> DEFINE row == Base(p) + cell[1]
             sel == <<at, at>>
             c == <<LineAt(Screen(p), row), LineAt(Screen(p), row)>>
             v == [offset |-> views[p].offset, selection |-> sel]
  <2>1. row \in Int /\ at = <<row, cell[2]>>
    BY <1>2, FocusKnown, BaseIs DEF BufferRow
  <2> HIDE DEF row
  <2>2. at \in Positions /\ at[1] = row
    BY <1>2, <2>1 DEF Positions
  <2> HIDE DEF at
  <2>3. sel \in Selections /\ DOMAIN sel = 1..2 /\ sel[1][1] = row /\ sel[2][1] = row
    BY <2>2 DEF Selections
  <2>4. views' = [views EXCEPT ![p] = v] /\ chosen' = [chosen EXCEPT ![p] = c]
    BY <1>1, <1>5 DEF View, Drawn, row, at
  <2>5. drag' \in PaneDrags
    <3>1. drag' = [down |-> TRUE, pane |-> p, told |-> 0, out |-> 0, cell |-> cell]
      BY <1>1, <1>5
    <3> QED BY <1>2, <3>1 DEF PaneDrags
  <2> HIDE DEF sel
  <2>6. LineAt(Screen(p), row) \in Int
    BY <1>2, <2>1, FocusKnown, PaneKnown, LineTyped
  <2>7. c \in Lines
    BY <2>6 DEF Lines
  <2>8. [i \in DOMAIN sel |-> LineAt(Screen(p), sel[i][1])] = c
    BY <2>3
  <2>9. HeldIn(Screen(p), sel, c)
    <3> HIDE DEF c
    <3> QED BY <2>8 DEF HeldIn
  <2>10. v \in PaneViews /\ v.offset = views[p].offset /\ v.selection = sel /\ Reaches(p, views[p].offset)
    BY <1>2, <2>3, FocusKnown, PaneKnown, AsItWas DEF PaneViews
  <2> HIDE DEF v, c
  <2>11. /\ views' \in [Places -> PaneViews] /\ chosen' \in [Places -> Lines]
         /\ SelectionsHeld' /\ NoFurther
    BY <1>2, <1>3, <2>4, <2>7, <2>9, <2>10, FocusKnown, OneShown
  <2> QED BY <1>3, <2>5, <2>11, KeptKeeps
<1> QED BY <1>4, <1>5

LEMMA EndAtShown ==
  ASSUME ViewInv, Still, NEW p \in Places, NEW offset \in Nat, Reaches(p, offset),
         NEW cell \in CellsAt, NEW told, EndAt(p, offset, cell, told)
  PROVE  /\ views' \in [Places -> PaneViews] /\ chosen' \in [Places -> Lines]
         /\ SelectionsHeld' /\ NoFurther
<1> DEFINE row == Max({Screen(p).history - offset, 0}) + cell[1]
           old == views[p].selection
           new == IF old = <<>> THEN <<>> ELSE <<old[1], <<row, cell[2]>>>>
           c == IF chosen[p] = <<>> THEN <<>> ELSE <<chosen[p][1], LineAt(Screen(p), row)>>
           v == [offset |-> offset, selection |-> new]
           vs == [views EXCEPT ![p] = v]
<1>1. views' = Reported(vs, told) /\ chosen' = [chosen EXCEPT ![p] = c]
  BY DEF EndAt
<1>2. cell[1] \in Int /\ cell[2] \in Int
  BY FocusKnown DEF CellsAt
<1>3. row \in Int
  <2> DEFINE h == Screen(p).history
  <2>1. h \in Int
    BY FocusKnown, PaneKnown
  <2> HIDE DEF h
  <2>2. Max({h - offset, 0}) \in Int
    BY <2>1, MaxOfTwo
  <2> QED BY <1>2, <2>2 DEF h
<1> HIDE DEF row
<1>4. old \in Selections
  BY FocusKnown, PaneKnown
<1>5. new \in Selections
  <2>1. <<row, cell[2]>> \in Positions
    BY <1>2, <1>3 DEF Positions
  <2> DEFINE at == <<row, cell[2]>>
  <2> HIDE DEF at
  <2>2. at \in Positions
    BY <2>1 DEF at
  <2>3. old # <<>> => old[1] \in Positions
    BY <1>4 DEF Selections
  <2>4. new = IF old = <<>> THEN <<>> ELSE <<old[1], at>>
    BY DEF at
  <2> HIDE DEF old, new
  <2> QED BY <2>2, <2>3, <2>4 DEF Selections
<1>6. c \in Lines /\ HeldIn(Screen(p), new, c)
  <2>1. CASE chosen[p] = <<>>
    <3>1. c = <<>>
      BY <2>1
    <3> HIDE DEF c, new
    <3> QED BY <3>1 DEF Lines, HeldIn
  <2>2. CASE chosen[p] # <<>>
    <3>1. old \in Positions \X Positions /\ chosen[p][1] = LineAt(Screen(p), old[1][1])
      BY <2>2, BothEnds
    <3>2. old # <<>> /\ old[1] \in Positions
      BY <3>1
    <3>3. new = <<old[1], <<row, cell[2]>>>> /\ c = <<LineAt(Screen(p), old[1][1]), LineAt(Screen(p), row)>>
      BY <2>2, <3>1, <3>2
    <3> HIDE DEF old, c, new
    <3>4. DOMAIN new = 1..2 /\ new[1][1] = old[1][1] /\ new[2][1] = row
      BY <3>3
    <3>5. LineAt(Screen(p), row) \in Int /\ LineAt(Screen(p), old[1][1]) \in Int
      BY <1>3, <3>2, FocusKnown, PaneKnown, LineTyped DEF Positions
    <3>6. c \in Lines
      BY <3>3, <3>5 DEF Lines
    <3>7. [i \in DOMAIN new |-> LineAt(Screen(p), new[i][1])] = c
      BY <3>3, <3>4
    <3> QED BY <3>6, <3>7 DEF HeldIn
  <2> QED BY <2>1, <2>2
<1> HIDE DEF new, c
<1>7. v \in PaneViews /\ v.offset = offset /\ v.selection = new
  BY <1>5 DEF PaneViews
<1> HIDE DEF v
<1>8. /\ vs \in [Places -> PaneViews] /\ vs[p] = v /\ \A q \in Places \ {p} : vs[q] = views[q]
      /\ chosen' \in [Places -> Lines] /\ chosen'[p] = c /\ \A q \in Places \ {p} : chosen'[q] = chosen[q]
  BY <1>1, <1>6, <1>7 DEF ViewInv, ViewTyping
<1> HIDE DEF vs
<1>9. \A q \in Places : HeldIn(Screen(q), vs[q].selection, chosen'[q]) /\ Reaches(q, vs[q].offset)
  BY <1>6, <1>7, <1>8, FocusKnown, AsItWas
<1> QED BY <1>1, <1>8, <1>9, FocusKnown, MouseShown

LEMMA DragToKeeps ==
  ASSUME ViewInv, DragTo
  PROVE  ViewInv' /\ NoFurther
<1>1. PICK cell \in CellsAt, out \in {-1, 0, 1} :
        /\ Selecting
        /\ EndAt(drag.pane, views[drag.pane].offset, cell, Pointed)
        /\ drag' = [drag EXCEPT !.out = out, !.cell = cell]
        /\ Kept /\ UNCHANGED <<focus, mark>>
  BY DEF DragTo
<1>2. drag.pane \in Places
  BY <1>1, FocusKnown, PaneKnown DEF Selecting
<1>3. Still /\ Kept /\ focus' \in Places /\ MarkTyped'
  BY <1>1, FocusKnown DEF Kept, Still, MarkTyped
<1>4. drag' \in PaneDrags
  BY <1>1, FocusKnown DEF PaneDrags
<1>5. views[drag.pane].offset \in Nat /\ Reaches(drag.pane, views[drag.pane].offset)
  BY <1>2, FocusKnown, PaneKnown, AsItWas
<1>6. /\ views' \in [Places -> PaneViews] /\ chosen' \in [Places -> Lines]
      /\ SelectionsHeld' /\ NoFurther
  BY <1>1, <1>2, <1>3, <1>5, EndAtShown
<1> QED BY <1>3, <1>4, <1>6, KeptKeeps

LEMMA HoverKeeps ==
  ASSUME ViewInv, Hover
  PROVE  ViewInv' /\ NoFurther
<1>1. Still /\ Kept /\ focus' \in Places /\ MarkTyped' /\ drag' \in PaneDrags /\ UNCHANGED chosen
  BY FocusKnown DEF Hover, Kept, Still, MarkTyped
<1>2. views' = Reported(views, Pointed)
  BY DEF Hover
<1>3. views \in [Places -> PaneViews] /\ chosen' \in [Places -> Lines]
  BY <1>1 DEF ViewInv, ViewTyping
<1>4. \A p \in Places : HeldIn(Screen(p), views[p].selection, chosen'[p]) /\ Reaches(p, views[p].offset)
  BY <1>1, FocusKnown, AsItWas
<1>5. views' \in [Places -> PaneViews] /\ SelectionsHeld' /\ NoFurther
  BY <1>1, <1>2, <1>3, <1>4, FocusKnown, MouseShown
<1> QED BY <1>1, <1>3, <1>5, KeptKeeps

LEMMA AutoscrollKeeps ==
  ASSUME ViewInv, Autoscroll
  PROVE  ViewInv' /\ NoFurther
<1> DEFINE p == drag.pane
           h == Screen(p).history
           o == Clamped(views[p].offset + drag.out, h)
<1>1. Selecting /\ EndAt(p, o, drag.cell, 0)
  BY DEF Autoscroll
<1>2. Still /\ Kept /\ focus' \in Places /\ MarkTyped' /\ drag' \in PaneDrags
  BY FocusKnown DEF Autoscroll, Kept, Still, MarkTyped
<1>3. p \in Places /\ drag.cell \in CellsAt /\ drag.out \in Int
  BY <1>1, FocusKnown, PaneKnown DEF Selecting, PaneDrags
<1>4. h \in Nat /\ views[p].offset + drag.out \in Int
  <2>1. h \in Nat /\ views[p].offset \in Nat
    BY <1>3, FocusKnown, PaneKnown
  <2> HIDE DEF h
  <2> QED BY <1>3, <2>1
<1>5. o \in 0..h
  <2> DEFINE n == views[p].offset + drag.out
  <2>1. n \in Int
    BY <1>4
  <2> HIDE DEF h, n
  <2>2. Clamped(n, h) \in 0..h
    BY <1>4, <2>1, ClampedIs
  <2> QED BY <2>2 DEF n
<1> HIDE DEF o
<1>6. o \in Nat /\ Reaches(p, o)
  BY <1>4, <1>5 DEF Reaches
<1>7. /\ views' \in [Places -> PaneViews] /\ chosen' \in [Places -> Lines]
      /\ SelectionsHeld' /\ NoFurther
  BY <1>1, <1>2, <1>3, <1>6, EndAtShown
<1> QED BY <1>2, <1>7, KeptKeeps

LEMMA ReleaseKeeps ==
  ASSUME ViewInv, Release
  PROVE  ViewInv' /\ NoFurther
<1> DEFINE p == drag.pane
           clicked == p \in Numbers /\ views[p].selection # <<>> /\ views[p].selection[1] = views[p].selection[2]
           vs == IF clicked THEN [views EXCEPT ![p].selection = <<>>] ELSE views
<1>1. PICK over \in Numbers :
        /\ drag' = Undragging
        /\ views' = Reported(vs, IF drag.told \in Numbers THEN drag.told ELSE over)
        /\ chosen' = IF clicked THEN [chosen EXCEPT ![p] = <<>>] ELSE chosen
        /\ Kept /\ UNCHANGED <<focus, mark>>
  BY DEF Release
<1>2. Still /\ Kept /\ focus' \in Places /\ MarkTyped'
  BY <1>1, FocusKnown DEF Kept, Still, MarkTyped
<1>3. drag' \in PaneDrags
  <2>1. <<0, 0>> \in CellsAt
    BY FocusKnown DEF CellsAt
  <2> QED BY <1>1, <2>1 DEF Undragging, PaneDrags
<1>4. /\ vs \in [Places -> PaneViews] /\ chosen' \in [Places -> Lines]
      /\ \A q \in Places : HeldIn(Screen(q), vs[q].selection, chosen'[q]) /\ Reaches(q, vs[q].offset)
  <2>1. CASE clicked
    <3>1. p \in Places
      BY <2>1, FocusKnown, PaneKnown
    <3> DEFINE v == [views[p] EXCEPT !.selection = <<>>]
    <3>2. vs = [views EXCEPT ![p] = v] /\ chosen' = [chosen EXCEPT ![p] = <<>>]
      BY <1>1, <2>1
    <3>3. v \in PaneViews /\ v.offset = views[p].offset /\ v.selection = <<>>
      BY <3>1, FocusKnown, PaneKnown DEF PaneViews, Selections
    <3> HIDE DEF v, vs, clicked
    <3>4. /\ vs \in [Places -> PaneViews] /\ vs[p] = v /\ \A q \in Places \ {p} : vs[q] = views[q]
          /\ chosen' \in [Places -> Lines] /\ chosen'[p] = <<>> /\ \A q \in Places \ {p} : chosen'[q] = chosen[q]
      BY <3>1, <3>2, <3>3 DEF ViewInv, ViewTyping, Lines
    <3>5. HeldIn(Screen(p), v.selection, <<>>)
      BY DEF HeldIn
    <3> QED BY <3>3, <3>4, <3>5, FocusKnown, AsItWas
  <2>2. CASE ~clicked
    <3>1. vs = views /\ chosen' = chosen
      BY <1>1, <2>2
    <3> HIDE DEF vs, clicked
    <3>2. views \in [Places -> PaneViews] /\ chosen \in [Places -> Lines]
      BY DEF ViewInv, ViewTyping
    <3> QED BY <3>1, <3>2, FocusKnown, AsItWas
  <2> QED BY <2>1, <2>2
<1> DEFINE told == IF drag.told \in Numbers THEN drag.told ELSE over
<1>5. views' = Reported(vs, told)
  BY <1>1
<1> HIDE DEF vs, told, clicked
<1>6. views' \in [Places -> PaneViews] /\ SelectionsHeld' /\ NoFurther
  BY <1>2, <1>4, <1>5, FocusKnown, MouseShown
<1> QED BY <1>2, <1>3, <1>4, <1>6, KeptKeeps

LEMMA WheelKeeps ==
  ASSUME ViewInv, Wheel
  PROVE  ViewInv' /\ NoFurther
<1>1. PICK p \in Numbers, notches \in Notches :
        /\ ScrollTo(p, 0) \/ ScrollBy(p, 3 * notches)
        /\ Kept /\ UNCHANGED <<focus, mark>>
  BY DEF Wheel
<1>2. Still /\ Kept /\ focus' \in Places /\ MarkTyped'
  BY <1>1, FocusKnown DEF Kept, Still, MarkTyped
<1>3. p \in Places /\ 3 * notches \in Int
  BY FocusKnown, PaneKnown, UiViewAssumption
<1>4. 0 \in Nat /\ Reaches(p, 0)
  BY <1>3, FocusKnown, PaneKnown DEF Reaches
<1>5. /\ views' \in [Places -> PaneViews] /\ chosen' \in [Places -> Lines] /\ drag' \in PaneDrags
      /\ SelectionsHeld' /\ NoFurther
  <2>1. CASE ScrollTo(p, 0)
    BY <1>2, <1>3, <1>4, <2>1, FocusKnown, ScrollToShown
  <2>2. CASE ScrollBy(p, 3 * notches)
    BY <1>2, <1>3, <2>2, FocusKnown, ScrollByShown
  <2> QED BY <1>1, <2>1, <2>2
<1> QED BY <1>2, <1>5, KeptKeeps

LEMMA BarKeeps ==
  ASSUME ViewInv, UNCHANGED <<screens, panes, find>>, focus' \in Places, MarkTyped', thumb' \in Thumbs,
         views' \in [Places -> PaneViews], chosen' \in [Places -> Lines], drag' \in PaneDrags, SelectionsHeld'
  PROVE  ViewInv'
<1>1. ViewTyping'
  BY DEF ViewInv, ViewTyping, MarkTyped
<1>2. StillThere'
  BY FindKept DEF Still, ViewInv
<1> QED BY <1>1, <1>2 DEF ViewInv

LEMMA PressBarKeeps ==
  ASSUME ViewInv, PressBar
  PROVE  ViewInv' /\ NoFurther
<1> DEFINE by(p, y) == CASE PartAt(p, y) = "top-arrow" -> 1
                         [] PartAt(p, y) = "bottom-arrow" -> -1
                         [] PartAt(p, y) = "track-above" -> Rows
                         [] PartAt(p, y) = "track-below" -> -Rows
                         [] OTHER -> 0
<1>1. PICK p \in Numbers, y \in Points :
        /\ focus' = p
        /\ IF PartAt(p, y) = "thumb"
             THEN /\ thumb' = [pane |-> p, grab |-> y, top |-> ThumbTop(Screen(p).history, views[p].offset),
                               history |-> Screen(p).history]
                  /\ UNCHANGED <<views, chosen, drag>>
             ELSE ScrollBy(p, by(p, y)) /\ UNCHANGED thumb
        /\ UNCHANGED <<screens, panes, mark, find>>
  BY DEF PressBar
<1>2. p \in Places /\ Still /\ focus' \in Places /\ MarkTyped' /\ drag \in PaneDrags
  BY <1>1, FocusKnown, PaneKnown DEF Still, MarkTyped
<1>3. by(p, y) \in Int
  BY FocusKnown
<1> HIDE DEF by
<1>4. CASE PartAt(p, y) = "thumb"
  <2>1. y \in Int /\ Screen(p).history \in Nat /\ views[p].offset \in Int
    BY <1>2, FocusKnown, PaneKnown, UiViewAssumption
  <2>2. ThumbTop(Screen(p).history, views[p].offset) \in Int
    BY <2>1, ThumbTopTyped
  <2>3. thumb' \in Thumbs
    BY <1>1, <1>2, <1>4, <2>1, <2>2 DEF Thumbs
  <2>4. UNCHANGED <<views, chosen, drag>>
    BY <1>1, <1>4
  <2>5. /\ views' \in [Places -> PaneViews] /\ chosen' \in [Places -> Lines]
        /\ SelectionsHeld' /\ NoFurther
    BY <1>2, <2>4, FocusKnown, NothingShown
  <2> QED BY <1>1, <1>2, <2>3, <2>4, <2>5, BarKeeps
<1>5. CASE PartAt(p, y) # "thumb"
  <2>1. thumb' \in Thumbs /\ ScrollBy(p, by(p, y))
    BY <1>1, <1>5 DEF ViewInv, ViewTyping
  <2>2. /\ views' \in [Places -> PaneViews] /\ chosen' \in [Places -> Lines] /\ drag' \in PaneDrags
        /\ SelectionsHeld' /\ NoFurther
    BY <1>2, <1>3, <2>1, FocusKnown, ScrollByShown
  <2> QED BY <1>1, <1>2, <2>1, <2>2, BarKeeps
<1> QED BY <1>4, <1>5

LEMMA DragThumbKeeps ==
  ASSUME ViewInv, DragThumb
  PROVE  ViewInv' /\ NoFurther
<1> DEFINE p == thumb.pane
           h == thumb.history
           to(y) == Clamped(OffsetForTop(h, thumb.top + (y - thumb.grab) * h), h)
<1>1. PICK y \in Points : ScrollTo(p, to(y))
  BY DEF DragThumb
<1>2. Still /\ Kept /\ focus' \in Places /\ MarkTyped'
  BY FocusKnown DEF DragThumb, Kept, Still, MarkTyped
<1>3. p \in Places /\ h \in Nat /\ thumb.top \in Int /\ thumb.grab \in Int /\ y \in Int
  <2>1. thumb \in Thumbs /\ thumb.pane # 0
    BY DEF DragThumb, ViewInv, ViewTyping
  <2> QED BY <2>1, UiViewAssumption DEF Thumbs
<1>4. to(y) \in 0..h
  <2> DEFINE top == thumb.top + (y - thumb.grab) * h
  <2>1. top \in Int
    <3>1. (y - thumb.grab) * h \in Int
      <4> HIDE DEF h
      <4> QED BY <1>3
    <3> QED BY <1>3, <3>1
  <2> HIDE DEF top, h
  <2>2. OffsetForTop(h, top) \in Int
    BY <1>3, <2>1, OffsetTyped
  <2>3. Clamped(OffsetForTop(h, top), h) \in 0..h
    BY <1>3, <2>2, ClampedIs
  <2> QED BY <2>3 DEF top
<1> DEFINE o == to(y)
<1>5. ScrollTo(p, o) /\ o \in 0..h
  BY <1>1, <1>4
<1> HIDE DEF o, to
<1>6. o \in Nat /\ Reaches(p, o)
  <2>1. Screen(p).history \in Nat
    BY <1>3, FocusKnown, PaneKnown
  <2> QED BY <1>3, <1>5, <2>1 DEF Reaches
<1>7. /\ views' \in [Places -> PaneViews] /\ chosen' \in [Places -> Lines] /\ drag' \in PaneDrags
      /\ SelectionsHeld' /\ NoFurther
  BY <1>2, <1>3, <1>5, <1>6, FocusKnown, ScrollToShown
<1> QED BY <1>2, <1>7, KeptKeeps

LEMMA ReleaseThumbKeeps ==
  ASSUME ViewInv, ReleaseThumb
  PROVE  ViewInv' /\ NoFurther
<1>1. UNCHANGED <<screens, panes, focus, views, drag, mark, find, chosen>> /\ thumb' = NoThumb
  BY DEF ReleaseThumb
<1>2. Still /\ focus' \in Places /\ MarkTyped' /\ drag' \in PaneDrags /\ thumb' \in Thumbs
  BY <1>1, FocusKnown DEF Still, MarkTyped, NoThumb, Thumbs
<1>3. /\ views' \in [Places -> PaneViews] /\ chosen' \in [Places -> Lines]
      /\ SelectionsHeld' /\ NoFurther
  BY <1>1, <1>2, FocusKnown, NothingShown
<1> QED BY <1>1, <1>2, <1>3, BarKeeps

-----------------------------------------------------------------------------
LEMMA ViewStarts ==
  ASSUME ViewInit
  PROVE  ViewInv
<1>1. panes \in SetToSeqs(Sessions) /\ Numbers = Places /\ focus \in Places
  BY Numbered DEF ViewInit, Numbers
<1>2. screens \in [Sessions -> Screens]
  <2>1. \A h \in Histories : [printed |-> h + Rows, history |-> h, kind |-> "lines"] \in Screens
    BY UiViewAssumption DEF Screens, Kinds
  <2>2. screens \in [Sessions -> {[printed |-> h + Rows, history |-> h, kind |-> "lines"] : h \in Histories}]
    BY DEF ViewInit
  <2> DEFINE new == {[printed |-> h + Rows, history |-> h, kind |-> "lines"] : h \in Histories}
  <2>3. new \subseteq Screens
    BY <2>1
  <2> HIDE DEF new
  <2>4. screens \in [Sessions -> new]
    BY <2>2 DEF new
  <2> QED BY <2>3, <2>4
<1>3. /\ views \in [Places -> PaneViews] /\ chosen \in [Places -> Lines]
      /\ \A p \in Places : chosen[p] = <<>>
  BY <1>1 DEF ViewInit, PaneViews, Selections, Lines
<1>4. drag \in PaneDrags
  <2>1. <<0, 0>> \in CellsAt
    BY UiViewAssumption DEF CellsAt
  <2> QED BY <2>1 DEF ViewInit, Undragging, PaneDrags
<1>5. thumb \in Thumbs /\ mark \in [pane : Nat, start : BOOLEAN]
  BY DEF ViewInit, NoThumb, Thumbs
<1>6. find \in Finds /\ ~find.sure
  <2>1. 0 \in BufferRows
    BY UiViewAssumption DEF BufferRows
  <2> QED BY <2>1 DEF ViewInit, Finds
<1> QED BY <1>1, <1>2, <1>3, <1>4, <1>5, <1>6 DEF ViewInv, ViewTyping, SelectionsHeld, HeldIn, StillThere

LEMMA ViewStep ==
  ASSUME ViewInv, [ViewNext]_viewVars
  PROVE  ViewInv' /\ (NoFurther \/ UNCHANGED viewVars)
<1>1. CASE UNCHANGED viewVars
  BY <1>1 DEF viewVars, ViewInv, ViewTyping, SelectionsHeld, HeldIn, StillThere, Screen, LineAt, TotalRows
<1>2. CASE Output \/ SetKind \/ Reshown \/ Clear
  BY <1>2, OutputKeeps, SetKindKeeps, ReshownKeeps, ClearKeeps
<1>3. CASE Navigate \/ MarkMode \/ SelectAll \/ SwitchEndpoint \/ MoveMark \/ EndMark \/ Type \/ FocusOther
  BY <1>3, NavigateKeeps, MarkModeKeeps, SelectAllKeeps, OtherKeysKeep, MoveMarkKeeps, TypeKeeps
<1>4. CASE Find \/ FindNext
  BY <1>4, FindKeeps, FindNextKeeps
<1>5. CASE PressCell \/ DragTo \/ Hover \/ Autoscroll \/ Release \/ Wheel
  BY <1>5, PressCellKeeps, DragToKeeps, HoverKeeps, AutoscrollKeeps, ReleaseKeeps, WheelKeeps
<1>6. CASE PressBar \/ DragThumb \/ ReleaseThumb
  BY <1>6, PressBarKeeps, DragThumbKeeps, ReleaseThumbKeeps
<1> QED BY <1>1, <1>2, <1>3, <1>4, <1>5, <1>6 DEF ViewNext

(* What a window keeps of its panes is well typed, every end of a          *)
(* selection is on its line and every match is where it was found, at      *)
(* every step and for any number of panes, rows and lines of scrollback.   *)
THEOREM ViewInvariant == ViewSpec => []ViewInv
<1>1. ViewInit => ViewInv
  BY ViewStarts
<1>2. ViewInv /\ [ViewNext]_viewVars => ViewInv'
  BY ViewStep
<1> QED BY <1>1, <1>2, PTL DEF ViewSpec

(* The ends of a selection stay on the lines where the user put them,      *)
(* however the pane is scrolled and its buffer grows, and a thumb that is  *)
(* taken and not moved leaves the view as it is (scrollbar_metrics and     *)
(* scrollbar_offset_for_thumb_top undo each other).                        *)
THEOREM ViewsKeptHolds == ViewSpec => []ViewsKept
<1>1. ViewInv => ViewsKept
  <2> SUFFICES ASSUME ViewInv PROVE ViewsKept
    OBVIOUS
  <2>1. SelectionKept
    <3> SUFFICES ASSUME NEW p \in Numbers, chosen[p] # <<>>
                 PROVE  LinesOf(p, views[p].selection) = chosen[p]
      BY DEF SelectionKept
    <3>1. p \in Places
      BY FocusKnown, PaneKnown
    <3> QED BY <3>1 DEF ViewInv, SelectionsHeld, HeldIn, LinesOf
  <2>2. ThumbKept
    <3> SUFFICES ASSUME NEW p \in Numbers, Travel(Screen(p).history) > 0
                 PROVE  OffsetForTop(Screen(p).history, ThumbTop(Screen(p).history, views[p].offset))
                          = Min({views[p].offset, Screen(p).history})
      BY DEF ThumbKept
    <3>1. p \in Places
      BY FocusKnown, PaneKnown
    <3>2. Screen(p).history \in Nat /\ views[p].offset \in Nat
      BY <3>1, FocusKnown, PaneKnown
    <3> QED BY <3>2, ThumbRoundTrip
  <2> QED BY <2>1, <2>2 DEF ViewsKept
<1> QED BY <1>1, ViewInvariant, PTL

(* No step scrolls a pane past its oldest line, but a thumb taken when     *)
(* there were more lines; and a match that is gone to, by a search or from *)
(* the one before, is on the screen and selected and still holds what was  *)
(* searched for.                                                           *)
THEOREM ScrollsLandHolds == ViewSpec => ScrollsLand
<1>1. ViewInv /\ [ViewNext]_viewVars => [NoFurther]_viewVars
  BY ViewStep
<1>2. ViewInv => [Lands]_viewVars
  BY FindKeeps, FindNextKeeps DEF Lands
<1> QED BY <1>1, <1>2, ViewInvariant, PTL DEF ViewSpec, ScrollsLand, ScrollSound, FindLands

-----------------------------------------------------------------------------
(* KeyEncoding.                                                            *)

(* The first code of a press.                                              *)
One(form, n, params) == [form |-> form, n |-> n, params |-> params]

Single(n) == One("byte", n, <<>>)

FirstOf(key, mods, protocol) ==
  CASE key = "Enter" -> IF mods = {} \/ protocol = "legacy" THEN Single(13) ELSE One("u", 13, Param(mods))
    [] key = "Tab" -> IF "shift" \in mods THEN One("csi", 90, <<>>) ELSE Single(9)
    [] key = "Escape" -> Single(27)
    [] key = "Space" -> IF "ctrl" \in mods THEN Single(0) ELSE Single(32)
    [] key = "Backspace" -> IF "ctrl" \in mods THEN Single(8) ELSE Single(127)
    [] key \in DOMAIN CsiFinal -> One("csi", CsiFinal[key], Param(mods))
    [] key \in DOMAIN CsiTilde -> One("csi~", CsiTilde[key], Param(mods))
    [] key \in DOMAIN Ss3 -> IF mods = {} THEN One("ss3", Ss3[key], <<>>) ELSE One("csi", Ss3[key], Param(mods))
    [] key \in DOMAIN Letters -> IF "ctrl" \in mods THEN Single(Letters[key])
                                 ELSE Single(Letters[key] + IF "shift" \in mods THEN 64 ELSE 96)
    [] key \in DOMAIN Literals -> Single(Literals[key][IF "shift" \in mods THEN 2 ELSE 1])

LEMMA SpecialNames ==
  /\ DOMAIN CsiFinal = {"Up", "Down", "Right", "Left", "Home", "End"}
  /\ DOMAIN CsiTilde = {"Insert", "Delete", "PageUp", "PageDown", "F5", "F6", "F7", "F8", "F9", "F10", "F11", "F12"}
  /\ DOMAIN Ss3 = {"F1", "F2", "F3", "F4"}
BY DEF CsiFinal, CsiTilde, Ss3

LEMMA SpecialNumbers ==
  /\ \A k \in DOMAIN CsiFinal : CsiFinal[k] \in 65 .. 72
  /\ \A k \in DOMAIN Ss3 : Ss3[k] \in 80 .. 83
  /\ \A k, l \in DOMAIN CsiFinal : CsiFinal[k] = CsiFinal[l] => k = l
  /\ \A k, l \in DOMAIN CsiTilde : CsiTilde[k] = CsiTilde[l] => k = l
  /\ \A k, l \in DOMAIN Ss3 : Ss3[k] = Ss3[l] => k = l
<1>1. /\ \A k \in DOMAIN CsiFinal : CsiFinal[k] \in 65 .. 72
      /\ \A k, l \in DOMAIN CsiFinal : CsiFinal[k] = CsiFinal[l] => k = l
  BY DEF CsiFinal
<1>2. /\ \A k \in DOMAIN Ss3 : Ss3[k] \in 80 .. 83
      /\ \A k, l \in DOMAIN Ss3 : Ss3[k] = Ss3[l] => k = l
  BY DEF Ss3
<1>3. \A k, l \in DOMAIN CsiTilde : CsiTilde[k] = CsiTilde[l] => k = l
  BY DEF CsiTilde
<1> QED BY <1>1, <1>2, <1>3

LEMMA ParamTells ==
  ASSUME NEW m \in SUBSET Modifiers, NEW n \in SUBSET Modifiers
  PROVE  /\ Param(m) = Param(n) => m = n
         /\ Param(m) = <<>> <=> m = {}
<1>1. ASSUME ModParam(m) = ModParam(n) PROVE m = n
  <2> DEFINE bit(name, mods) == IF name \in mods THEN 1 ELSE 0
  <2>1. \A name, mods : bit(name, mods) \in {0, 1} /\ (bit(name, mods) = 1 <=> name \in mods)
    OBVIOUS
  <2>2. \A mods : ModParam(mods) = 1 + bit("shift", mods) + 2 * bit("alt", mods) + 4 * bit("ctrl", mods)
    BY DEF ModParam
  <2> HIDE DEF bit
  <2>3. \A a, b, c, d, e, f \in {0, 1} : 1 + a + 2 * b + 4 * c = 1 + d + 2 * e + 4 * f => a = d /\ b = e /\ c = f
    OBVIOUS
  <2>4. /\ bit("shift", m) = bit("shift", n) /\ bit("alt", m) = bit("alt", n) /\ bit("ctrl", m) = bit("ctrl", n)
    BY <1>1, <2>1, <2>2, <2>3
  <2>5. \A name \in {"shift", "alt", "ctrl"} : name \in m <=> name \in n
    BY <2>1, <2>4
  <2>6. \A name : name \in m <=> name \in n
    BY <2>5 DEF Modifiers
  <2> QED BY <2>6
<1>2. Param(m) = <<>> <=> m = {}
  BY DEF Param
<1>3. Param(n) = <<>> <=> n = {}
  BY DEF Param
<1>4. ASSUME m # {}, n # {}, Param(m) = Param(n) PROVE ModParam(m) = ModParam(n)
  <2>1. <<ModParam(m)>> = <<ModParam(n)>>
    BY <1>4 DEF Param
  <2> QED BY <2>1
<1> QED BY <1>1, <1>2, <1>3, <1>4

LEMMA NoneJoined ==
  ASSUME NEW s, \E S : s \in Seq(S)
  PROVE  <<>> \o s = s /\ s \o <<>> = s
<1> PICK S : s \in Seq(S)
  OBVIOUS
<1> QED BY ConcatEmptySeq

(* Every key is of one kind.                                               *)
LEMMA KeyKinds ==
  ASSUME NEW k \in KeyNames
  PROVE  /\ \/ k \in {"Enter", "Tab", "Escape", "Space", "Backspace"}
            \/ k \in DOMAIN CsiFinal \/ k \in DOMAIN CsiTilde \/ k \in DOMAIN Ss3
            \/ k \in DOMAIN Letters \/ k \in DOMAIN Literals
         /\ k \in DOMAIN Letters \cup DOMAIN Literals => k \notin SpecialKeys
         /\ k \in DOMAIN Letters => k \notin DOMAIN Literals
BY KeyboardAssumption DEF KeyNames, SpecialKeys

LEMMA FirstIs ==
  ASSUME NEW k \in KeyNames, NEW m, NEW protocol
  PROVE  LET f == FirstOf(k, m, protocol)
         IN  /\ k = "Enter" => f = IF m = {} \/ protocol = "legacy" THEN Single(13) ELSE One("u", 13, Param(m))
             /\ k = "Tab" => f = IF "shift" \in m THEN One("csi", 90, <<>>) ELSE Single(9)
             /\ k = "Escape" => f = Single(27)
             /\ k = "Space" => f = IF "ctrl" \in m THEN Single(0) ELSE Single(32)
             /\ k = "Backspace" => f = IF "ctrl" \in m THEN Single(8) ELSE Single(127)
             /\ k \in DOMAIN CsiFinal => f = One("csi", CsiFinal[k], Param(m))
             /\ k \in DOMAIN CsiTilde => f = One("csi~", CsiTilde[k], Param(m))
             /\ k \in DOMAIN Ss3 => f = IF m = {} THEN One("ss3", Ss3[k], <<>>) ELSE One("csi", Ss3[k], Param(m))
             /\ k \in DOMAIN Letters => f = IF "ctrl" \in m THEN Single(Letters[k])
                                            ELSE Single(Letters[k] + IF "shift" \in m THEN 64 ELSE 96)
             /\ k \in DOMAIN Literals => f = Single(Literals[k][IF "shift" \in m THEN 2 ELSE 1])
<1>1. k \in DOMAIN Letters \cup DOMAIN Literals =>
        /\ k \notin {"Enter", "Tab", "Escape", "Space", "Backspace"}
        /\ k \notin DOMAIN CsiFinal /\ k \notin DOMAIN CsiTilde /\ k \notin DOMAIN Ss3
  BY KeyKinds DEF SpecialKeys
<1>2. k \in DOMAIN Letters => k \notin DOMAIN Literals
  BY KeyKinds
<1>3. CASE k \in DOMAIN Letters
  BY <1>1, <1>2, <1>3 DEF FirstOf
<1>4. CASE k \in DOMAIN Literals
  BY <1>1, <1>2, <1>4 DEF FirstOf
<1>5. CASE k \notin DOMAIN Letters \cup DOMAIN Literals
  BY <1>5, SpecialNames DEF FirstOf
<1> QED BY <1>3, <1>4, <1>5

LEMMA TwoItems ==
  ASSUME NEW S, NEW s \in Seq(S), Len(s) = 2
  PROVE  DOMAIN s = 1 .. 2 /\ \A i \in 1 .. 2 : s[i] \in S
BY LenProperties, ElementOfSeq

LEMMA TypedApart ==
  /\ \A l \in DOMAIN Letters : Letters[l] \in 1 .. 26
  /\ \A l \in DOMAIN Literals : \A i \in 1 .. 2 :
       Literals[l][i] \in 33 .. 126 /\ Literals[l][i] \notin 65 .. 90 /\ Literals[l][i] \notin 97 .. 122
  /\ \A l, o \in DOMAIN Literals : \A i, j \in 1 .. 2 : Literals[l][i] = Literals[o][j] => l = o
<1>1. ASSUME NEW l \in DOMAIN Literals, NEW i \in 1 .. 2
      PROVE  Literals[l][i] \in ToSet(Literals[l]) /\ Literals[l][i] \in 32 .. 126
  <2>1. Literals[l] \in Seq(32 .. 126) /\ Len(Literals[l]) = 2
    BY KeyEncodingAssumption
  <2>2. DOMAIN Literals[l] = 1 .. 2 /\ \A j \in 1 .. 2 : Literals[l][j] \in 32 .. 126
    BY <2>1, TwoItems
  <2>3. i \in DOMAIN Literals[l] /\ Literals[l][i] \in 32 .. 126
    BY <2>2
  <2> QED BY <2>3 DEF ToSet
<1>2. \A l \in DOMAIN Literals : \A i \in 1 .. 2 :
        Literals[l][i] \in 33 .. 126 /\ Literals[l][i] \notin 65 .. 90 /\ Literals[l][i] \notin 97 .. 122
  BY <1>1, KeyboardAssumption
<1>3. \A l, o \in DOMAIN Literals : \A i, j \in 1 .. 2 : Literals[l][i] = Literals[o][j] => l = o
  BY <1>1, KeyboardAssumption
<1> QED BY <1>2, <1>3, KeyEncodingAssumption

(* What tells the kinds of keys apart.                                     *)
FirstFields(f, k, m, protocol) ==
  /\ k = "Enter" => \/ f.form = "byte" /\ f.n = 13 /\ (m = {} \/ protocol = "legacy")
                    \/ f.form = "u" /\ f.params = Param(m) /\ m # {} /\ protocol # "legacy"
  /\ k = "Tab" => (f.form = "csi" /\ f.n = 90) \/ (f.form = "byte" /\ f.n = 9)
  /\ k = "Escape" => f.form = "byte" /\ f.n = 27
  /\ k = "Space" => f.form = "byte" /\ f.n = IF "ctrl" \in m THEN 0 ELSE 32
  /\ k = "Backspace" => f.form = "byte" /\ f.n = IF "ctrl" \in m THEN 8 ELSE 127
  /\ k \in DOMAIN CsiFinal => f.form = "csi" /\ f.n = CsiFinal[k] /\ f.n \in 65 .. 72 /\ f.params = Param(m)
  /\ k \in DOMAIN CsiTilde => f.form = "csi~" /\ f.n = CsiTilde[k] /\ f.params = Param(m)
  /\ k \in DOMAIN Ss3 => \/ f.form = "ss3" /\ f.n = Ss3[k] /\ m = {}
                         \/ f.form = "csi" /\ f.n = Ss3[k] /\ f.n \in 80 .. 83 /\ f.params = Param(m) /\ m # {}
  /\ k \in DOMAIN Letters => /\ f.form = "byte"
                             /\ IF "ctrl" \in m THEN f.n = Letters[k] /\ f.n \in 1 .. 26
                                ELSE \/ f.n = Letters[k] + 64 /\ f.n \in 65 .. 90
                                     \/ f.n = Letters[k] + 96 /\ f.n \in 97 .. 122
  /\ k \in DOMAIN Literals => /\ f.form = "byte" /\ f.n \in 33 .. 126 /\ f.n \notin 65 .. 90 /\ f.n \notin 97 .. 122
                              /\ \E i \in 1 .. 2 : f.n = Literals[k][i]

LEMMA FirstFielded ==
  ASSUME NEW k \in KeyNames, NEW m, NEW protocol
  PROVE  FirstFields(FirstOf(k, m, protocol), k, m, protocol)
<1> DEFINE f == FirstOf(k, m, protocol)
<1>0. \A g, n, x : One(g, n, x).form = g /\ One(g, n, x).n = n /\ One(g, n, x).params = x
  BY DEF One
<1>1. \A n : Single(n).form = "byte" /\ Single(n).n = n
  BY DEF Single, One
<1>2. k \in DOMAIN Letters => /\ f.form = "byte"
                             /\ IF "ctrl" \in m THEN f.n = Letters[k] /\ f.n \in 1 .. 26
                                ELSE \/ f.n = Letters[k] + 64 /\ f.n \in 65 .. 90
                                     \/ f.n = Letters[k] + 96 /\ f.n \in 97 .. 122
  <2> SUFFICES ASSUME k \in DOMAIN Letters
               PROVE  /\ f.form = "byte"
                      /\ IF "ctrl" \in m THEN f.n = Letters[k] /\ f.n \in 1 .. 26
                         ELSE \/ f.n = Letters[k] + 64 /\ f.n \in 65 .. 90
                              \/ f.n = Letters[k] + 96 /\ f.n \in 97 .. 122
    OBVIOUS
  <2>1. f = IF "ctrl" \in m THEN Single(Letters[k]) ELSE Single(Letters[k] + IF "shift" \in m THEN 64 ELSE 96)
    BY FirstIs
  <2>2. Letters[k] \in 1 .. 26
    BY TypedApart
  <2> HIDE DEF f
  <2> QED BY <1>1, <2>1, <2>2
<1>3. k \in DOMAIN Literals => /\ f.form = "byte" /\ f.n \in 33 .. 126 /\ f.n \notin 65 .. 90 /\ f.n \notin 97 .. 122
                              /\ \E i \in 1 .. 2 : f.n = Literals[k][i]
  <2> SUFFICES ASSUME k \in DOMAIN Literals
               PROVE  /\ f.form = "byte" /\ f.n \in 33 .. 126 /\ f.n \notin 65 .. 90 /\ f.n \notin 97 .. 122
                      /\ \E i \in 1 .. 2 : f.n = Literals[k][i]
    OBVIOUS
  <2>1. PICK i \in 1 .. 2 : f = Single(Literals[k][i])
    BY FirstIs
  <2> HIDE DEF f
  <2> QED BY <1>1, <2>1, TypedApart
<1>4. /\ k = "Enter" => \/ f.form = "byte" /\ f.n = 13 /\ (m = {} \/ protocol = "legacy")
                        \/ f.form = "u" /\ f.params = Param(m) /\ m # {} /\ protocol # "legacy"
      /\ k = "Tab" => (f.form = "csi" /\ f.n = 90) \/ (f.form = "byte" /\ f.n = 9)
      /\ k = "Escape" => f.form = "byte" /\ f.n = 27
      /\ k = "Space" => f.form = "byte" /\ f.n = IF "ctrl" \in m THEN 0 ELSE 32
      /\ k = "Backspace" => f.form = "byte" /\ f.n = IF "ctrl" \in m THEN 8 ELSE 127
  BY <1>0, <1>1, FirstIs
<1>5. /\ k \in DOMAIN CsiFinal => f.form = "csi" /\ f.n = CsiFinal[k] /\ f.n \in 65 .. 72 /\ f.params = Param(m)
      /\ k \in DOMAIN CsiTilde => f.form = "csi~" /\ f.n = CsiTilde[k] /\ f.params = Param(m)
      /\ k \in DOMAIN Ss3 => \/ f.form = "ss3" /\ f.n = Ss3[k] /\ m = {}
                             \/ f.form = "csi" /\ f.n = Ss3[k] /\ f.n \in 80 .. 83 /\ f.params = Param(m) /\ m # {}
  BY <1>0, FirstIs, SpecialNumbers
<1> QED BY <1>2, <1>3, <1>4, <1>5 DEF FirstFields

(* What a first code tells of its key.                                     *)
ByteTells(f, k, m, protocol) ==
  \/ k = "Enter" /\ f.n = 13 /\ (m = {} \/ protocol = "legacy")
  \/ k = "Tab" /\ f.n = 9
  \/ k = "Escape" /\ f.n = 27
  \/ k = "Space" /\ (("ctrl" \in m /\ f.n = 0) \/ ("ctrl" \notin m /\ f.n = 32))
  \/ k = "Backspace" /\ (("ctrl" \in m /\ f.n = 8) \/ ("ctrl" \notin m /\ f.n = 127))
  \/ k \in DOMAIN Letters /\ "ctrl" \in m /\ f.n = Letters[k] /\ f.n \in 1 .. 26
  \/ k \in DOMAIN Letters /\ "ctrl" \notin m /\ f.n = Letters[k] + 64 /\ f.n \in 65 .. 90
  \/ k \in DOMAIN Letters /\ "ctrl" \notin m /\ f.n = Letters[k] + 96 /\ f.n \in 97 .. 122
  \/ /\ k \in DOMAIN Literals /\ f.n \in 33 .. 126 /\ f.n \notin 65 .. 90 /\ f.n \notin 97 .. 122
     /\ \E i \in 1 .. 2 : f.n = Literals[k][i]

FormTells(f, k, m, protocol) ==
  \/ f.form = "byte" /\ ByteTells(f, k, m, protocol)
  \/ f.form = "u" /\ k = "Enter" /\ f.params = Param(m)
  \/ f.form = "csi" /\ k = "Tab" /\ f.n = 90
  \/ f.form = "csi" /\ k \in DOMAIN CsiFinal /\ f.n = CsiFinal[k] /\ f.n \in 65 .. 72 /\ f.params = Param(m)
  \/ f.form = "csi" /\ k \in DOMAIN Ss3 /\ f.n = Ss3[k] /\ f.n \in 80 .. 83 /\ f.params = Param(m)
  \/ f.form = "csi~" /\ k \in DOMAIN CsiTilde /\ f.n = CsiTilde[k] /\ f.params = Param(m)
  \/ f.form = "ss3" /\ k \in DOMAIN Ss3 /\ f.n = Ss3[k] /\ m = {}

LEMMA FirstTold ==
  ASSUME NEW k \in KeyNames, NEW m, NEW protocol
  PROVE  FormTells(FirstOf(k, m, protocol), k, m, protocol)
<1> DEFINE f == FirstOf(k, m, protocol)
<1> SUFFICES FormTells(f, k, m, protocol)
  OBVIOUS
<1> HIDE DEF f
<1>1. FirstFields(f, k, m, protocol)
  BY FirstFielded DEF f
<1>2. CASE k \in {"Enter", "Tab", "Escape", "Space", "Backspace"}
  <2>1. k = "Enter" => FormTells(f, k, m, protocol)
    BY <1>1 DEF FirstFields, FormTells, ByteTells
  <2>2. k = "Tab" => FormTells(f, k, m, protocol)
    BY <1>1 DEF FirstFields, FormTells, ByteTells
  <2>3. k = "Escape" => FormTells(f, k, m, protocol)
    BY <1>1 DEF FirstFields, FormTells, ByteTells
  <2>4. k = "Space" => FormTells(f, k, m, protocol)
    BY <1>1 DEF FirstFields, FormTells, ByteTells
  <2>5. k = "Backspace" => FormTells(f, k, m, protocol)
    BY <1>1 DEF FirstFields, FormTells, ByteTells
  <2> QED BY <1>2, <2>1, <2>2, <2>3, <2>4, <2>5
<1>3. CASE k \in DOMAIN CsiFinal \cup DOMAIN CsiTilde \cup DOMAIN Ss3
  <2>1. k \in DOMAIN CsiFinal => FormTells(f, k, m, protocol)
    BY <1>1 DEF FirstFields, FormTells
  <2>2. k \in DOMAIN CsiTilde => FormTells(f, k, m, protocol)
    BY <1>1 DEF FirstFields, FormTells
  <2>3. k \in DOMAIN Ss3 => FormTells(f, k, m, protocol)
    BY <1>1 DEF FirstFields, FormTells
  <2> QED BY <1>3, <2>1, <2>2, <2>3
<1>4. CASE k \in DOMAIN Letters
  <2>1. f.form = "byte"
    BY <1>1, <1>4 DEF FirstFields
  <2>2. IF "ctrl" \in m THEN f.n = Letters[k] /\ f.n \in 1 .. 26
        ELSE \/ f.n = Letters[k] + 64 /\ f.n \in 65 .. 90
             \/ f.n = Letters[k] + 96 /\ f.n \in 97 .. 122
    BY <1>1, <1>4 DEF FirstFields
  <2>3. ByteTells(f, k, m, protocol)
    BY <1>4, <2>2, Zenon DEF ByteTells
  <2> QED BY <2>1, <2>3 DEF FormTells
<1>5. CASE k \in DOMAIN Literals
  <2>1. /\ f.form = "byte" /\ f.n \in 33 .. 126 /\ f.n \notin 65 .. 90 /\ f.n \notin 97 .. 122
        /\ \E i \in 1 .. 2 : f.n = Literals[k][i]
    BY <1>1, <1>5 DEF FirstFields
  <2>2. ByteTells(f, k, m, protocol)
    BY <1>5, <2>1, Zenon DEF ByteTells
  <2> QED BY <2>1, <2>2 DEF FormTells
<1> QED BY <1>2, <1>3, <1>4, <1>5, KeyKinds

(* Two presses whose first codes are the same are the same, or alike.      *)
LEMMA FirstTells ==
  ASSUME NEW k \in KeyNames, NEW l \in KeyNames, NEW m \in SUBSET Modifiers, NEW n \in SUBSET Modifiers, NEW protocol,
         FirstOf(k, m, protocol) = FirstOf(l, n, protocol),
         k \in DOMAIN Literals => "ctrl" \notin m, l \in DOMAIN Literals => "ctrl" \notin n
  PROVE  LET p == [key |-> k, mods |-> m, protocol |-> protocol]
             q == [key |-> l, mods |-> n, protocol |-> protocol]
         IN  p = q \/ Alike(p, q) \/ Alike(q, p)
<1> DEFINE f == FirstOf(k, m, protocol)
           plain == {"Tab", "Escape", "Backspace", "Space"} \cup DOMAIN Letters \cup DOMAIN Literals
           ctrl(a, b) == IF a \in DOMAIN Letters /\ "ctrl" \in b THEN Letters[a] ELSE 0
           Same == \/ k = l /\ m = n
                   \/ k = l /\ k \in plain /\ (("ctrl" \in m <=> "ctrl" \in n) \/ k \in {"Tab", "Escape"})
                   \/ k = l /\ k = "Enter" /\ protocol = "legacy"
                   \/ <<ctrl(k, m), l>> \in {<<8, "Backspace">>, <<9, "Tab">>, <<13, "Enter">>}
                   \/ <<ctrl(l, n), k>> \in {<<8, "Backspace">>, <<9, "Tab">>, <<13, "Enter">>}
<1>1. Same => LET p == [key |-> k, mods |-> m, protocol |-> protocol]
                  q == [key |-> l, mods |-> n, protocol |-> protocol]
              IN  p = q \/ Alike(p, q) \/ Alike(q, p)
  <2>1. ("ctrl" \in m <=> "ctrl" \in n) => m \cap {"ctrl"} = n \cap {"ctrl"}
    OBVIOUS
  <2> QED BY <2>1 DEF Alike
<1> SUFFICES Same
  BY <1>1
<1> HIDE DEF f
<1>2. FormTells(f, k, m, protocol) /\ FormTells(f, l, n, protocol)
  BY FirstTold DEF f
<1>3. CASE f.form = "byte"
  <2>1. ByteTells(f, k, m, protocol) /\ ByteTells(f, l, n, protocol)
    BY <1>2, <1>3 DEF FormTells
  <2>9. \A x \in {"Enter", "Tab", "Escape", "Space", "Backspace"} : x \notin DOMAIN Letters \cup DOMAIN Literals
    BY KeyboardAssumption DEF SpecialKeys
  <2> USE DEF ByteTells
  <2>2. ASSUME k = "Enter" PROVE Same
    BY <2>1, <2>2, <2>9
  <2>6. ASSUME k = "Tab" PROVE Same
    BY <2>1, <2>6, <2>9
  <2>7. ASSUME k = "Escape" PROVE Same
    BY <2>1, <2>7, <2>9
  <2>3. ASSUME k = "Space" PROVE Same
    BY <2>1, <2>3, <2>9
  <2>8. ASSUME k = "Backspace" PROVE Same
    BY <2>1, <2>8, <2>9
  <2>4. CASE k \in DOMAIN Letters
    BY <2>1, <2>4, KeyKinds, KeyboardAssumption, TypedApart
  <2>5. CASE k \in DOMAIN Literals
    BY <2>1, <2>5, KeyKinds, KeyboardAssumption, TypedApart
  <2> QED BY <2>1, <2>2, <2>3, <2>4, <2>5, <2>6, <2>7, <2>8
<1>4. CASE f.form = "u"
  BY <1>2, <1>4, ParamTells DEF FormTells
<1>5. CASE f.form = "csi"
  BY <1>2, <1>5, ParamTells, SpecialNumbers DEF FormTells
<1>6. CASE f.form = "csi~"
  BY <1>2, <1>6, ParamTells, SpecialNumbers DEF FormTells
<1>7. CASE f.form = "ss3"
  BY <1>2, <1>7, SpecialNumbers DEF FormTells
<1> QED BY <1>2, <1>3, <1>4, <1>5, <1>6, <1>7 DEF FormTells

-----------------------------------------------------------------------------
LEMMA CodeIs ==
  /\ \A g, n, x : Code(g, n, x) = <<One(g, n, x)>>
  /\ \A n : Byte(n) = <<Single(n)>>
BY DEF Code, Byte, One, Single

LEMMA FirstJoined ==
  ASSUME NEW x, NEW y
  PROVE  /\ <<x>> \o <<>> = <<x>> /\ <<>> \o <<x>> = <<x>> /\ <<>> \o <<>> = <<>>
         /\ (<<x>> \o <<y>>)[1] = x /\ <<x>>[1] = x
<1>1. \E S : <<x>> \in Seq(S)
  <2>1. <<x>> \in Seq({x})
    OBVIOUS
  <2> QED BY <2>1
<1>2. \E S : <<>> \in Seq(S)
  OBVIOUS
<1>3. <<x>>[1] = x
  OBVIOUS
<1>4. (<<x>> \o <<y>>)[1] = x
  OBVIOUS
<1> QED BY <1>1, <1>2, <1>3, <1>4, NoneJoined

LEMMA TypedIs ==
  ASSUME NEW k \in KeyNames, NEW m
  PROVE  /\ "ctrl" \in m /\ ("alt" \in m \/ k # "Space") => Typed(k, m) = <<>>
         /\ k = "Space" /\ ~("ctrl" \in m /\ "alt" \in m) => Typed(k, m) = <<Single(32)>>
         /\ k \in DOMAIN Letters /\ "ctrl" \notin m => Typed(k, m) = <<FirstOf(k, m, "legacy")>>
         /\ k \in DOMAIN Literals /\ "ctrl" \notin m => Typed(k, m) = <<FirstOf(k, m, "legacy")>>
         /\ k \in SpecialKeys \ {"Space"} => Typed(k, m) = <<>>
<1>1. "ctrl" \in m /\ ("alt" \in m \/ k # "Space") => Typed(k, m) = <<>>
  BY DEF Typed
<1>2. k = "Space" /\ ~("ctrl" \in m /\ "alt" \in m) => Typed(k, m) = <<Single(32)>>
  BY CodeIs DEF Typed
<1>3. k \in DOMAIN Letters /\ "ctrl" \notin m => Typed(k, m) = <<FirstOf(k, m, "legacy")>>
  <2> SUFFICES ASSUME k \in DOMAIN Letters, "ctrl" \notin m PROVE Typed(k, m) = <<FirstOf(k, m, "legacy")>>
    OBVIOUS
  <2>1. k # "Space"
    BY KeyKinds DEF SpecialKeys
  <2>2. Typed(k, m) = <<Single(Letters[k] + 96 - 32 * IF "shift" \in m THEN 1 ELSE 0)>>
    BY <2>1, CodeIs DEF Typed
  <2>3. Letters[k] + 96 - 32 * (IF "shift" \in m THEN 1 ELSE 0) = Letters[k] + IF "shift" \in m THEN 64 ELSE 96
    BY TypedApart
  <2>4. FirstOf(k, m, "legacy") = Single(Letters[k] + IF "shift" \in m THEN 64 ELSE 96)
    BY FirstIs
  <2> QED BY <2>2, <2>3, <2>4
<1>4. k \in DOMAIN Literals /\ "ctrl" \notin m => Typed(k, m) = <<FirstOf(k, m, "legacy")>>
  <2> SUFFICES ASSUME k \in DOMAIN Literals, "ctrl" \notin m PROVE Typed(k, m) = <<FirstOf(k, m, "legacy")>>
    OBVIOUS
  <2>1. k # "Space" /\ k \notin DOMAIN Letters
    BY KeyKinds DEF SpecialKeys
  <2>2. Typed(k, m) = <<Single(Literals[k][1 + IF "shift" \in m THEN 1 ELSE 0])>>
    BY <2>1, CodeIs DEF Typed
  <2>3. 1 + (IF "shift" \in m THEN 1 ELSE 0) = IF "shift" \in m THEN 2 ELSE 1
    OBVIOUS
  <2>4. FirstOf(k, m, "legacy") = Single(Literals[k][IF "shift" \in m THEN 2 ELSE 1])
    BY FirstIs
  <2> QED BY <2>2, <2>3, <2>4
<1>5. k \in SpecialKeys \ {"Space"} => Typed(k, m) = <<>>
  BY KeyKinds DEF Typed
<1> QED BY <1>1, <1>2, <1>3, <1>4, <1>5

LEMMA SpecialIs ==
  ASSUME NEW k \in SpecialKeys, NEW m, NEW protocol, NEW space
  PROVE  SpecialBytes(k, m, protocol, space)
           = IF k = "Space" /\ "ctrl" \notin m THEN space ELSE <<FirstOf(k, m, protocol)>>
<1> DEFINE s == SpecialBytes(k, m, protocol, space)
           f == FirstOf(k, m, protocol)
<1>1. k \in KeyNames
  BY DEF KeyNames
<1>2. CASE k = "Enter"
  BY <1>1, <1>2, SpecialNames, CodeIs, FirstIs DEF SpecialBytes
<1>7. CASE k = "Tab"
  BY <1>1, <1>7, SpecialNames, CodeIs, FirstIs DEF SpecialBytes
<1>8. CASE k \in {"Escape", "Backspace"}
  BY <1>1, <1>8, SpecialNames, CodeIs, FirstIs DEF SpecialBytes
<1>3. CASE k = "Space"
  BY <1>1, <1>3, SpecialNames, CodeIs, FirstIs DEF SpecialBytes
<1>4. CASE k \in DOMAIN CsiFinal
  BY <1>1, <1>4, SpecialNames, CodeIs, FirstIs DEF SpecialBytes, CsiKey
<1>5. CASE k \in DOMAIN CsiTilde
  BY <1>1, <1>5, SpecialNames, CodeIs, FirstIs DEF SpecialBytes
<1>6. CASE k \in DOMAIN Ss3
  BY <1>1, <1>6, SpecialNames, CodeIs, FirstIs DEF SpecialBytes, Ss3OrCsi, CsiKey
<1> QED BY <1>2, <1>3, <1>4, <1>5, <1>6, <1>7, <1>8 DEF SpecialKeys

(* The first code of a press, and that Control leaves characters unsaid.   *)
LEMMA PressedFirst ==
  ASSUME NEW k \in KeyNames, NEW m, NEW protocol, Pressed(k, m, protocol) # <<>>
  PROVE  /\ Pressed(k, m, protocol)[1] = FirstOf(k, m, protocol)
         /\ k \in DOMAIN Literals => "ctrl" \notin m
<1> DEFINE f == FirstOf(k, m, protocol)
<1> SUFFICES Pressed(k, m, protocol)[1] = f /\ (k \in DOMAIN Literals => "ctrl" \notin m)
  OBVIOUS
<1> HIDE DEF f
<1>1. CASE k \in DOMAIN Letters
  <2>1. k \notin SpecialKeys /\ k # "Space" /\ FirstOf(k, m, "legacy") = f /\ k \notin DOMAIN Literals
    BY <1>1, KeyKinds, FirstIs DEF SpecialKeys, f
  <2>2. "ctrl" \in m => f = Single(Letters[k])
    BY <1>1, FirstIs DEF f
  <2>3. CASE "ctrl" \notin m
    BY <1>1, <2>1, <2>3, TypedIs, FirstJoined DEF Pressed, KeyEventBytes
  <2>4. CASE "ctrl" \in m /\ "alt" \in m
    BY <1>1, <2>1, <2>4, TypedIs, FirstJoined DEF Pressed, KeyEventBytes
  <2>5. CASE "ctrl" \in m /\ "alt" \notin m
    BY <1>1, <2>1, <2>2, <2>5, TypedIs, FirstJoined, CodeIs DEF Pressed, KeyEventBytes
  <2> QED BY <2>1, <2>3, <2>4, <2>5
<1>2. CASE k \in DOMAIN Literals
  <2>1. k \notin SpecialKeys /\ k # "Space" /\ FirstOf(k, m, "legacy") = f /\ k \notin DOMAIN Letters
    BY <1>2, KeyKinds, FirstIs DEF SpecialKeys, f
  <2>2. KeyEventBytes(k, m, protocol) = <<>>
    BY <2>1 DEF KeyEventBytes
  <2>3. CASE "ctrl" \notin m
    BY <1>2, <2>1, <2>2, <2>3, TypedIs, FirstJoined DEF Pressed
  <2>4. CASE "ctrl" \in m
    BY <1>2, <2>1, <2>2, <2>4, TypedIs, FirstJoined DEF Pressed
  <2> QED BY <2>3, <2>4
<1>3. CASE k \in SpecialKeys
  <2>1. k \notin DOMAIN Letters /\ k \notin DOMAIN Literals
    BY <1>3, KeyKinds
  <2>2. KeyEventBytes(k, m, protocol) = SpecialBytes(k, m, protocol, IF "alt" \in m THEN Byte(32) ELSE <<>>)
    BY <1>3, <2>1 DEF KeyEventBytes
  <2>3. k = "Space" => f = IF "ctrl" \in m THEN Single(0) ELSE Single(32)
    BY FirstIs DEF f
  <2>4. SpecialBytes(k, m, protocol, IF "alt" \in m THEN Byte(32) ELSE <<>>)
          = IF k = "Space" /\ "ctrl" \notin m THEN IF "alt" \in m THEN Byte(32) ELSE <<>> ELSE <<f>>
    BY <1>3, SpecialIs DEF f
  <2>5. CASE k # "Space"
    BY <1>3, <2>2, <2>4, <2>5, TypedIs, FirstJoined DEF Pressed
  <2>6. CASE k = "Space" /\ "ctrl" \in m
    <3>1. KeyEventBytes(k, m, protocol) = <<f>>
      BY <2>2, <2>4, <2>6
    <3>2. Typed(k, m) = <<>> \/ Typed(k, m) = <<Single(32)>>
      BY <2>6, TypedIs
    <3> QED BY <2>1, <3>1, <3>2, FirstJoined DEF Pressed
  <2>7. CASE k = "Space" /\ "ctrl" \notin m
    <3>1. KeyEventBytes(k, m, protocol) = <<f>> \/ KeyEventBytes(k, m, protocol) = <<>>
      BY <2>2, <2>3, <2>4, <2>7, CodeIs
    <3>2. Typed(k, m) = <<f>>
      BY <2>3, <2>7, TypedIs
    <3> QED BY <2>1, <3>1, <3>2, FirstJoined DEF Pressed
  <2> QED BY <2>1, <2>5, <2>6, <2>7
<1> QED BY <1>1, <1>2, <1>3 DEF KeyNames

(* A key that the host sends and one that is pressed: the same codes, but  *)
(* where SentAsTyped says otherwise.                                       *)
LEMMA PressedIs ==
  ASSUME NEW k \in KeyNames, NEW m, NEW protocol
  PROVE  /\ k \in SpecialKeys \ {"Space"} => Pressed(k, m, protocol) = <<FirstOf(k, m, protocol)>>
         /\ k = "Space" /\ m = {} => Pressed(k, m, protocol) = <<Single(32)>>
         /\ k \in DOMAIN Letters /\ "alt" \notin m => Pressed(k, m, protocol) = <<FirstOf(k, m, protocol)>>
         /\ k \in DOMAIN Literals /\ m = {} => Pressed(k, m, protocol) = <<FirstOf(k, m, protocol)>>
<1> DEFINE f == FirstOf(k, m, protocol)
<1>1. ASSUME k \in SpecialKeys \ {"Space"} PROVE Pressed(k, m, protocol) = <<f>>
  <2>1. k \notin DOMAIN Letters
    BY <1>1, KeyKinds
  <2>2. KeyEventBytes(k, m, protocol) = SpecialBytes(k, m, protocol, IF "alt" \in m THEN Byte(32) ELSE <<>>)
    BY <1>1, <2>1 DEF KeyEventBytes
  <2>3. KeyEventBytes(k, m, protocol) = <<f>>
    BY <1>1, <2>2, SpecialIs
  <2>4. Typed(k, m) = <<>>
    BY <1>1, TypedIs
  <2> HIDE DEF f
  <2> QED BY <2>3, <2>4, FirstJoined DEF Pressed
<1>2. ASSUME k = "Space", m = {} PROVE Pressed(k, m, protocol) = <<Single(32)>>
  <2>1. k \in SpecialKeys /\ k \notin DOMAIN Letters
    BY <1>2, KeyKinds DEF SpecialKeys
  <2>2. KeyEventBytes(k, m, protocol) = SpecialBytes(k, m, protocol, <<>>)
    BY <1>2, <2>1 DEF KeyEventBytes
  <2>3. SpecialBytes(k, m, protocol, <<>>) = <<>>
    BY <1>2, <2>1, SpecialIs
  <2>4. Typed(k, m) = <<Single(32)>>
    BY <1>2, TypedIs
  <2> QED BY <2>2, <2>3, <2>4, FirstJoined DEF Pressed
<1>3. ASSUME k \in DOMAIN Letters, "alt" \notin m PROVE Pressed(k, m, protocol) = <<f>>
  <2>1. k \notin SpecialKeys /\ k # "Space" /\ FirstOf(k, m, "legacy") = f
    BY <1>3, KeyKinds, FirstIs DEF SpecialKeys
  <2>2. "ctrl" \in m => f = Single(Letters[k])
    BY <1>3, FirstIs
  <2> HIDE DEF f
  <2>3. "ctrl" \in m => KeyEventBytes(k, m, protocol) = <<f>> /\ Typed(k, m) = <<>>
    BY <1>3, <2>1, <2>2, TypedIs, CodeIs DEF KeyEventBytes
  <2>4. "ctrl" \notin m => KeyEventBytes(k, m, protocol) = <<>> /\ Typed(k, m) = <<f>>
    BY <1>3, <2>1, TypedIs DEF KeyEventBytes
  <2> QED BY <2>3, <2>4, FirstJoined DEF Pressed
<1>4. ASSUME k \in DOMAIN Literals, m = {} PROVE Pressed(k, m, protocol) = <<f>>
  <2>1. k \notin SpecialKeys /\ k \notin DOMAIN Letters /\ FirstOf(k, m, "legacy") = f
    BY <1>4, KeyKinds, FirstIs
  <2> HIDE DEF f
  <2>2. KeyEventBytes(k, m, protocol) = <<>>
    BY <2>1 DEF KeyEventBytes
  <2>3. Typed(k, m) = <<f>>
    BY <1>4, <2>1, TypedIs
  <2> QED BY <2>2, <2>3, FirstJoined DEF Pressed
<1> QED BY <1>1, <1>2, <1>3, <1>4

LEMMA SpecIs ==
  ASSUME NEW k \in KeyNames, NEW m, "alt" \notin m \/ k \in SpecialKeys
  PROVE  /\ k \in SpecialKeys \ {"Space"} => KeySpecBytes(k, m, "csi-u") = <<FirstOf(k, m, "csi-u")>>
         /\ k = "Space" /\ m = {} => KeySpecBytes(k, m, "csi-u") = <<Single(32)>>
         /\ k \in DOMAIN Letters => KeySpecBytes(k, m, "csi-u") = <<FirstOf(k, m, "csi-u")>>
         /\ k \in DOMAIN Literals /\ m = {} => KeySpecBytes(k, m, "csi-u") = <<FirstOf(k, m, "csi-u")>>
<1> DEFINE s == KeySpecBytes(k, m, "csi-u")
           f == FirstOf(k, m, "csi-u")
           meta == IF "alt" \in m THEN Byte(27) ELSE <<>>
<1>1. ASSUME k \in SpecialKeys PROVE s = SpecialBytes(k, m, "csi-u", Byte(32)) /\ k \notin DOMAIN Letters \cup DOMAIN Literals
  <2>1. k \notin DOMAIN Letters \cup DOMAIN Literals
    BY <1>1, KeyKinds
  <2> QED BY <1>1, <2>1 DEF KeySpecBytes
<1>2. k \in SpecialKeys \ {"Space"} => s = <<f>>
  BY <1>1, SpecialIs
<1>3. k = "Space" /\ m = {} => s = <<Single(32)>>
  <2>1. k = "Space" => k \in SpecialKeys
    BY DEF SpecialKeys
  <2> QED BY <1>1, <2>1, SpecialIs, CodeIs
<1>4. ASSUME k \in DOMAIN Letters, "ctrl" \in m PROVE s = <<f>>
  <2>1. k \notin SpecialKeys
    BY <1>4, KeyKinds
  <2>2. s = <<>> \o Byte(Letters[k])
    BY <1>4, <2>1 DEF KeySpecBytes
  <2> QED BY <1>4, <2>2, FirstIs, FirstJoined, CodeIs
<1>5. ASSUME k \notin SpecialKeys, "alt" \notin m, ~("ctrl" \in m /\ k \in DOMAIN Letters)
      PROVE  s = <<>> \o LiteralBytes(k, m)
  BY <1>5 DEF KeySpecBytes
<1>6. ASSUME k \in DOMAIN Letters, "ctrl" \notin m PROVE s = <<f>>
  <2>1. k \notin SpecialKeys /\ k # "Space" /\ k \notin DOMAIN Literals
    BY <1>6, KeyKinds DEF SpecialKeys
  <2>2. LiteralBytes(k, m) = <<f>>
    BY <1>6, <2>1, FirstIs, CodeIs DEF LiteralBytes
  <2> HIDE DEF s, f
  <2> QED BY <1>5, <1>6, <2>1, <2>2, FirstJoined
<1>7. ASSUME k \in DOMAIN Literals, m = {} PROVE s = <<f>>
  <2>1. k \notin SpecialKeys /\ k # "Space" /\ k \notin DOMAIN Letters
    BY <1>7, KeyKinds DEF SpecialKeys
  <2>2. f = Single(Literals[k][1])
    BY <1>7, FirstIs
  <2>3. LiteralBytes(k, m) = <<f>>
    BY <1>7, <2>1, <2>2, CodeIs DEF LiteralBytes
  <2> HIDE DEF s, f
  <2> QED BY <1>5, <1>7, <2>1, <2>3, FirstJoined
<1> QED BY <1>2, <1>3, <1>4, <1>6, <1>7

LEMMA FlattenFew ==
  ASSUME NEW s
  PROVE  /\ Len(s) = 1 => FlattenSeq(s) = s[1]
         /\ Len(s) = 2 => FlattenSeq(s) = s[1] \o s[2]
<1> DEFINE Joins(f, n) == f = [i \in 1 .. n |-> IF i = 1 THEN s[i] ELSE f[i - 1] \o s[i]]
           Joined(n) == CHOOSE f : Joins(f, n)
<1>1. ASSUME Len(s) = 1 PROVE FlattenSeq(s) = s[1]
  <2>1. Joins([i \in 1 .. 1 |-> s[1]], 1)
    OBVIOUS
  <2>2. Joins(Joined(1), 1)
    BY <2>1
  <2>3. FlattenSeq(s) = Joined(1)[1]
    BY <1>1 DEF FlattenSeq
  <2> HIDE DEF Joined
  <2> QED BY <2>2, <2>3
<1>2. ASSUME Len(s) = 2 PROVE FlattenSeq(s) = s[1] \o s[2]
  <2>1. Joins([i \in 1 .. 2 |-> IF i = 1 THEN s[1] ELSE s[1] \o s[2]], 2)
    OBVIOUS
  <2>2. Joins(Joined(2), 2)
    <3>1. \E f : Joins(f, 2)
      BY <2>1
    <3> HIDE DEF Joins
    <3> QED BY <3>1, Zenon
  <2>3. FlattenSeq(s) = Joined(2)[2]
    BY <1>2 DEF FlattenSeq
  <2> HIDE DEF Joined
  <2>4. \A i \in 1 .. 2 : Joined(2)[i] = IF i = 1 THEN s[i] ELSE Joined(2)[i - 1] \o s[i]
    BY <2>2
  <2>5. Joined(2)[1] = s[1]
    BY <2>4
  <2>6. \A i \in 1 .. 2 : i # 1 => Joined(2)[i] = Joined(2)[i - 1] \o s[i]
    BY <2>4, Zenon
  <2>7. 2 \in 1 .. 2 /\ 2 # 1 /\ 2 - 1 = 1
    OBVIOUS
  <2>8. Joined(2)[2] = Joined(2)[2 - 1] \o s[2]
    BY <2>6, <2>7, Zenon
  <2> QED BY <2>3, <2>5, <2>7, <2>8
<1> QED BY <1>1, <1>2

(* What a code tells of where the mouse is.                                *)
TellsCell(code, col, row) ==
  code.form # "x10" \/ col < 223 =>
    code.params = <<(IF code.form = "x10" THEN 33 ELSE 1) + col, (IF code.form = "x10" THEN 33 ELSE 1) + row>>

CellsTold(codes, col, row) == \A i \in DOMAIN codes : TellsCell(codes[i], col, row)

LEMMA X10Is ==
  ASSUME NEW n \in 0 .. 222
  PROVE  X10(n) = 33 + n
<1> DEFINE S == {((n + 1) % 256) + 32, 255}
           r == CHOOSE x \in S : \A y \in S : x <= y
<1>1. (n + 1) % 256 = n + 1
  OBVIOUS
<1>2. S = {n + 33, 255}
  BY <1>1
<1>3. n + 33 \in S /\ \A y \in S : n + 33 <= y
  BY <1>2
<1>4. \A x \in S : (\A y \in S : x <= y) => x = n + 33
  BY <1>2
<1>5. X10(n) = r
  BY DEF X10, Min
<1> HIDE DEF S
<1>6. r = n + 33
  BY <1>3, <1>4
<1> QED BY <1>5, <1>6

LEMMA CodeTells ==
  ASSUME NEW col \in Nat, NEW form, form # "x10", NEW n
  PROVE  TellsCell(One(form, n, <<col + 1, 0 + 1>>), col, 0)
<1>1. \A g, p : One(g, n, p).form = g /\ One(g, n, p).params = p
  BY DEF One
<1>2. <<col + 1, 0 + 1>> = <<1 + col, 1 + 0>>
  OBVIOUS
<1> QED BY <1>1, <1>2 DEF TellsCell

LEMMA BytesTell ==
  ASSUME NEW col \in Nat, NEW n
  PROVE  TellsCell(One("x10", n, <<X10(col), X10(0)>>), col, 0)
<1>1. \A g, p : One(g, n, p).form = g /\ One(g, n, p).params = p
  BY DEF One
<1>2. ASSUME col < 223 PROVE <<X10(col), X10(0)>> = <<33 + col, 33 + 0>>
  <2>1. X10(col) = 33 + col /\ X10(0) = 33 + 0
    BY <1>2, X10Is
  <2> QED BY <2>1
<1> QED BY <1>1, <1>2 DEF TellsCell

LEMMA EventTells ==
  ASSUME NEW col \in Nat, NEW b, NEW press, NEW mods, NEW sgr
  PROVE  /\ \E c : MouseEvent(b, press, col, 0, mods, sgr) = <<c>> /\ TellsCell(c, col, 0)
         /\ \E c : MouseMotion(b, col, 0, mods, sgr) = <<c>> /\ TellsCell(c, col, 0)
<1> HIDE DEF TellsCell
<1>1. \E c : MouseEvent(b, press, col, 0, mods, sgr) = <<c>> /\ TellsCell(c, col, 0)
  <2> DEFINE n == ButtonCode(b, mods, FALSE)
             form == IF press THEN "sgr" ELSE "sgr-release"
             c == IF sgr THEN One(form, n, <<col + 1, 0 + 1>>)
                  ELSE One("x10", IF press THEN n + 32 ELSE 35, <<X10(col), X10(0)>>)
  <2>1. MouseEvent(b, press, col, 0, mods, sgr) = <<c>>
    BY CodeIs DEF MouseEvent
  <2>2. form # "x10"
    OBVIOUS
  <2> HIDE DEF form, n
  <2>3. sgr => TellsCell(c, col, 0)
    BY <2>2, CodeTells
  <2>4. ~sgr => TellsCell(c, col, 0)
    BY BytesTell
  <2> QED BY <2>1, <2>3, <2>4
<1>2. \E c : MouseMotion(b, col, 0, mods, sgr) = <<c>> /\ TellsCell(c, col, 0)
  <2> DEFINE n == ButtonCode(b, mods, TRUE)
             c == IF sgr THEN One("sgr", n, <<col + 1, 0 + 1>>) ELSE One("x10", n + 32, <<X10(col), X10(0)>>)
  <2>1. MouseMotion(b, col, 0, mods, sgr) = <<c>>
    BY CodeIs DEF MouseMotion
  <2> HIDE DEF n
  <2>2. sgr => TellsCell(c, col, 0)
    BY CodeTells
  <2>3. ~sgr => TellsCell(c, col, 0)
    BY BytesTell
  <2> QED BY <2>1, <2>2, <2>3
<1> QED BY <1>1, <1>2

LEMMA CellsJoined ==
  ASSUME NEW c, NEW d, NEW col, NEW row, TellsCell(c, col, row), TellsCell(d, col, row)
  PROVE  CellsTold(<<c>>, col, row) /\ CellsTold(<<c>> \o <<d>>, col, row) /\ CellsTold(<<>>, col, row)
<1>1. /\ DOMAIN <<c>> = {1} /\ <<c>>[1] = c
      /\ DOMAIN <<>> = {}
  OBVIOUS
<1>2. DOMAIN (<<c>> \o <<d>>) = {1, 2} /\ (<<c>> \o <<d>>)[1] = c /\ (<<c>> \o <<d>>)[2] = d
  OBVIOUS
<1> HIDE DEF TellsCell
<1> QED BY <1>1, <1>2 DEF CellsTold

LEMMA InputTells ==
  ASSUME NEW m \in MouseRequests, NEW sgr
  PROVE  CellsTold(MouseInput(m, sgr), m.col, m.row)
<1> DEFINE event(press) == MouseEvent(m.button, press, m.col, m.row, m.mods, sgr)
           wheel(b) == Repeated(MouseEvent(b, TRUE, m.col, m.row, m.mods, sgr), m.repeat)
<1>1. m.col \in Nat /\ m.row = 0 /\ m.repeat \in 0 .. 2
      /\ m.kind \in {"press", "release", "click", "move", "wheel-up", "wheel-down"}
  BY KeyEncodingAssumption DEF MouseRequests
<1>2. \A b, press : \E c : MouseEvent(b, press, m.col, m.row, m.mods, sgr) = <<c>> /\ TellsCell(c, m.col, m.row)
  BY <1>1, EventTells
<1>3. \E c : MouseMotion(m.button, m.col, m.row, m.mods, sgr) = <<c>> /\ TellsCell(c, m.col, m.row)
  BY <1>1, EventTells
<1>4. \A press : CellsTold(event(press), m.col, m.row)
  BY <1>2, CellsJoined
<1>5. CellsTold(event(TRUE) \o event(FALSE), m.col, m.row)
  BY <1>2, CellsJoined
<1>6. ASSUME m.repeat # 0, NEW b PROVE CellsTold(wheel(b), m.col, m.row)
  <2> DEFINE e == MouseEvent(b, TRUE, m.col, m.row, m.mods, sgr)
             s == [i \in 1 .. m.repeat |-> e]
  <2>1. PICK c : e = <<c>> /\ TellsCell(c, m.col, m.row)
    BY <1>2
  <2>2. wheel(b) = FlattenSeq(s)
    BY DEF Repeated
  <2> HIDE DEF e
  <2>3. Len(s) = m.repeat /\ s[1] = e /\ (m.repeat = 2 => s[2] = e)
    BY <1>1, <1>6
  <2>4. m.repeat = 1 \/ m.repeat = 2
    BY <1>1, <1>6
  <2> HIDE DEF s
  <2>5. FlattenSeq(s) = <<c>> \/ FlattenSeq(s) = <<c>> \o <<c>>
    BY <2>1, <2>3, <2>4, FlattenFew
  <2> HIDE DEF wheel
  <2> QED BY <2>1, <2>2, <2>5, CellsJoined
<1>7. CellsTold(<<>>, m.col, m.row)
  BY <1>3, CellsJoined
<1>8. CellsTold(MouseMotion(m.button, m.col, m.row, m.mods, sgr), m.col, m.row)
  BY <1>3, CellsJoined, SMTT(30)
<1> DEFINE r == MouseInput(m, sgr)
<1>9. \/ r = <<>>
      \/ m.repeat # 0 /\ (r = wheel("up") \/ r = wheel("down"))
      \/ r = MouseMotion(m.button, m.col, m.row, m.mods, sgr) \/ r = event(TRUE) \/ r = event(FALSE)
      \/ r = event(TRUE) \o event(FALSE)
  <2> HIDE DEF event, wheel
  <2>1. r = CASE m.repeat = 0 \/ (m.kind \in {"press", "release", "click"} /\ m.button = "none") -> <<>>
              [] m.repeat # 0 /\ m.kind = "wheel-up" -> wheel("up")
              [] m.repeat # 0 /\ m.kind = "wheel-down" -> wheel("down")
              [] m.repeat # 0 /\ m.kind = "move" -> MouseMotion(m.button, m.col, m.row, m.mods, sgr)
              [] m.repeat # 0 /\ m.button # "none" /\ m.kind = "press" -> event(TRUE)
              [] m.repeat # 0 /\ m.button # "none" /\ m.kind = "release" -> event(FALSE)
              [] OTHER -> event(TRUE) \o event(FALSE)
    BY DEF MouseInput, event, wheel
  <2> HIDE DEF r
  <2>2. ASSUME m.repeat = 0 \/ (m.kind \in {"press", "release", "click"} /\ m.button = "none") PROVE r = <<>>
    <3>1. CASE m.repeat = 0
      BY <2>1, <3>1
    <3>2. CASE m.kind \in {"press", "release", "click"} /\ m.button = "none"
      <4>1. m.kind # "wheel-up" /\ m.kind # "wheel-down" /\ m.kind # "move"
        BY <3>2
      <4> QED BY <2>1, <3>2, <4>1
    <3> QED BY <2>2, <3>1, <3>2
  <2>3. ASSUME m.repeat # 0, ~(m.kind \in {"press", "release", "click"} /\ m.button = "none")
        PROVE  \/ r = wheel("up") \/ r = wheel("down")
               \/ r = MouseMotion(m.button, m.col, m.row, m.mods, sgr) \/ r = event(TRUE) \/ r = event(FALSE)
               \/ r = event(TRUE) \o event(FALSE)
    <3>1. CASE m.kind = "wheel-up"
      BY <2>1, <2>3, <3>1
    <3>2. CASE m.kind = "wheel-down"
      BY <2>1, <2>3, <3>2
    <3>3. CASE m.kind = "move"
      BY <2>1, <2>3, <3>3
    <3>4. CASE m.kind = "press"
      BY <2>1, <2>3, <3>4
    <3>5. CASE m.kind = "release"
      BY <2>1, <2>3, <3>5
    <3>6. CASE m.kind = "click"
      BY <2>1, <2>3, <3>6
    <3> QED BY <1>1, <3>1, <3>2, <3>3, <3>4, <3>5, <3>6
  <2> QED BY <2>2, <2>3
<1> HIDE DEF event, wheel, r
<1>10. CellsTold(r, m.col, m.row)
  BY <1>4, <1>5, <1>6, <1>7, <1>8, <1>9
<1> QED BY <1>10 DEF r

(* What was read last was sent by one of the ways there are.               *)
SentByUi ==
  \E protocol : \E key \in KeyNames, mods \in SUBSET Modifiers :
    /\ read = [by |-> "ui", what |-> [key |-> key, mods |-> mods, protocol |-> protocol],
               codes |-> Pressed(key, mods, protocol)]
    /\ read.codes # <<>>

SentByKeys ==
  \E spec : \E specs \in {<<spec>>, <<spec, spec>>} :
    read = [by |-> "keys", what |-> specs, codes |-> EncodedSpecs(specs)] /\ read.codes # <<>>

SentByMouse == \E m \in MouseRequests : read.by = "mouse" /\ read.what = m /\ CellsTold(read.codes, m.col, m.row)

ReadSound == read = Nothing \/ SentByUi \/ SentByKeys \/ SentByMouse

LEMMA SentBy ==
  ASSUME ReadSound
  PROVE  /\ read.by = "ui" => SentByUi
         /\ read.by = "keys" => SentByKeys
         /\ read.by = "mouse" => SentByMouse
<1>1. read = Nothing => read.by = "nobody"
  BY DEF Nothing
<1>2. SentByUi => read.by = "ui"
  BY DEF SentByUi
<1>3. SentByKeys => read.by = "keys"
  BY DEF SentByKeys
<1>4. SentByMouse => read.by = "mouse"
  BY DEF SentByMouse
<1> QED BY <1>1, <1>2, <1>3, <1>4 DEF ReadSound

LEMMA ReadStep == ReadSound /\ [KeysNext]_keyVars => ReadSound'
<1> SUFFICES ASSUME ReadSound, [KeysNext]_keyVars PROVE ReadSound'
  OBVIOUS
<1>1. ASSUME read' = read PROVE ReadSound'
  BY <1>1 DEF ReadSound, SentByUi, SentByKeys, SentByMouse
<1>2. ASSUME read' = Nothing PROVE ReadSound'
  BY <1>2 DEF ReadSound
<1>3. ASSUME PressKey PROVE ReadSound'
  <2>1. PICK key \in KeyNames, mods \in SUBSET Modifiers :
          Reads("ui", [key |-> key, mods |-> mods, protocol |-> mirror.protocol], Pressed(key, mods, mirror.protocol))
    BY <1>3 DEF PressKey
  <2>2. /\ read' = [by |-> "ui", what |-> [key |-> key, mods |-> mods, protocol |-> mirror.protocol],
                    codes |-> Pressed(key, mods, mirror.protocol)]
        /\ Pressed(key, mods, mirror.protocol) # <<>>
    BY <2>1 DEF Reads
  <2>3. read'.codes # <<>>
    BY <2>2
  <2> QED BY <2>2, <2>3 DEF ReadSound, SentByUi
<1>4. ASSUME SendKeys PROVE ReadSound'
  <2>1. PICK spec \in Specs : \E specs \in {<<spec>>, <<spec, spec>>} : Reads("keys", specs, EncodedSpecs(specs))
    BY <1>4 DEF SendKeys
  <2>2. PICK specs \in {<<spec>>, <<spec, spec>>} : Reads("keys", specs, EncodedSpecs(specs))
    BY <2>1
  <2>3. read' = [by |-> "keys", what |-> specs, codes |-> EncodedSpecs(specs)] /\ EncodedSpecs(specs) # <<>>
    BY <2>2 DEF Reads
  <2>4. read'.codes # <<>>
    BY <2>3
  <2> QED BY <2>3, <2>4 DEF ReadSound, SentByKeys
<1>5. ASSUME NEW m \in MouseRequests, NEW codes, Reads("mouse", m, codes), CellsTold(codes, m.col, m.row)
      PROVE  ReadSound'
  <2>1. read'.by = "mouse" /\ read'.what = m /\ read'.codes = codes
    BY <1>5 DEF Reads
  <2>2. CellsTold(read'.codes, m.col, m.row)
    BY <1>5, <2>1
  <2> QED BY <2>1, <2>2 DEF ReadSound, SentByMouse
<1>6. ASSUME SendMouse PROVE ReadSound'
  <2>1. PICK m \in MouseRequests : Reads("mouse", m, MouseInput(m, modes.sgr))
    BY <1>6 DEF SendMouse
  <2> QED BY <1>5, <2>1, InputTells
<1>7. ASSUME PressMouse PROVE ReadSound'
  <2>1. PICK m \in MouseRequests :
          Reads("mouse", m, MouseEvent(m.button, m.kind = "press", m.col, m.row, m.mods, mirror.sgr))
    BY <1>7 DEF PressMouse
  <2>2. m.col \in Nat /\ m.row = 0
    BY KeyEncodingAssumption DEF MouseRequests
  <2>3. \E c : /\ MouseEvent(m.button, m.kind = "press", m.col, m.row, m.mods, mirror.sgr) = <<c>>
              /\ TellsCell(c, m.col, m.row)
    BY <2>2, EventTells
  <2>4. CellsTold(MouseEvent(m.button, m.kind = "press", m.col, m.row, m.mods, mirror.sgr), m.col, m.row)
    BY <2>3, CellsJoined
  <2> QED BY <1>5, <2>1, <2>4
<1> QED BY <1>1, <1>2, <1>3, <1>4, <1>6, <1>7 DEF KeysNext, Negotiate, Mirrored, Await, keyVars

(* What was read is what one of the four ways to send makes of a press, a  *)
(* key spec or a request of the mouse.                                     *)
THEOREM ReadInvariant == KeysSpec => []ReadSound
<1>1. KeysInit => ReadSound
  BY DEF KeysInit, ReadSound
<1> QED BY <1>1, ReadStep, PTL DEF KeysSpec

(* An application takes no key for another one, and reads the cell of the  *)
(* mouse, wherever the code it is sent could say so (key_event_to_bytes,   *)
(* encode_mouse_event).                                                    *)
THEOREM ToldApartHolds == KeysSpec => []ToldApart
<1>1. ReadSound => KeysToldApart
  <2> SUFFICES ASSUME ReadSound, read.by = "ui", NEW key \in KeyNames, NEW mods \in SUBSET Modifiers,
                      read.codes = Pressed(key, mods, read.what.protocol)
               PROVE  LET p == read.what
                          q == [key |-> key, mods |-> mods, protocol |-> p.protocol]
                      IN  p = q \/ Alike(p, q) \/ Alike(q, p)
    BY DEF KeysToldApart
  <2>6. PICK protocol : \E k \in KeyNames, m \in SUBSET Modifiers :
          /\ read = [by |-> "ui", what |-> [key |-> k, mods |-> m, protocol |-> protocol], codes |-> Pressed(k, m, protocol)]
          /\ read.codes # <<>>
    BY SentBy DEF SentByUi
  <2>1. PICK k \in KeyNames, m \in SUBSET Modifiers :
          /\ read = [by |-> "ui", what |-> [key |-> k, mods |-> m, protocol |-> protocol], codes |-> Pressed(k, m, protocol)]
          /\ read.codes # <<>>
    BY <2>6
  <2>2. /\ read.what = [key |-> k, mods |-> m, protocol |-> protocol] /\ read.what.protocol = protocol
        /\ read.codes = Pressed(k, m, protocol)
    BY <2>1
  <2>3. Pressed(key, mods, protocol) = Pressed(k, m, protocol) /\ Pressed(k, m, protocol) # <<>>
    BY <2>1, <2>2
  <2>4. FirstOf(k, m, protocol) = FirstOf(key, mods, protocol)
    BY <2>3, PressedFirst
  <2>5. (k \in DOMAIN Literals => "ctrl" \notin m) /\ (key \in DOMAIN Literals => "ctrl" \notin mods)
    BY <2>3, PressedFirst
  <2> QED BY <2>2, <2>4, <2>5, FirstTells
<1>2. ReadSound => CellsToldApart
  <2> SUFFICES ASSUME ReadSound, read.by = "mouse" PROVE CellsToldApart
    BY DEF CellsToldApart
  <2>1. CellsTold(read.codes, read.what.col, read.what.row)
    BY SentBy DEF SentByMouse
  <2> QED BY <2>1 DEF CellsTold, TellsCell, CellsToldApart
<1>3. ReadSound => ToldApart
  BY <1>1, <1>2 DEF ToldApart
<1> QED BY <1>3, ReadInvariant, PTL

(* A key that is sent by its name is read as the key that is pressed, but  *)
(* for Alt and Control with what types, and Enter with a modifier before   *)
(* anything was negotiated (key_spec_to_bytes against the UI's encoder).   *)
THEOREM SentAsTypedHolds == KeysSpec => []SentAsTyped
<1>1. ReadSound => SentAsTyped
  <2> DEFINE k == Parsed(read.what[1])
             s == KeySpecBytes(k.key, k.mods, "csi-u")
             r == Pressed(k.key, k.mods, modes.protocol)
             types == k.key \in DOMAIN Letters \cup DOMAIN Literals \cup {"Space"}
             Same == \/ s = r
                     \/ types /\ "alt" \in k.mods
                     \/ types /\ k.key \notin DOMAIN Letters /\ k.mods # {}
                     \/ k.key = "Enter" /\ k.mods # {} /\ modes.protocol = "legacy"
  <2> SUFFICES ASSUME ReadSound, read.by = "keys", Len(read.what) = 1 PROVE read.codes = s /\ Same
    BY DEF SentAsTyped
  <2>1. PICK spec : \E specs \in {<<spec>>, <<spec, spec>>} :
          read = [by |-> "keys", what |-> specs, codes |-> EncodedSpecs(specs)] /\ read.codes # <<>>
    BY SentBy DEF SentByKeys
  <2>2. Len(<<spec, spec>>) = 2 /\ <<spec>>[1] = spec /\ DOMAIN <<spec>> = {1}
    OBVIOUS
  <2>3. read.what = <<spec>> /\ read.codes = EncodedSpecs(<<spec>>) /\ EncodedSpecs(<<spec>>) # <<>>
    BY <2>1, <2>2
  <2>4. k = Parsed(spec)
    BY <2>2, <2>3
  <2> HIDE DEF k
  <2> DEFINE keys == [i \in DOMAIN <<spec>> |-> Parsed(<<spec>>[i])]
             bytes == [i \in DOMAIN keys |-> KeySpecBytes(keys[i].key, keys[i].mods, "csi-u")]
  <2>5. keys[1] = k /\ DOMAIN keys = {1} /\ 1 .. 1 = {1}
    BY <2>2, <2>4
  <2>6. EncodedSpecs(<<spec>>) = IF NotAKey \in ToSet(keys) THEN <<>> ELSE FlattenSeq(bytes)
    BY DEF EncodedSpecs
  <2> HIDE DEF keys
  <2>7. k # NotAKey
    BY <2>3, <2>5, <2>6 DEF ToSet
  <2>8. Len(bytes) = 1 /\ bytes[1] = s
    BY <2>5
  <2> HIDE DEF bytes
  <2>9. FlattenSeq(bytes) = s
    BY <2>8, FlattenFew
  <2>10. read.codes = s
    BY <2>3, <2>6, <2>9
  <2>11. k.key \in KeyNames
    BY <2>4, <2>7 DEF Parsed
  <2> HIDE DEF s, r, types
  <2>12. ASSUME k.key \in SpecialKeys \ {"Space"} PROVE Same
    <3>1. s = <<FirstOf(k.key, k.mods, "csi-u")>> /\ r = <<FirstOf(k.key, k.mods, modes.protocol)>>
      BY <2>11, <2>12, SpecIs, PressedIs DEF s, r
    <3>2. FirstOf(k.key, k.mods, "csi-u") = FirstOf(k.key, k.mods, modes.protocol)
          \/ (k.key = "Enter" /\ k.mods # {} /\ modes.protocol = "legacy")
      BY <2>11, <2>12, FirstIs DEF SpecialKeys
    <3> QED BY <3>1, <3>2
  <2>13. ASSUME k.key = "Space" PROVE Same
    <3>1. types /\ k.key \notin DOMAIN Letters /\ k.key \in SpecialKeys
      BY <2>11, <2>13, KeyKinds DEF types, SpecialKeys
    <3>2. k.mods = {} => s = r
      BY <2>11, <2>13, <3>1, SpecIs, PressedIs DEF s, r
    <3> QED BY <3>1, <3>2
  <2>14. ASSUME k.key \in DOMAIN Letters PROVE Same
    <3>1. types
      BY <2>14 DEF types
    <3>2. ASSUME "alt" \notin k.mods PROVE s = r
      <4>1. FirstOf(k.key, k.mods, "csi-u") = FirstOf(k.key, k.mods, modes.protocol)
        BY <2>11, <2>14, FirstIs
      <4> QED BY <2>11, <2>14, <3>2, <4>1, SpecIs, PressedIs DEF s, r
    <3> QED BY <3>1, <3>2
  <2>15. ASSUME k.key \in DOMAIN Literals PROVE Same
    <3>1. types /\ k.key \notin DOMAIN Letters
      BY <2>11, <2>15, KeyKinds DEF types
    <3>2. ASSUME k.mods = {} PROVE s = r
      <4>1. FirstOf(k.key, k.mods, "csi-u") = FirstOf(k.key, k.mods, modes.protocol)
        BY <2>11, <2>15, FirstIs
      <4> QED BY <2>11, <2>15, <3>2, <4>1, SpecIs, PressedIs DEF s, r
    <3> QED BY <3>1, <3>2
  <2> HIDE DEF Same
  <2> QED BY <2>10, <2>11, <2>12, <2>13, <2>14, <2>15 DEF KeyNames
<1> QED BY <1>1, ReadInvariant, PTL

(* Both: an application reads what was typed, sent by name or clicked.     *)
THEOREM ReadAsMeantHolds == KeysSpec => []ReadAsMeant
<1>1. ToldApart /\ SentAsTyped => ReadAsMeant
  BY DEF ReadAsMeant
<1> QED BY <1>1, ToldApartHolds, SentAsTypedHolds, PTL
================================================================================
