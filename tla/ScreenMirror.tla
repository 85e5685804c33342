----------------------------- MODULE ScreenMirror -----------------------------
(***************************************************************************)
(* A session's screen in the host and its mirror in a UI.  The host reads  *)
(* output chunk by chunk, the UI gets what a tick drained in one piece; on *)
(* attach the UI builds its mirror from a snapshot.  Resizes and clears    *)
(* are made by the UI on its mirror and then asked of the host.            *)
(*                                                                         *)
(* The host outlives a panic of its parser: the broadcaster catches it and *)
(* goes on.  What the tick had taken by then, of this session and of those *)
(* before it, is drawn in the host and lost to the mirrors.  A UI whose    *)
(* parser panics is gone.                                                  *)
(*                                                                         *)
(* Output reaches the mirror in order and completely: OutputStream says    *)
(* when it does.                                                           *)
(***************************************************************************)
EXTENDS ScreenBuffer

CONSTANTS
  Sizes,          \* sizes of a screen: pairs of columns and rows
  Controls,       \* control functions in the output
  Ticks,          \* longer output: chunks that one tick may drain together
  Preludes,       \* output before the behaviour begins
  MaxHistory,     \* rows of history the host keeps
  MaxSteps,       \* bound on the steps of a behaviour
  NoMirror        \* no UI is attached

ASSUME MirrorAssumption ==
  /\ Sizes \subseteq (Nat \ {0}) \X (Nat \ {0}) /\ Sizes # {}
  /\ MaxHistory \in Nat /\ MaxSteps \in Nat

VARIABLES
  host,           \* the session's screen
  mirror,         \* the UI's, or NoMirror
  asked,          \* requests of the UI the host has not handled yet
  left,           \* where the cursor was when the alternate screen was entered
  same,           \* the mirror began with all the host's state and kept up
  lost,           \* a panic in the host kept output from the mirror
  steps

vars == <<host, mirror, asked, left, same, lost, steps>>

Attached == mirror # NoMirror

-----------------------------------------------------------------------------
(* What a screen is once the chunks are read; nothing is read after a      *)
(* panic.  Chunks behind the one that panics come with a later drain.      *)
Drained(s, chunks) ==
  FoldLeft(LAMBDA t, chunk : IF t.panicked THEN t ELSE Advance(t, chunk), s, chunks)

(* Building a mirror: rebuild_from_snapshot.                               *)

BlankLines(n) == FlattenSeq([i \in 1 .. n |-> <<Plainly("CR"), Plainly("LF")>>])

(* The history is replayed and pushed off the screen by blank lines, then  *)
(* the snapshot is drawn.                                                  *)
Rebuilt(s) ==
  LET seeds == IF s.scrollback = <<>> THEN <<>> ELSE <<History(s), BlankLines(s.rows)>>
  IN  Drained(Fresh(s.cols, s.rows, AtLeast(MaxHistory, Len(s.scrollback))),
              seeds \o <<Snapshot(s)>>)

(* What a snapshot leaves out: pen, margins, saved cursors, the cursor     *)
(* past the last column, and the screen under the alternate one.           *)
Plainest(s) ==
  /\ s.col < s.cols /\ s.top = 0 /\ s.bottom = s.rows - 1
  /\ s.saved = NoCursor /\ s.altSaved = NoCursor /\ ~s.onAlternate

(* Both halves of every wide cluster are there.                            *)
PairedRow(row) ==
  \A c \in DOMAIN row :
    /\ row[c].wide = "head" => c + 1 \in DOMAIN row /\ row[c + 1].wide = "rest"
    /\ row[c].wide = "rest" => c - 1 \in DOMAIN row /\ row[c - 1].wide = "head"

Paired(s) == \A r \in 0 .. (s.rows - 1) : PairedRow(RowOf(Active(s), s.cols, r))

-----------------------------------------------------------------------------
Running == steps < MaxSteps

Survived(s) == [s EXCEPT !.panicked = FALSE]

(* Chunks of output, drained by one tick; the mirror gets them joined, or  *)
(* nothing of them when the tick panics here or later, in a session that   *)
(* is drained after this one.                                              *)
Drain(chunks, panicsLater) ==
  LET drawn == Drained(host, chunks)
      follows == Attached /\ ~drawn.panicked /\ ~panicsLater
      copy == Advance(mirror, FlattenSeq(chunks))
  IN  /\ Running
      /\ host' = Survived(drawn)
      /\ mirror' = IF ~follows THEN mirror ELSE IF copy.panicked THEN NoMirror ELSE copy
      /\ left' = IF host'.onAlternate /\ ~host.onAlternate
                   THEN [row |-> host.row, col |-> host.col, pen |-> host.pen] ELSE left
      /\ same' = (same /\ asked = <<>> /\ Len(chunks) = 1)
      /\ lost' = (lost \/ (Attached /\ ~follows))
      /\ steps' = steps + 1
      /\ UNCHANGED asked

Attach ==
  /\ Running /\ asked = <<>>
  /\ mirror' = Rebuilt(host)
  /\ same' = (Plainest(host) /\ Paired(host))
  /\ lost' = FALSE
  /\ steps' = steps + 1
  /\ UNCHANGED <<host, asked, left>>

Apply(s, request) ==
  CASE request.op = "resize" -> Resize(s, request.n, request.m)
    [] request.op = "clear-buffer" -> ClearBuffer(s)
    [] request.op = "clear-scrollback" -> ClearScrollback(s)

(* The UI resizes or clears its mirror and tells the host.                 *)
Ask(request) ==
  /\ Running /\ Attached /\ asked = <<>>
  /\ mirror' = Apply(mirror, request)
  /\ asked' = Append(asked, request)
  /\ steps' = steps + 1
  /\ UNCHANGED <<host, left, same, lost>>

Bug_OnlyThePtyResized ==
  /\ asked # <<>>
  /\ host' = IF Head(asked).op = "resize" THEN host ELSE Apply(host, Head(asked))
  /\ asked' = Tail(asked)
  /\ UNCHANGED <<mirror, left, same, lost, steps>>

(* The host handles it.                                                    *)
Handle ==
  /\ asked # <<>>
  /\ host' = Apply(host, Head(asked))
  /\ asked' = Tail(asked)
  /\ UNCHANGED <<mirror, left, same, lost, steps>>

(* The broadcaster takes the notifications of the host's screen.           *)
Notify ==
  /\ host.notes > 0
  /\ host' = DrainNotifications(host)
  /\ UNCHANGED <<mirror, asked, left, same, lost, steps>>

Requests ==
  {At("resize", size[1], size[2]) : size \in Sizes}
    \cup {Plainly("clear-buffer"), Plainly("clear-scrollback")}

Init ==
  /\ \E size \in Sizes, text \in Preludes :
       host = Survived(Advance(Fresh(size[1], size[2], MaxHistory), text))
  /\ mirror = NoMirror /\ asked = <<>> /\ left = NoCursor
  /\ same = FALSE /\ lost = FALSE /\ steps = 0

Next ==
  \/ \E chunks \in {<<<<c>>>> : c \in Controls} \cup Ticks, panicsLater \in {FALSE, Attached} :
       Drain(chunks, panicsLater)
  \/ Attach
  \/ \E request \in Requests : Ask(request)
  \/ Handle
  \/ Notify

Spec == Init /\ [][Next]_vars

-----------------------------------------------------------------------------
(* Properties.                                                             *)

(* Cells name links and images that exist, on both screens and in the      *)
(* history, whatever resets and clears come between.                       *)
Resolves(s) ==
  \A cell \in Range(s.primary) \cup Range(s.alternate)
                \cup UNION {Range(row) : row \in ToSet(s.scrollback)} :
    cell.link <= Len(s.links) /\ cell.image <= s.images

(* Grids have the screen's size, the cursor is on it or waits to wrap, the *)
(* margins are in order.                                                   *)
ScreenOK(s) ==
  /\ DOMAIN s.primary = 0 .. (s.cols * s.rows - 1) /\ DOMAIN s.alternate = DOMAIN s.primary
  /\ s.row \in 0 .. (s.rows - 1) /\ s.col \in 0 .. (s.cols + 1)
  /\ 0 <= s.top /\ s.top <= s.bottom /\ s.bottom < s.rows
  /\ Len(s.scrollback) <= s.max /\ s.pending = <<>> /\ ~s.panicked /\ Resolves(s)

(* Both screens are sound after any control functions.                      *)
TypeOK ==
  /\ ScreenOK(host) /\ (Attached => ScreenOK(mirror))
  /\ same \in BOOLEAN /\ lost \in BOOLEAN /\ steps \in 0 .. MaxSteps

ScreenText(s) == [r \in 0 .. (s.rows - 1) |-> TextOf(RowOf(Active(s), s.cols, r), s.cols)]

(* A mirror that began with a plain screen and got every chunk by itself   *)
(* lives on and shows the host's text, through scrolling, margins, wraps,  *)
(* resizes and the alternate screen.  The gap: a tick that panicked, on    *)
(* this session's output or on another's, after which the mirror lacks     *)
(* what had been taken until another attach mends it.                      *)
MirrorFollows ==
  /\ TypeOK
  /\ same /\ ~lost /\ asked = <<>> =>
    /\ Attached
    /\ ScreenText(mirror) = ScreenText(host)
    /\ mirror.row = host.row /\ mirror.col = host.col

(* A snapshot draws what the host shows: text, pens and cursor, provided   *)
(* no wide cluster lost a half.                                            *)
SnapshotDraws ==
  Paired(host) =>
    LET drawn == Advance(Fresh(host.cols, host.rows, MaxHistory), Snapshot(host))
    IN  /\ ScreenText(drawn) = ScreenText(host)
        /\ \A i \in DOMAIN Active(host) :
             Active(host)[i].wide # "rest" => Active(drawn)[i].pen = Active(host)[i].pen
        /\ drawn.row = host.row /\ drawn.col = AtMost(host.col, host.cols - 1)
        /\ drawn.onAlternate = host.onAlternate /\ drawn.title = host.title
        /\ drawn.modes = [host.modes EXCEPT !.keyboard = "legacy"]

(* The lines of s's history as its own width shows them.                   *)
HistoryText(s) == [i \in DOMAIN s.scrollback |-> TextOf(s.scrollback[i], s.cols)]

BlankText(s) == TextOf(RowOf(NewGrid(s.cols, 1), s.cols, 0), s.cols)

Replayable(row, s) == PairedRow(row) /\ Cardinality(DOMAIN row) = s.cols

(* The history of a new mirror is the host's and at most one blank line,   *)
(* when no resize or broken cluster changed the width of its rows.         *)
HistoryReplayed ==
  [][Attach /\ Paired(host) /\ (\A row \in ToSet(host.scrollback) : Replayable(row, host)) =>
       \E blanks \in {<<>>, <<BlankText(host)>>} :
         HistoryText(mirror') = Newest(HistoryText(host) \o blanks, mirror'.max)]_vars

(* A control function panics, and so keeps output from the mirror, only    *)
(* when the cursor is past the last column or below the margins.           *)
PanicsOnlyOffGrid ==
  [](Running => \A c \in Controls :
       Panics(host, c) => host.col >= host.cols \/ host.row > host.bottom + 1)

(* Output on the alternate screen leaves the primary one alone, and        *)
(* leaving it, other than by a reset, puts cursor and pen back to what     *)
(* they were when it was entered, whatever was saved and restored there,   *)
(* at the edge of a screen that shrank meanwhile.                          *)
AlternateScreen ==
  [][/\ host.onAlternate /\ host'.onAlternate /\ asked' = asked
          => host'.primary = host.primary /\ host'.scrollback = host.scrollback
     /\ host.onAlternate /\ ~host'.onAlternate /\ host' # Reset(host)
          => /\ host'.row = AtMost(left.row, host.rows - 1)
             /\ host'.col = AtMost(left.col, host.cols - 1)
             /\ host'.pen = left.pen]_vars

(* Lines enter the history only by scrolling off the top of a screen       *)
(* without margins, in their order, and none of them is lost but the       *)
(* oldest.                                                                 *)
LinesKept ==
  [][host'.scrollback \notin {host.scrollback, <<>>} =>
       /\ host.top = 0 /\ host.bottom = host.rows - 1
       /\ \E n \in 1 .. host.rows :
            host'.scrollback =
              Newest(host.scrollback \o [i \in 1 .. n |-> RowOf(host.primary, host.cols, i - 1)],
                     host.max)]_vars

(* The history is what scrolled off, and a new mirror gets it.              *)
HistoryKept == LinesKept /\ HistoryReplayed

(* Where a tick cuts the output does not matter to text and control        *)
(* functions: only clusters cut in two and images feel it.                 *)
ChunksJoin ==
  \A pair \in {chunks \in Ticks : Len(chunks) = 2} :
    (\A c \in ToSet(FlattenSeq(pair)) : c.op # "IMAGE") /\ pair[2][1].arg \notin Marks =>
      Drained(host, pair) = Drained(host, <<FlattenSeq(pair)>>)

(* What a screen draws depends on the functions it is fed, not on how they *)
(* came: all in one snapshot, or cut in two anywhere.                      *)
DrawnAlike == SnapshotDraws /\ ChunksJoin

(* A mirror draws what the host shows, from its snapshot on.               *)
MirrorDraws == MirrorFollows /\ DrawnAlike

(* What is not on the screen is kept: history, the primary screen under    *)
(* the alternate one; and no step off the grid passes for one on it.       *)
ScreensKept == HistoryKept /\ PanicsOnlyOffGrid /\ AlternateScreen

=============================================================================
