------------------------------ MODULE PaneStatus ------------------------------
(***************************************************************************)
(* What the panes of a workspace report about their work, who hears of it, *)
(* and what a UI shows: attention, status and titles.                      *)
(*                                                                         *)
(* Clients notify, set and clear; prompts mark a pane as working; programs *)
(* set titles and raise notifications, which the tick of the broadcaster   *)
(* finds.  Every change is an event of the UI's queue, but the answer to   *)
(* an attach goes past that queue, as in OutputStream.  Messages, sources  *)
(* and progress, which travel like the rest, are left out.                 *)
(***************************************************************************)
EXTENDS Naturals, Sequences, SequencesExt, FiniteSets

CONSTANTS
  Panes,          \* panes of the workspace, in the order of its tabs: 1 .. n
  Titles,         \* titles programs set
  Reports,        \* statuses clients set: records with some of phase, text, queue, completion
  MaxQueue,       \* bound on every queue
  MaxSteps        \* bound on the steps of a behaviour

ASSUME PaneStatusAssumption ==
  /\ MaxQueue \in Nat /\ MaxSteps \in Nat
  /\ IsFiniteSet(Panes) /\ Panes = 1 .. Cardinality(Panes) /\ Panes # {}
  /\ Titles \subseteq STRING \ {""}

(* A status sets something or leaves it: "" and 2 stand for what no client *)
(* has set.                                                                *)
ASSUME ReportsAreStatuses ==
  \A report \in Reports :
    /\ DOMAIN report \subseteq {"phase", "text", "queue", "completion"}
    /\ \A f \in DOMAIN report :
         /\ f \in {"phase", "text"} => report[f] \in STRING \ {""}
         /\ f = "queue" => report[f] \in Nat \ {2}
         /\ f = "completion" => report[f] \in STRING

VARIABLES
  record,         \* by pane: what the host keeps
  screen,         \* by pane: title, notifications not drained, whether its child reads
  previous,       \* by pane: the title the broadcaster last compared with
  pending,        \* pending_broadcasts
  queue,          \* events for the UI that its connection has not sent
  inbox,          \* frames sent to the UI
  asked,          \* requests of the UI the host has not handled
  shown,          \* by pane: what the UI keeps
  focus,          \* the pane focused in the UI
  gap,            \* by pane: a change whose event was never queued, or a title not compared anew
  seen,           \* by pane: a notification that found its pane focused
  prompted,       \* by pane: an accepted prompt is the last that happened to it
  steps

host == <<record, screen, previous, pending, gap, prompted>>
ui == <<shown, focus, seen>>
vars == <<record, screen, previous, pending, queue, inbox, asked, shown, focus, gap, seen, prompted, steps>>

-----------------------------------------------------------------------------
(* Records and events.                                                     *)

Fresh == [attention |-> "active", phase |-> "", text |-> "", queue |-> 2, completion |-> ""]

(* No phase or text is "", no queue is 2: such a field is not sent.        *)
Given(field, value) == IF field = "queue" THEN value # 2 ELSE value # ""

(* set_pane_metadata: only what is given.                                  *)
WithStatus(r, report) == [f \in DOMAIN r |-> IF f \in DOMAIN report THEN report[f] ELSE r[f]]

Bug_CompletionKept(r) ==
  [r EXCEPT !.phase = "working", !.text = "prompt sent", !.queue = 1, !.attention = "active"]

(* mark_pane_work_started.                                                 *)
WorkStarted(r) ==
  [attention |-> "active", phase |-> "working", text |-> "prompt sent", queue |-> 1, completion |-> ""]

(* handle_notify: what a state says about the work; text only with a       *)
(* message.                                                                *)
Notified(r, state) ==
  LET status == CASE state = "done" -> [phase |-> "done", queue |-> 0, completion |-> "done"]
                  [] state = "active" -> <<>>
                  [] OTHER -> [phase |-> state, queue |-> 0]
  IN  [WithStatus(r, status) EXCEPT !.attention = state]

(* The UI before its first snapshot, and its request for one; its other    *)
(* requests are panes whose attention it clears.                           *)
Unknown == [attention |-> "active", phase |-> "", text |-> "", queue |-> 2, title |-> ""]

Attach == 0

Attention(p, r) == [kind |-> "attention", pane |-> p, state |-> r.attention]
Metadata(p, r) == [kind |-> "metadata", pane |-> p, phase |-> r.phase, text |-> r.text, queue |-> r.queue]
Title(p, t) == [kind |-> "title", pane |-> p, title |-> t]
Snapshot ==
  [kind |-> "snapshot",
   panes |-> [p \in Panes |-> [attention |-> record[p].attention, phase |-> record[p].phase,
                               text |-> record[p].text, queue |-> record[p].queue, title |-> screen[p].title]]]

(* wait_condition_matches.                                                 *)
Matches(condition, r) ==
  CASE condition = "ready" ->
         /\ r.attention # "error" /\ r.phase # "error"
         /\ \/ r.phase \in {"idle", "done"} \/ r.attention = "done"
            \/ r.text = "ready" \/ r.completion # ""
            \/ r.phase \notin {"working", "running", "busy"} /\ r.queue = 0
    [] condition = "idle" -> r.phase = "idle"
    [] condition = "done" -> r.attention = "done" \/ r.phase = "done" \/ r.completion # ""
    [] condition = "needs-attention" -> r.attention = "needs-attention"
    [] condition = "error" -> r.attention = "error" \/ r.phase = "error"
    [] OTHER -> r.queue \in {0, 2}

-----------------------------------------------------------------------------
(* Requests.                                                               *)

Running == steps < MaxSteps /\ steps' = steps + 1

(* The record of a pane changes and events tell.                           *)
Changed(p, r, events) ==
  /\ record' = [record EXCEPT ![p] = r]
  /\ pending' = pending \o events
  /\ Len(pending') <= MaxQueue
  /\ gap' = [gap EXCEPT ![p] = @ \ {e.kind : e \in ToSet(events)}]

(* handle_prompt: marked before the write; a write that fails returns with *)
(* the mark and without events.                                            *)
Prompt(p) ==
  LET r == WorkStarted(record[p])
  IN  /\ Running
      /\ prompted' = [prompted EXCEPT ![p] = screen[p].reads]
      /\ IF screen[p].reads
           THEN Changed(p, r, <<Metadata(p, r), Attention(p, r)>>)
           ELSE /\ record' = [record EXCEPT ![p] = r]
                /\ gap' = [gap EXCEPT ![p] = @ \cup {"metadata", "attention"}]
                /\ UNCHANGED pending
      /\ UNCHANGED <<screen, previous, queue, inbox, asked, ui>>

Notify(p, state) ==
  LET r == Notified(record[p], state)
  IN  /\ Running /\ Changed(p, r, <<Attention(p, r), Metadata(p, r)>>)
      /\ prompted' = [prompted EXCEPT ![p] = FALSE]
      /\ UNCHANGED <<screen, previous, queue, inbox, asked, ui>>

SetStatus(p, report) ==
  LET r == WithStatus(record[p], report)
  IN  /\ Running /\ Changed(p, r, <<Metadata(p, r)>>)
      /\ prompted' = [prompted EXCEPT ![p] = FALSE]
      /\ UNCHANGED <<screen, previous, queue, inbox, asked, ui>>

(* handle_clear_attention, asked for by a client.                          *)
ClearAttention(p) ==
  LET r == [record[p] EXCEPT !.attention = "active"]
  IN  /\ Running /\ Changed(p, r, <<Attention(p, r)>>)
      /\ prompted' = [prompted EXCEPT ![p] = FALSE]
      /\ UNCHANGED <<screen, previous, queue, inbox, asked, ui>>

(* A program sets its title or raises a notification; its child exits, and *)
(* a restart gives the pane one that reads.                                *)
Program(p) ==
  /\ Running
  /\ \/ \E t \in Titles \cup {""} : screen' = [screen EXCEPT ![p].title = t]
     \/ screen[p].notes = 0 /\ screen' = [screen EXCEPT ![p].notes = 1]
     \/ screen' = [screen EXCEPT ![p].reads = ~@]
  /\ UNCHANGED <<record, previous, pending, queue, inbox, asked, ui, gap, prompted>>

(* close and open again: records and screens are new, and their sessions   *)
(* have the numbers of the old ones, under which the broadcaster still     *)
(* keeps titles.  The UI closes with the workspace; another attaches.      *)
Reopen ==
  /\ Running
  /\ record' = [p \in Panes |-> Fresh]
  /\ screen' = [p \in Panes |-> [title |-> "", notes |-> 0, reads |-> TRUE]]
  /\ gap' = [p \in Panes |-> IF previous[p] = "" THEN {} ELSE {"title"}]
  /\ prompted' = [p \in Panes |-> FALSE]
  /\ pending' = <<>> /\ queue' = <<>> /\ inbox' = <<>> /\ asked' = <<Attach>>
  /\ shown' = [p \in Panes |-> Unknown]
  /\ focus' = 1 /\ seen' = [p \in Panes |-> FALSE]
  /\ UNCHANGED previous

-----------------------------------------------------------------------------
(* The tick: what is pending first, then the changes it finds.             *)

Told(p) == IF screen[p].title # previous[p] THEN <<Title(p, screen[p].title)>> ELSE <<>>

Raised(p) ==
  IF screen[p].notes = 0 THEN <<>> ELSE <<[kind |-> "attention", pane |-> p, state |-> "needs-attention"]>>

Asking(p) == IF screen[p].notes = 0 THEN record[p] ELSE [record[p] EXCEPT !.attention = "needs-attention"]

Tick ==
  LET events == pending \o FlattenSeq([p \in Panes |-> Told(p) \o Raised(p)])
  IN  /\ events # <<>> /\ Len(queue) + Len(events) <= MaxQueue
      /\ queue' = queue \o events /\ pending' = <<>>
      /\ previous' = [p \in Panes |-> screen[p].title]
      /\ record' = [p \in Panes |-> Asking(p)]
      /\ screen' = [p \in Panes |-> [screen[p] EXCEPT !.notes = 0]]
      /\ prompted' = [p \in Panes |-> prompted[p] /\ screen[p].notes = 0]
      /\ gap' = [p \in Panes |-> gap[p] \ {e.kind : e \in ToSet(Told(p) \o Raised(p))}]
      /\ UNCHANGED <<inbox, asked, ui, steps>>

(* A tick panics on the output of some session, of this or of another      *)
(* workspace.  It is caught; lost are the events that were pending and     *)
(* those of the panes drained before it, whose titles are compared and     *)
(* whose notifications are taken all the same.                             *)
TickPanics(drained) ==
  LET found(p) == IF p \in drained THEN Told(p) \o Raised(p) ELSE <<>>
      lost(p) == {e \in ToSet(pending) : e.pane = p} \cup ToSet(found(p))
  IN  /\ Running /\ \E p \in Panes : lost(p) # {}
      /\ pending' = <<>>
      /\ previous' = [p \in Panes |-> IF p \in drained THEN screen[p].title ELSE previous[p]]
      /\ record' = [p \in Panes |-> IF p \in drained THEN Asking(p) ELSE record[p]]
      /\ screen' = [p \in Panes |-> IF p \in drained THEN [screen[p] EXCEPT !.notes = 0] ELSE screen[p]]
      /\ prompted' = [p \in Panes |-> prompted[p] /\ (p \in drained => screen[p].notes = 0)]
      /\ gap' = [p \in Panes |-> gap[p] \cup {e.kind : e \in lost(p)}]
      /\ UNCHANGED <<queue, inbox, asked, ui>>

-----------------------------------------------------------------------------
(* The connection: it answers requests of the UI, and forwards events.  A  *)
(* snapshot may be ahead of the titles the broadcaster has compared; it    *)
(* never tells of one that is back before the tick.                        *)

Serve ==
  /\ asked # <<>> /\ asked' = Tail(asked)
  /\ IF asked[1] = Attach
       THEN /\ inbox' = Append(inbox, Snapshot) /\ Len(inbox) < MaxQueue
            /\ gap' = [p \in Panes |-> IF Told(p) = <<>> THEN gap[p] ELSE gap[p] \cup {"title"}]
            /\ UNCHANGED <<record, screen, previous, pending, prompted, queue>>
       ELSE LET r == [record[asked[1]] EXCEPT !.attention = "active"]
            IN  /\ Changed(asked[1], r, <<Attention(asked[1], r)>>)
                /\ prompted' = [prompted EXCEPT ![asked[1]] = FALSE]
                /\ UNCHANGED <<screen, previous, queue, inbox>>
  /\ UNCHANGED <<ui, steps>>

Forward ==
  /\ queue # <<>> /\ Len(inbox) < MaxQueue
  /\ inbox' = Append(inbox, queue[1]) /\ queue' = Tail(queue)
  /\ UNCHANGED <<host, asked, ui, steps>>

-----------------------------------------------------------------------------
(* The UI.                                                                 *)

(* focus_aware_attention_state: a notification of the focused pane is not  *)
(* shown, and not taken back from the host.                                *)
FocusAware(p, state) == IF p = focus /\ state = "needs-attention" THEN "active" ELSE state

Bug_TitleDropped(frame) ==
  CASE frame.kind = "snapshot"  -> frame.panes
    [] frame.kind = "attention" -> [shown EXCEPT ![frame.pane].attention = FocusAware(frame.pane, frame.state)]
    [] OTHER -> shown

(* handle of Connected, AttentionChanged, PaneMetadataChanged and          *)
(* TitleChanged.                                                           *)
Applied(frame) ==
  CASE frame.kind = "snapshot"  -> frame.panes
    [] frame.kind = "attention" -> [shown EXCEPT ![frame.pane].attention = FocusAware(frame.pane, frame.state)]
    [] frame.kind = "title"     -> [shown EXCEPT ![frame.pane].title = frame.title]
    [] OTHER -> [shown EXCEPT ![frame.pane] =
                   WithStatus(@, [f \in {g \in {"phase", "text", "queue"} : Given(g, frame[g])} |-> frame[f]])]

Read ==
  /\ inbox # <<>> /\ inbox' = Tail(inbox)
  /\ shown' = Applied(inbox[1])
  /\ seen' = CASE inbox[1].kind = "snapshot" -> [p \in Panes |-> FALSE]
               [] inbox[1].kind = "attention" ->
                    [seen EXCEPT ![inbox[1].pane] = (inbox[1].pane = focus /\ inbox[1].state = "needs-attention")]
               [] OTHER -> seen
  /\ UNCHANGED <<host, queue, asked, focus, steps>>

(* clear_focused_attention: shown at once, and asked of the host.          *)
ClearFocused ==
  /\ Running /\ Len(asked) < MaxQueue
  /\ shown' = [shown EXCEPT ![focus].attention = "active"]
  /\ asked' = Append(asked, focus)
  /\ UNCHANGED <<host, queue, inbox, focus, seen>>

Refresh == Running /\ Len(asked) < MaxQueue /\ asked' = Append(asked, Attach) /\ UNCHANGED <<host, queue, inbox, ui>>

FocusPane(p) == Running /\ focus' = p /\ UNCHANGED <<host, queue, inbox, asked, shown, seen>>

Unread == {p \in Panes : shown[p].attention \in {"needs-attention", "error"}}

Bug_NoWrap(from, forward) ==
  LET ahead == {p \in Unread : IF forward THEN p > from ELSE p < from}
  IN  IF ahead = {} THEN from
      ELSE CHOOSE p \in ahead : \A q \in ahead : IF forward THEN p <= q ELSE p >= q

(* next_attention_target: the next pane that asks for attention, around.   *)
NextAttention(from, forward) ==
  LET ahead == {p \in Unread : IF forward THEN p > from ELSE p < from}
      among == IF ahead = {} THEN Unread ELSE ahead
  IN  IF among = {} THEN from
      ELSE CHOOSE p \in among : \A q \in among : IF forward THEN p <= q ELSE p >= q

GoToAttention ==
  \E forward \in BOOLEAN :
    /\ Running /\ focus' = NextAttention(focus, forward)
    /\ UNCHANGED <<host, queue, inbox, asked, shown, seen>>

-----------------------------------------------------------------------------
Init ==
  /\ record = [p \in Panes |-> Fresh]
  /\ screen = [p \in Panes |-> [title |-> "", notes |-> 0, reads |-> TRUE]]
  /\ previous = [p \in Panes |-> ""]
  /\ pending = <<>> /\ queue = <<>> /\ inbox = <<>> /\ asked = <<Attach>>
  /\ shown = [p \in Panes |-> Unknown]
  /\ focus = 1 /\ gap = [p \in Panes |-> {}] /\ seen = [p \in Panes |-> FALSE]
  /\ prompted = [p \in Panes |-> FALSE] /\ steps = 0

Next ==
  \/ \E p \in Panes :
       \/ Prompt(p) \/ ClearAttention(p) \/ Program(p) \/ FocusPane(p)
       \/ \E state \in {"active", "done", "needs-attention", "error"} : Notify(p, state)
       \/ \E report \in Reports : SetStatus(p, report)
  \/ Reopen \/ Tick \/ (\E drained \in SUBSET Panes : TickPanics(drained)) \/ Serve \/ Forward \/ Read
  \/ ClearFocused \/ Refresh \/ GoToAttention

Spec == Init /\ [][Next]_vars

-----------------------------------------------------------------------------
(* Properties.                                                             *)

Quiet ==
  /\ pending = <<>> /\ queue = <<>> /\ inbox = <<>> /\ asked = <<>>
  /\ \A p \in Panes : screen[p].notes = 0 /\ screen[p].title = previous[p]

(* When nothing is on its way, the UI shows what the host keeps of a pane, *)
(* except where no event told it: a prompt whose write failed; a tick that *)
(* panicked, for what was pending and for titles and notifications of the  *)
(* panes drained before the panic; a title the broadcaster takes for the   *)
(* one it told last; and notifications of a pane while it was focused.     *)
ShownMatches ==
  Quiet => \A p \in Panes :
    /\ \/ "attention" \in gap[p] \/ shown[p].attention = record[p].attention
       \/ seen[p] /\ shown[p].attention = "active"
    /\ "metadata" \in gap[p] \/ \A f \in {"phase", "text", "queue"} : shown[p][f] = record[p][f]
    /\ "title" \in gap[p] \/ shown[p].title = screen[p].title

(* A wait begun after a prompt was accepted is not satisfied by work that  *)
(* was done before it.                                                     *)
WaitNotStale ==
  \A p \in Panes : prompted[p] =>
    \A condition \in {"ready", "idle", "done", "needs-attention", "error", "queue-empty"} :
      ~Matches(condition, record[p])

(* Going from one attention to the next comes to every pane that asks for  *)
(* it, forwards and backwards.                                             *)
AttentionReached ==
  \A forward \in BOOLEAN :
    LET goes[n \in 0 .. Cardinality(Unread)] ==
          IF n = 0 THEN focus ELSE NextAttention(goes[n - 1], forward)
    IN  Unread \subseteq {goes[n] : n \in 1 .. Cardinality(Unread)}

=============================================================================
