----------------------------- MODULE OutputStream -----------------------------
(***************************************************************************)
(* How the output of one session reaches the screens: the reader thread    *)
(* feeds the session's channel; whoever drains the channel under the host  *)
(* mutex feeds the host's screen, but only the broadcaster also sends the  *)
(* bytes on, after it let the mutex go; every UI connection has a queue    *)
(* and a task that forwards it, except while the task handles a request.   *)
(*                                                                         *)
(* Chunks of output are numbered, so a screen the host feeds is the number *)
(* of the last chunk it has seen.  The screen of a UI is the sequence of   *)
(* chunks it was fed: what its last snapshot held and the events since.    *)
(* The two ends of a pipe are one step: a frame the task writes is the     *)
(* next one the UI reads.                                                  *)
(***************************************************************************)
EXTENDS Naturals, Sequences, SequencesExt

CONSTANTS
  Clients,        \* the UI clients
  MaxChunks,      \* bound on the chunks the child writes
  MaxRefresh      \* bound on the refreshes of each client

ASSUME BoundsAssumption == MaxChunks \in Nat /\ MaxRefresh \in Nat

VARIABLES
  alive,          \* the child process runs
  written,        \* chunks written by the child
  received,       \* chunks the reader thread put into the channel
  screen,         \* chunks drained from the channel into the host's screen
  noticed,        \* SessionState is Exited
  batch,          \* events the broadcaster drained and has not sent yet
  inbox,          \* per client, the frames queued for its connection task
  request,        \* per client, its attach request: "none", "sent", "held"
  answer,         \* the snapshot of a "held" request, still to be written
  ui,             \* per client: "away", "asking" (in request()), "looping"
  mirror,         \* per client, the chunks fed to its screen
  knowsExit,      \* per client, it was told of the exit
  refreshes,      \* per client, refreshes asked for
  stolen          \* history: chunks drained by others than the broadcaster

host == <<written, received, screen, noticed, stolen>>
client == <<inbox, request, answer, ui, mirror, knowsExit, refreshes>>
vars == <<alive, host, batch, client>>

Output(first, last) == [kind |-> "output", first |-> first, last |-> last]
Exited == [kind |-> "exited", first |-> 1, last |-> 0]
Snapshot(n, exited) ==
  [kind |-> IF exited THEN "snapshot-exited" ELSE "snapshot",
   first |-> 1, last |-> n]

Chunks(frame) ==
  [i \in 1 .. (frame.last + 1 - frame.first) |-> frame.first + i - 1]

-----------------------------------------------------------------------------
(* The child, the reader thread and the requests that drain.               *)

Write ==
  /\ alive /\ written < MaxChunks
  /\ written' = written + 1
  /\ UNCHANGED <<alive, received, screen, noticed, stolen, batch, client>>

Exit ==
  /\ alive
  /\ alive' = FALSE
  /\ UNCHANGED <<host, batch, client>>

Receive ==
  /\ received < written
  /\ received' = received + 1
  /\ UNCHANGED <<alive, written, screen, noticed, stolen, batch, client>>

(* capture, scrollback and every poll of a wait: process_pending_output.   *)
Inspect ==
  /\ screen < received
  /\ screen' = received
  /\ stolen' = stolen \cup ((screen + 1) .. received)
  /\ UNCHANGED <<alive, written, received, noticed, batch, client>>

-----------------------------------------------------------------------------
(* The broadcaster.                                                        *)

(* One tick under the mutex.  check_exit waits a moment for the reader     *)
(* and drains once more, but only into the screen.                         *)
Drained == IF screen < received THEN <<Output(screen + 1, received)>> ELSE <<>>

Tick ==
  /\ batch = <<>>
  /\ IF noticed \/ alive
       THEN /\ screen' = received
            /\ batch' = Drained
            /\ UNCHANGED <<received, noticed, stolen>>
       ELSE /\ received' \in received .. written
            /\ screen' = received'
            /\ stolen' = stolen \cup ((received + 1) .. received')
            /\ noticed' = TRUE
            /\ batch' = Append(Drained, Exited)
  /\ UNCHANGED <<alive, written, client>>

Bug_RegisteredWhenAttached(c) == ui[c] = "looping"

(* The registry entry of c has its handshake.                              *)
Registered(c) == ui[c] # "away"

(* broadcast_to_ui of one event, outside the host mutex.                   *)
Broadcast ==
  /\ batch # <<>>
  /\ inbox' = [c \in Clients |->
                 IF Registered(c) THEN Append(inbox[c], Head(batch))
                                  ELSE inbox[c]]
  /\ batch' = Tail(batch)
  /\ UNCHANGED <<alive, host, request, answer, ui, mirror, knowsExit, refreshes>>

-----------------------------------------------------------------------------
(* What a UI does with the next frame it reads.  The frame that follows    *)
(* the attach request is taken for its answer, whatever it is; a screen is *)
(* only fed once a snapshot has given the UI its panes.                    *)

IsSnapshot(frame) == frame.kind \in {"snapshot", "snapshot-exited"}

NoMirror == <<0>>

Fed(c, frame) ==
  IF IsSnapshot(frame) THEN Chunks(frame)
  ELSE IF ui[c] = "asking" \/ mirror[c] = NoMirror \/ frame.kind # "output"
    THEN mirror[c]
    ELSE mirror[c] \o Chunks(frame)

TellsExit(c, frame) ==
  \/ frame.kind = "snapshot-exited"
  \/ frame.kind = "exited" /\ ui[c] # "asking" /\ mirror[c] # NoMirror

Reads(c, frame) ==
  /\ mirror' = [mirror EXCEPT ![c] = Fed(c, frame)]
  /\ knowsExit' = [knowsExit EXCEPT ![c] =
                     (@ /\ ~IsSnapshot(frame)) \/ TellsExit(c, frame)]
  /\ ui' = [ui EXCEPT ![c] = "looping"]

-----------------------------------------------------------------------------
(* Connections.                                                            *)

(* Connect, handshake, send AttachWorkspace.                               *)
Connect(c) ==
  /\ ui[c] = "away"
  /\ ui' = [ui EXCEPT ![c] = "asking"]
  /\ request' = [request EXCEPT ![c] = "sent"]
  /\ UNCHANGED <<alive, host, batch, inbox, answer, mirror, knowsExit, refreshes>>

(* RefreshWorkspace: the same request again, from the running loop.        *)
Refresh(c) ==
  /\ ui[c] = "looping" /\ request[c] = "none" /\ refreshes[c] < MaxRefresh
  /\ request' = [request EXCEPT ![c] = "sent"]
  /\ refreshes' = [refreshes EXCEPT ![c] = @ + 1]
  /\ UNCHANGED <<alive, host, batch, inbox, answer, ui, mirror, knowsExit>>

(* handle_attach_workspace under the mutex: what it drains is in the       *)
(* snapshot, and in no event.  The task awaits it and forwards nothing.    *)
Attach(c) ==
  /\ request[c] = "sent"
  /\ screen' = received
  /\ stolen' = stolen \cup ((screen + 1) .. received)
  /\ request' = [request EXCEPT ![c] = "held"]
  /\ answer' = [answer EXCEPT ![c] = Snapshot(received, noticed)]
  /\ UNCHANGED <<alive, written, received, noticed, batch, inbox, ui, mirror,
                 knowsExit, refreshes>>

(* The answer goes to the pipe at once, ahead of the frames queued before. *)
Answer(c) ==
  /\ request[c] = "held"
  /\ Reads(c, answer[c])
  /\ request' = [request EXCEPT ![c] = "none"]
  /\ UNCHANGED <<alive, host, batch, inbox, answer, refreshes>>

NextFrame(c) == Head(inbox[c])

Bug_ForwardWhileHeld(c) ==
  /\ inbox[c] # <<>>
  /\ Reads(c, NextFrame(c))
  /\ inbox' = [inbox EXCEPT ![c] = Tail(@)]
  /\ UNCHANGED <<alive, host, batch, request, answer, refreshes>>

Forward(c) ==
  /\ request[c] # "held" /\ inbox[c] # <<>>
  /\ Reads(c, NextFrame(c))
  /\ inbox' = [inbox EXCEPT ![c] = Tail(@)]
  /\ UNCHANGED <<alive, host, batch, request, answer, refreshes>>

-----------------------------------------------------------------------------
Init ==
  /\ alive = TRUE /\ written = 0 /\ received = 0 /\ screen = 0
  /\ noticed = FALSE /\ batch = <<>> /\ stolen = {}
  /\ inbox = [c \in Clients |-> <<>>]
  /\ request = [c \in Clients |-> "none"]
  /\ answer = [c \in Clients |-> Snapshot(0, FALSE)]
  /\ ui = [c \in Clients |-> "away"]
  /\ mirror = [c \in Clients |-> NoMirror]
  /\ knowsExit = [c \in Clients |-> FALSE]
  /\ refreshes = [c \in Clients |-> 0]

ConnectionStep ==
  \E c \in Clients : Connect(c) \/ Refresh(c) \/ Attach(c) \/ Answer(c) \/ Forward(c)

Next == Write \/ Exit \/ Receive \/ Inspect \/ Tick \/ Broadcast \/ ConnectionStep

(* Threads and tasks run; the child, the requests and the UIs need not.    *)
Fairness ==
  /\ WF_vars(Receive) /\ WF_vars(Tick) /\ WF_vars(Broadcast)
  /\ \A c \in Clients : WF_vars(Attach(c)) /\ WF_vars(Answer(c)) /\ WF_vars(Forward(c))

Spec == Init /\ [][Next]_vars

FairSpec == Spec /\ Fairness

-----------------------------------------------------------------------------
(* Properties.                                                             *)

ChunksOf(frames) ==
  UNION {f.first .. f.last : f \in ToSet(frames)}

Shows(c) == ui[c] = "looping" /\ mirror[c] # NoMirror

Missing(c) ==
  (1 .. screen) \ (ToSet(mirror[c]) \cup ChunksOf(batch) \cup ChunksOf(inbox[c]))

(* No race of the broadcaster, the attach and the forwarding makes a UI    *)
(* miss a chunk: the only ones that never arrive are those someone else    *)
(* than the broadcaster drained.                                           *)
OnlyStolenChunksMissing ==
  \A c \in Clients : Shows(c) => Missing(c) \subseteq stolen

(* Events are fed in the order of the output, each once: a screen steps    *)
(* back at most once, where the events follow the last snapshot.           *)
OneRewindAtMost ==
  \A c \in Clients :
    \A i, j \in 1 .. (Len(mirror[c]) - 1) :
      mirror[c][i] >= mirror[c][i+1] /\ mirror[c][j] >= mirror[c][j+1] => i = j

(* Every chunk ends up in every UI that stays, unless it was stolen.       *)
OutputArrives ==
  \A c \in Clients, k \in 1 .. MaxChunks :
    written >= k /\ ui[c] # "away" ~> k \in ToSet(mirror[c]) \cup stolen

(* Every UI that stays is told of the exit, by an event or by a snapshot.  *)
ExitReported ==
  \A c \in Clients : ~alive /\ ui[c] # "away" ~> knowsExit[c]

(* What a UI shows lacks only what others drained, and holds the rest in   *)
(* order, each chunk fed once.                                             *)
ScreensComplete == OnlyStolenChunksMissing /\ OneRewindAtMost

(* All output, and the exit at its end, reaches every UI that stays.       *)
StreamEnds == OutputArrives /\ ExitReported

=============================================================================
