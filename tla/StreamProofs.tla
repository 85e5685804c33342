---------------------------- MODULE StreamProofs ----------------------------
(***************************************************************************)
(* Theorem about module OutputStream, for any clients and bounds: a screen *)
(* of a UI lacks only what others than the broadcaster drained, and steps  *)
(* back at most once (ScreensComplete).                                    *)
(*                                                                         *)
(* A chunk the host's screen has seen is stolen, or shown, or on its way:  *)
(* in the broadcaster's batch or in the queue of the connection.  While    *)
(* the answer to an attach is held, the same is true of the chunks after   *)
(* that snapshot, because nothing is forwarded meanwhile.                  *)
(***************************************************************************)
EXTENDS OutputStream, TLAPS

Event == [kind : {"output", "exited"}, first : Nat, last : Nat]
Answers == [kind : {"snapshot", "snapshot-exited"}, first : {1}, last : Nat]

Typing ==
  /\ written \in Nat /\ received \in Nat /\ screen \in Nat
  /\ screen <= received /\ received <= written
  /\ batch \in Seq(Event)
  /\ inbox \in [Clients -> Seq(Event)]
  /\ request \in [Clients -> {"none", "sent", "held"}]
  /\ answer \in [Clients -> Answers]
  /\ ui \in [Clients -> {"away", "asking", "looping"}]
  /\ mirror \in [Clients -> Seq(Nat)]

(* Who asks is registered, and who shows something is in its loop.         *)
Present ==
  \A c \in Clients : /\ request[c] # "none" => ui[c] # "away"
                     /\ mirror[c] # NoMirror => ui[c] = "looping"

(* The events on their way are of chunks the host's screen has seen.       *)
Seen(frames, n) ==
  \A i \in DOMAIN frames :
    LET f == frames[i]
    IN /\ f.kind = "output" => 1 <= f.first /\ f.first <= f.last /\ f.last <= n
       /\ f.kind = "exited" => f.first = 1 /\ f.last = 0

Before(f, g) == f.kind = "output" /\ g.kind = "output" => f.last < g.first

Sorted(frames) ==
  \A i, j \in DOMAIN frames : i < j => Before(frames[i], frames[j])

(* The events on their way to c are in the order of the output.            *)
InOrder ==
  /\ Seen(batch, screen) /\ Sorted(batch)
  /\ \A c \in Clients :
       /\ Seen(inbox[c], screen) /\ Sorted(inbox[c])
       /\ \A i \in DOMAIN inbox[c], j \in DOMAIN batch : Before(inbox[c][i], batch[j])

In(k, frames) ==
  \E i \in DOMAIN frames : frames[i].first <= k /\ k <= frames[i].last

(* Where chunk k is, when the screen of c does not show it.                *)
Coming(c, k) == k \in stolen \/ In(k, batch) \/ In(k, inbox[c])

Shown == \A c \in Clients : mirror[c] # NoMirror =>
            \A k \in 1 .. screen : k \in ToSet(mirror[c]) \/ Coming(c, k)

Held == \A c \in Clients : request[c] = "held" =>
            \A k \in (answer[c].last + 1) .. screen : Coming(c, k)

StepsBack(m, i) == i \in 1 .. (Len(m) - 1) /\ m[i] >= m[i + 1]

Once(m) == \A i, j \in Nat : StepsBack(m, i) /\ StepsBack(m, j) => i = j

(* What makes OneRewindAtMost inductive: a screen that stepped back is     *)
(* behind every event that is still to come.                               *)
Settled(m, frames) ==
  (\E i \in Nat : StepsBack(m, i)) =>
     \A j \in DOMAIN frames : frames[j].kind = "output" => m[Len(m)] < frames[j].first

Rewinds == \A c \in Clients : /\ Once(mirror[c])
                              /\ Settled(mirror[c], batch)
                              /\ Settled(mirror[c], inbox[c])

(* No screen of a UI, nor a snapshot to be written, is ahead of the host's. *)
Past == \A c \in Clients :
          /\ mirror[c] # <<>> => mirror[c][Len(mirror[c])] <= screen
          /\ request[c] = "held" => answer[c].last <= screen

StreamInv == Typing /\ Present /\ InOrder /\ Shown /\ Held /\ Rewinds /\ Past

-----------------------------------------------------------------------------
(* Lemmas about sequences of events and of chunks.                         *)

LEMMA AppendEvent ==
  ASSUME NEW frames \in Seq(Event), NEW e \in Event
  PROVE  /\ Append(frames, e) \in Seq(Event)
         /\ Len(frames) \in Nat /\ DOMAIN frames = 1 .. Len(frames)
         /\ DOMAIN Append(frames, e) = 1 .. (Len(frames) + 1)
         /\ \A i \in 1 .. Len(frames) : Append(frames, e)[i] = frames[i]
         /\ Append(frames, e)[Len(frames) + 1] = e
         /\ \A k \in Nat : In(k, frames) => In(k, Append(frames, e))
         /\ \A k \in Nat : e.first <= k /\ k <= e.last => In(k, Append(frames, e))
<1>1. /\ Append(frames, e) \in Seq(Event)
      /\ Len(frames) \in Nat /\ DOMAIN frames = 1 .. Len(frames)
      /\ DOMAIN Append(frames, e) = 1 .. (Len(frames) + 1)
      /\ \A i \in 1 .. Len(frames) : Append(frames, e)[i] = frames[i]
      /\ Append(frames, e)[Len(frames) + 1] = e
  OBVIOUS
<1>2. Len(frames) + 1 \in DOMAIN Append(frames, e)
  BY <1>1
<1> QED BY <1>1, <1>2 DEF In

LEMMA TailEvents ==
  ASSUME NEW frames \in Seq(Event), frames # <<>>
  PROVE  /\ Head(frames) \in Event /\ Head(frames) = frames[1]
         /\ Tail(frames) \in Seq(Event) /\ Len(frames) \in Nat \ {0}
         /\ DOMAIN frames = 1 .. Len(frames)
         /\ DOMAIN Tail(frames) = 1 .. (Len(frames) - 1)
         /\ \A i \in 1 .. (Len(frames) - 1) : Tail(frames)[i] = frames[i + 1]
         /\ \A k \in Nat : In(k, frames) =>
              In(k, Tail(frames)) \/ (Head(frames).first <= k /\ k <= Head(frames).last)
<1>1. /\ Head(frames) \in Event /\ Head(frames) = frames[1]
      /\ Tail(frames) \in Seq(Event) /\ Len(frames) \in Nat \ {0}
      /\ DOMAIN frames = 1 .. Len(frames)
      /\ DOMAIN Tail(frames) = 1 .. (Len(frames) - 1)
      /\ \A i \in 1 .. (Len(frames) - 1) : Tail(frames)[i] = frames[i + 1]
  OBVIOUS
<1>2. ASSUME NEW k \in Nat, NEW i \in 1 .. Len(frames), i # 1,
             frames[i].first <= k, k <= frames[i].last
      PROVE  In(k, Tail(frames))
  <2>1. i - 1 \in DOMAIN Tail(frames) /\ Tail(frames)[i - 1] = frames[i]
    BY <1>1, <1>2
  <2> QED BY <1>2, <2>1 DEF In
<1> QED BY <1>1, <1>2 DEF In

LEMMA SeenMore ==
  ASSUME NEW frames \in Seq(Event), NEW m \in Nat, NEW n \in Nat, m <= n, Seen(frames, m)
  PROVE  Seen(frames, n)
<1>1. ASSUME NEW i \in DOMAIN frames PROVE frames[i].first \in Nat /\ frames[i].last \in Nat
  <2>1. frames[i] \in Event
    OBVIOUS
  <2> QED BY <2>1 DEF Event
<1> QED BY <1>1 DEF Seen

LEMMA ChunksOfFrame ==
  ASSUME NEW f, f.first \in Nat \ {0}, f.last \in Nat, f.first <= f.last + 1
  PROVE  /\ Chunks(f) \in Seq(Nat)
         /\ Len(Chunks(f)) = f.last + 1 - f.first
         /\ DOMAIN Chunks(f) = 1 .. (f.last + 1 - f.first)
         /\ \A i \in 1 .. (f.last + 1 - f.first) : Chunks(f)[i] = f.first + i - 1
         /\ ToSet(Chunks(f)) = f.first .. f.last
<1> DEFINE n == f.last + 1 - f.first
<1>1. n \in Nat
  OBVIOUS
<1>2. Chunks(f) = [i \in 1 .. n |-> f.first + i - 1]
  BY DEF Chunks
<1>3. \A i \in 1 .. n : f.first + i - 1 \in Nat
  BY <1>1
<1>4. Chunks(f) \in Seq(Nat) /\ Len(Chunks(f)) = n /\ DOMAIN Chunks(f) = 1 .. n
  <2>1. Chunks(f) \in [1 .. n -> Nat]
    BY <1>2, <1>3
  <2> QED BY <2>1, <1>1
<1>5. ToSet(Chunks(f)) = {f.first + i - 1 : i \in 1 .. n}
  BY <1>2, <1>4 DEF ToSet
<1>6. ASSUME NEW k \in f.first .. f.last
      PROVE  k + 1 - f.first \in 1 .. n /\ f.first + (k + 1 - f.first) - 1 = k
  BY <1>1
<1>7. {f.first + i - 1 : i \in 1 .. n} = f.first .. f.last
  BY <1>1, <1>6
<1> QED BY <1>2, <1>4, <1>5, <1>7

LEMMA Concatenated ==
  ASSUME NEW m \in Seq(Nat), NEW n \in Seq(Nat)
  PROVE  /\ m \o n \in Seq(Nat) /\ Len(m \o n) = Len(m) + Len(n)
         /\ Len(m) \in Nat /\ Len(n) \in Nat
         /\ DOMAIN m = 1 .. Len(m) /\ DOMAIN n = 1 .. Len(n)
         /\ DOMAIN (m \o n) = 1 .. (Len(m) + Len(n))
         /\ \A i \in 1 .. Len(m) : (m \o n)[i] = m[i] /\ m[i] \in Nat
         /\ \A i \in 1 .. Len(n) : (m \o n)[Len(m) + i] = n[i]
  OBVIOUS

LEMMA ToSetConcat ==
  ASSUME NEW m \in Seq(Nat), NEW n \in Seq(Nat)
  PROVE  ToSet(m) \cup ToSet(n) \subseteq ToSet(m \o n)
<1>1. /\ Len(m) \in Nat /\ Len(n) \in Nat
      /\ DOMAIN m = 1 .. Len(m) /\ DOMAIN n = 1 .. Len(n)
      /\ DOMAIN (m \o n) = 1 .. (Len(m) + Len(n))
      /\ \A i \in 1 .. Len(m) : (m \o n)[i] = m[i]
      /\ \A i \in 1 .. Len(n) : (m \o n)[Len(m) + i] = n[i]
  BY Concatenated
<1>2. ASSUME NEW i \in DOMAIN m PROVE m[i] \in ToSet(m \o n)
  BY <1>1 DEF ToSet
<1>3. ASSUME NEW i \in DOMAIN n PROVE n[i] \in ToSet(m \o n)
  <2>1. Len(m) + i \in DOMAIN (m \o n) /\ (m \o n)[Len(m) + i] = n[i]
    BY <1>1
  <2> QED BY <2>1 DEF ToSet
<1> QED BY <1>2, <1>3 DEF ToSet

(* A snapshot is a screen that never stepped back.                         *)
LEMMA SnapshotForward ==
  ASSUME NEW f, f.first \in Nat \ {0}, f.last \in Nat, f.first <= f.last + 1
  PROVE  \A i \in Nat : ~StepsBack(Chunks(f), i)
<1>1. ASSUME NEW i \in Nat, StepsBack(Chunks(f), i) PROVE FALSE
  <2>1. i \in 1 .. (f.last + 1 - f.first) /\ i + 1 \in 1 .. (f.last + 1 - f.first)
    BY <1>1, ChunksOfFrame DEF StepsBack
  <2>2. Chunks(f)[i] = f.first + i - 1 /\ Chunks(f)[i + 1] = f.first + (i + 1) - 1
    BY <2>1, ChunksOfFrame
  <2> QED BY <2>2, <1>1 DEF StepsBack
<1> QED BY <1>1

(* A screen that is fed an event ends with its last chunk, and steps back  *)
(* where the event begins, if it did not before.                           *)
LEMMA FedForward ==
  ASSUME NEW m \in Seq(Nat), NEW f,
         f.first \in Nat \ {0}, f.last \in Nat, f.first <= f.last,
         Once(m), (\E i \in Nat : StepsBack(m, i)) => m[Len(m)] < f.first
  PROVE  /\ m \o Chunks(f) \in Seq(Nat)
         /\ Once(m \o Chunks(f))
         /\ (m \o Chunks(f))[Len(m \o Chunks(f))] = f.last
<1> DEFINE n == Chunks(f)
           s == m \o n
<1>1. /\ n \in Seq(Nat) /\ Len(n) = f.last + 1 - f.first
      /\ Len(n) \in Nat \ {0}
      /\ \A i \in 1 .. Len(n) : n[i] = f.first + i - 1
  <2>1. f.last + 1 - f.first \in Nat \ {0}
    OBVIOUS
  <2> QED BY <2>1, ChunksOfFrame
<1> HIDE DEF n
<1>2. /\ s \in Seq(Nat) /\ Len(m) \in Nat
      /\ Len(s) = Len(m) + Len(n)
      /\ \A i \in 1 .. Len(m) : s[i] = m[i] /\ m[i] \in Nat
      /\ \A i \in 1 .. Len(n) : s[Len(m) + i] = n[i]
  BY <1>1, Concatenated
<1>3. \A i \in 1 .. Len(n) : s[Len(m) + i] = f.first + i - 1
  BY <1>1, <1>2
<1> HIDE DEF s
<1>4. ASSUME NEW i \in Nat, StepsBack(s, i)
      PROVE  StepsBack(m, i) \/ (i = Len(m) /\ m[Len(m)] >= f.first)
  <2>1. CASE i < Len(m)
    <3>1. i \in 1 .. Len(m) /\ i + 1 \in 1 .. Len(m) /\ i \in 1 .. (Len(m) - 1)
      BY <2>1, <1>2, <1>4 DEF StepsBack
    <3>2. s[i] = m[i] /\ s[i + 1] = m[i + 1]
      BY <3>1, <1>2
    <3> QED BY <3>1, <3>2, <1>4 DEF StepsBack
  <2>2. CASE i = Len(m)
    <3>1. s[i] = m[i] /\ s[i + 1] = f.first + 1 - 1
      BY <2>2, <1>2, <1>3, <1>4 DEF StepsBack
    <3> QED BY <3>1, <2>2, <1>4 DEF StepsBack
  <2>3. CASE i > Len(m)
    <3> DEFINE j == i - Len(m)
    <3>1. j \in 1 .. Len(n) /\ j + 1 \in 1 .. Len(n)
          /\ i = Len(m) + j /\ i + 1 = Len(m) + (j + 1)
      BY <2>3, <1>2, <1>4 DEF StepsBack
    <3>2. s[i] = f.first + j - 1 /\ s[i + 1] = f.first + (j + 1) - 1
      BY <3>1, <1>3
    <3> QED BY <3>1, <3>2, <1>4 DEF StepsBack
  <2> QED BY <2>1, <2>2, <2>3, <1>2
<1>5. Once(s)
  <2> SUFFICES ASSUME NEW i \in Nat, NEW j \in Nat, StepsBack(s, i), StepsBack(s, j)
               PROVE  i = j
    BY DEF Once
  <2>1. CASE \E k \in Nat : StepsBack(m, k)
    <3>1. ~(m[Len(m)] >= f.first)
      <4>1. Len(m) \in 1 .. Len(m)
        BY <2>1, <1>2 DEF StepsBack
      <4> QED BY <2>1, <4>1, <1>2
    <3> QED BY <3>1, <1>4 DEF Once
  <2>2. CASE ~\E k \in Nat : StepsBack(m, k)
    BY <2>2, <1>4
  <2> QED BY <2>1, <2>2
<1>6. s[Len(s)] = f.last
  <2>1. Len(n) \in 1 .. Len(n) /\ Len(s) = Len(m) + Len(n)
    BY <1>1, <1>2
  <2>2. s[Len(s)] = f.first + Len(n) - 1
    BY <2>1, <1>3
  <2> QED BY <2>2, <1>1
<1> QED BY <1>2, <1>5, <1>6 DEF s, n

-----------------------------------------------------------------------------
LEMMA InitStream == Init => StreamInv
<1> SUFFICES ASSUME Init PROVE StreamInv
  OBVIOUS
<1>1. Typing
  BY DEF Init, Typing, Event, Answers, Snapshot, NoMirror
<1>2. Present /\ Shown /\ Held /\ Past
  BY DEF Init, Present, Shown, Held, Past, NoMirror
<1>3. InOrder
  BY DEF Init, InOrder, Seen, Sorted
<1>4. Rewinds
  <2>1. ASSUME NEW c \in Clients, NEW i \in Nat, StepsBack(mirror[c], i) PROVE FALSE
    BY <2>1 DEF Init, NoMirror, StepsBack
  <2> QED BY <2>1 DEF Rewinds, Once, Settled
<1> QED BY <1>1, <1>2, <1>3, <1>4 DEF StreamInv

(* A step that feeds no screen, moves no event and keeps the answers: what *)
(* it adds to the host's screen it adds to the stolen chunks.              *)
LEMMA HostOnly ==
  ASSUME StreamInv, screen' \in Nat, screen <= screen',
         stolen \cup ((screen + 1) .. screen') \subseteq stolen',
         UNCHANGED <<batch, inbox, mirror, answer>>,
         \A c \in Clients : request'[c] = "held" => request[c] = "held"
  PROVE  InOrder' /\ Shown' /\ Held' /\ Rewinds' /\ Past'
<1>1. screen \in Nat /\ \A c \in Clients : answer[c].last \in Nat
  BY DEF StreamInv, Typing, Answers
<1>2. InOrder'
  <2>1. \A frames : Seen(frames, screen) /\ frames \in Seq(Event) => Seen(frames, screen')
    BY <1>1, SeenMore
  <2> QED BY <2>1 DEF StreamInv, Typing, InOrder
<1>3. \A k : k \in 1 .. screen' => k \in 1 .. screen \/ k \in stolen'
  BY <1>1
<1>4. \A c \in Clients, k \in Nat : Coming(c, k) => Coming(c, k)'
  BY DEF Coming
<1>5. Shown'
  BY <1>1, <1>3, <1>4 DEF StreamInv, Shown, Coming
<1>6. Held'
  <2> SUFFICES ASSUME NEW c \in Clients, request'[c] = "held",
                      NEW k \in (answer[c].last + 1) .. screen'
               PROVE  Coming(c, k)'
    BY DEF Held
  <2>1. k \in (answer[c].last + 1) .. screen \/ k \in stolen'
    BY <1>1
  <2> QED BY <2>1, <1>1, <1>4 DEF StreamInv, Held, Coming
<1>7. Rewinds'
  BY DEF StreamInv, Rewinds
<1>8. Past'
  <2>1. \A m \in Seq(Nat) : m # <<>> => m[Len(m)] \in Nat
    OBVIOUS
  <2> QED BY <1>1, <2>1 DEF StreamInv, Typing, Past
<1> QED BY <1>2, <1>5, <1>6, <1>7, <1>8

LEMMA QuietKeeps ==
  ASSUME StreamInv, Write \/ Exit \/ Receive \/ Inspect
  PROVE  StreamInv'
<1>1. Typing' /\ Present'
  BY DEF StreamInv, Typing, Present, Write, Exit, Receive, Inspect, host, client
<1>2. /\ screen' \in Nat /\ screen <= screen'
      /\ stolen \cup ((screen + 1) .. screen') \subseteq stolen'
  BY DEF StreamInv, Typing, Write, Exit, Receive, Inspect, host, client
<1>3. UNCHANGED <<batch, inbox, mirror, answer, request>>
  BY DEF Write, Exit, Receive, Inspect, host, client
<1>4. InOrder' /\ Shown' /\ Held' /\ Rewinds' /\ Past'
  BY <1>2, <1>3, HostOnly
<1> QED BY <1>1, <1>4 DEF StreamInv

LEMMA AskingKeeps ==
  ASSUME StreamInv, NEW c \in Clients, Connect(c) \/ Refresh(c)
  PROVE  StreamInv'
<1>1. Typing' /\ Present'
  BY DEF StreamInv, Typing, Present, Connect, Refresh, host
<1>2. /\ UNCHANGED <<screen, stolen, batch, inbox, mirror, answer>>
      /\ \A d \in Clients : request'[d] = "held" => request[d] = "held"
  BY DEF Connect, Refresh, host, StreamInv, Typing
<1>3. screen \in Nat /\ (screen + 1) .. screen = {}
  BY DEF StreamInv, Typing
<1>4. InOrder' /\ Shown' /\ Held' /\ Rewinds' /\ Past'
  BY <1>2, <1>3, HostOnly
<1> QED BY <1>1, <1>4 DEF StreamInv

(* The snapshot of an attach holds all the host's screen has seen.         *)
LEMMA AttachKeeps ==
  ASSUME StreamInv, NEW c \in Clients, Attach(c)
  PROVE  StreamInv'
<1> USE DEF Attach
<1>1. /\ answer'[c] = Snapshot(received, noticed) /\ answer'[c].last = received
      /\ answer'[c] \in Answers /\ request'[c] = "held"
      /\ \A d \in Clients \ {c} : answer'[d] = answer[d] /\ request'[d] = request[d]
  BY DEF StreamInv, Typing, Snapshot, Answers
<1>2. Typing' /\ Present'
  BY <1>1 DEF StreamInv, Typing, Present
<1>3. /\ screen' \in Nat /\ screen <= screen' /\ screen' = received
      /\ stolen \cup ((screen + 1) .. screen') \subseteq stolen'
      /\ screen \in Nat
  BY DEF StreamInv, Typing
<1>4. InOrder'
  <2>1. \A frames : Seen(frames, screen) /\ frames \in Seq(Event) => Seen(frames, screen')
    BY <1>3, SeenMore
  <2> QED BY <2>1 DEF StreamInv, Typing, InOrder
<1>5. \A d \in Clients, k \in Nat : Coming(d, k) => Coming(d, k)'
  BY <1>3 DEF Coming
<1>6. Shown'
  <2>1. \A k : k \in 1 .. screen' => k \in 1 .. screen \/ k \in stolen'
    BY <1>3
  <2> QED BY <1>3, <2>1, <1>5 DEF StreamInv, Shown, Coming
<1>7. Held'
  <2> SUFFICES ASSUME NEW d \in Clients, request'[d] = "held",
                      NEW k \in (answer'[d].last + 1) .. screen'
               PROVE  Coming(d, k)'
    BY DEF Held
  <2>1. CASE d = c
    BY <2>1, <1>1, <1>3
  <2>2. CASE d # c
    <3>1. answer'[d] = answer[d] /\ request[d] = "held" /\ answer[d].last \in Nat
      BY <2>2, <1>1 DEF StreamInv, Typing, Answers
    <3>2. k \in (answer[d].last + 1) .. screen \/ k \in stolen'
      BY <3>1, <1>3
    <3> QED BY <3>1, <3>2, <1>5 DEF StreamInv, Held, Coming
  <2> QED BY <2>1, <2>2
<1>8. Rewinds'
  BY DEF StreamInv, Rewinds
<1>9. Past'
  <2>1. \A m \in Seq(Nat) : m # <<>> => m[Len(m)] \in Nat
    OBVIOUS
  <2>2. \A d \in Clients : answer[d].last \in Nat
    BY DEF StreamInv, Typing, Answers
  <2> QED BY <1>1, <1>3, <2>1, <2>2 DEF StreamInv, Typing, Past
<1> QED BY <1>2, <1>4, <1>6, <1>7, <1>8, <1>9 DEF StreamInv

(* What a tick drains becomes an event, and what its look at the exit      *)
(* drains does not.                                                        *)
LEMMA TickDrains ==
  ASSUME StreamInv, Tick
  PROVE  /\ batch' \in Seq(Event) /\ Seen(batch', screen') /\ Sorted(batch')
         /\ \A i \in DOMAIN batch' : batch'[i].kind = "output" => batch'[i].first = screen + 1
         /\ \A k \in (screen + 1) .. screen' : k \in stolen' \/ In(k, batch')
         /\ stolen \subseteq stolen' /\ batch = <<>>
         /\ received' \in Nat /\ received' <= written /\ screen' = received'
         /\ screen <= screen' /\ screen' \in Nat
<1>1. /\ screen \in Nat /\ received \in Nat /\ written \in Nat
      /\ screen <= received /\ received <= written
  BY DEF StreamInv, Typing
<1>2. /\ Drained \in Seq(Event) /\ Len(Drained) \in {0, 1}
      /\ DOMAIN Drained = 1 .. Len(Drained)
      /\ screen < received =>
           /\ Len(Drained) = 1
           /\ Drained[1] = Output(screen + 1, received)
      /\ Len(Drained) = 1 => screen < received
  <2>1. CASE screen < received
    <3>1. Output(screen + 1, received) \in Event
      BY <1>1 DEF Output, Event
    <3>2. Drained = <<Output(screen + 1, received)>>
      BY <2>1 DEF Drained
    <3> QED BY <3>1, <3>2, <2>1
  <2>2. CASE ~(screen < received)
    BY <2>2 DEF Drained
  <2> QED BY <2>1, <2>2
<1>3. /\ Output(screen + 1, received).kind = "output"
      /\ Output(screen + 1, received).first = screen + 1
      /\ Output(screen + 1, received).last = received
      /\ Exited \in Event /\ Exited.kind = "exited" /\ Exited.first = 1 /\ Exited.last = 0
  BY DEF Output, Exited, Event
<1>4. \A k \in (screen + 1) .. received : In(k, Drained)
  <2> SUFFICES ASSUME NEW k \in (screen + 1) .. received PROVE In(k, Drained)
    OBVIOUS
  <2>1. 1 \in DOMAIN Drained /\ Drained[1].first = screen + 1 /\ Drained[1].last = received
    BY <1>1, <1>2, <1>3
  <2> QED BY <2>1 DEF In
<1>5. CASE noticed \/ alive
  <2>1. /\ screen' = received /\ batch' = Drained /\ received' = received
        /\ stolen' = stolen /\ batch = <<>>
    BY <1>5 DEF Tick
  <2> QED BY <1>1, <1>2, <1>3, <1>4, <2>1 DEF Seen, Sorted
<1>6. CASE ~(noticed \/ alive)
  <2>1. /\ received' \in received .. written /\ screen' = received'
        /\ stolen' = stolen \cup ((received + 1) .. received')
        /\ batch' = Append(Drained, Exited) /\ batch = <<>>
    BY <1>6 DEF Tick
  <2>2. /\ batch' \in Seq(Event) /\ DOMAIN batch' = 1 .. (Len(Drained) + 1)
        /\ \A i \in 1 .. Len(Drained) : batch'[i] = Drained[i]
        /\ batch'[Len(Drained) + 1] = Exited
        /\ \A k \in Nat : In(k, Drained) => In(k, batch')
    BY <1>2, <1>3, <2>1, AppendEvent
  <2>3. ASSUME NEW i \in DOMAIN batch'
        PROVE  \/ i = 1 /\ screen < received /\ batch'[i] = Output(screen + 1, received)
               \/ batch'[i] = Exited
    BY <2>2, <1>2
  <2>4. Seen(batch', screen')
    BY <1>1, <1>3, <2>1, <2>3 DEF Seen
  <2>5. Sorted(batch')
    BY <1>3, <2>2, <2>3 DEF Sorted, Before
  <2>6. ASSUME NEW k \in (screen + 1) .. screen'
        PROVE  k \in stolen' \/ In(k, batch')
    BY <1>1, <1>4, <2>1, <2>2
  <2> QED BY <1>1, <1>3, <2>1, <2>2, <2>3, <2>4, <2>5, <2>6
<1> QED BY <1>5, <1>6

LEMMA TickKeeps ==
  ASSUME StreamInv, Tick
  PROVE  StreamInv'
<1>1. /\ screen \in Nat /\ \A c \in Clients : answer[c].last \in Nat
      /\ inbox \in [Clients -> Seq(Event)]
  BY DEF StreamInv, Typing, Answers
<1>2. UNCHANGED client /\ written' = written
  BY DEF Tick
<1>3. Typing' /\ Present'
  BY <1>2, TickDrains DEF StreamInv, Typing, Present, client
<1>4. InOrder'
  <2>1. ASSUME NEW c \in Clients, NEW i \in DOMAIN inbox[c], NEW j \in DOMAIN batch'
        PROVE  Before(inbox[c][i], batch'[j])
    <3>1. inbox[c] \in Seq(Event)
      BY <1>1
    <3>4. inbox[c][i] \in Event
      BY <3>1
    <3>5. inbox[c][i].last \in Nat
      BY <3>4 DEF Event
    <3>2. inbox[c][i].kind = "output" => inbox[c][i].last <= screen
      BY DEF StreamInv, InOrder, Seen
    <3>3. batch'[j].kind = "output" => batch'[j].first = screen + 1
      BY TickDrains
    <3> QED BY <1>1, <3>2, <3>3, <3>5 DEF Before
  <2>2. \A c \in Clients : Seen(inbox[c], screen')
    BY <1>1, TickDrains, SeenMore DEF StreamInv, InOrder
  <2> QED BY <1>2, <2>1, <2>2, TickDrains DEF StreamInv, InOrder, client
<1>5. \A c \in Clients, k \in Nat : Coming(c, k) => Coming(c, k)'
  BY <1>2, TickDrains DEF Coming, In, client
<1>6. \A c \in Clients, k \in (screen + 1) .. screen' : Coming(c, k)'
  BY TickDrains DEF Coming
<1>7. Shown'
  <2> SUFFICES ASSUME NEW c \in Clients, mirror[c] # NoMirror, NEW k \in 1 .. screen'
               PROVE  k \in ToSet(mirror[c]) \/ Coming(c, k)'
    BY <1>2 DEF Shown, client
  <2>1. k \in 1 .. screen \/ k \in (screen + 1) .. screen'
    BY <1>1, TickDrains
  <2> QED BY <1>5, <1>6, <2>1 DEF StreamInv, Shown
<1>8. Held'
  <2> SUFFICES ASSUME NEW c \in Clients, request[c] = "held",
                      NEW k \in (answer[c].last + 1) .. screen'
               PROVE  Coming(c, k)'
    BY <1>2 DEF Held, client
  <2>1. k \in (answer[c].last + 1) .. screen \/ k \in (screen + 1) .. screen'
    BY <1>1, TickDrains
  <2> QED BY <1>1, <1>5, <1>6, <2>1 DEF StreamInv, Held
<1>9. Rewinds'
  <2> SUFFICES ASSUME NEW c \in Clients, NEW i \in Nat, StepsBack(mirror[c], i),
                      NEW j \in DOMAIN batch', batch'[j].kind = "output"
               PROVE  mirror[c][Len(mirror[c])] < batch'[j].first
    BY <1>2 DEF StreamInv, Rewinds, Settled, client
  <2>1. /\ mirror[c] \in Seq(Nat) /\ mirror[c] # <<>>
        /\ mirror[c][Len(mirror[c])] \in Nat
    BY DEF StreamInv, Typing, StepsBack
  <2> QED BY <1>1, <2>1, TickDrains DEF StreamInv, Past
<1>10. Past'
  <2>1. \A m \in Seq(Nat) : m # <<>> => m[Len(m)] \in Nat
    OBVIOUS
  <2> QED BY <1>1, <1>2, <2>1, TickDrains DEF StreamInv, Typing, Past, client
<1> QED BY <1>3, <1>4, <1>7, <1>8, <1>9, <1>10 DEF StreamInv

LEMMA EventOf ==
  ASSUME NEW frames \in Seq(Event), NEW i \in DOMAIN frames
  PROVE  /\ frames[i].kind \in {"output", "exited"}
         /\ frames[i].first \in Nat /\ frames[i].last \in Nat
<1>1. frames[i] \in Event
  OBVIOUS
<1> QED BY <1>1 DEF Event

(* The event goes from the batch to the queue of everyone registered.      *)
LEMMA BroadcastKeeps ==
  ASSUME StreamInv, Broadcast
  PROVE  StreamInv'
<1> DEFINE f == Head(batch)
<1>1. /\ batch \in Seq(Event) /\ batch # <<>> /\ inbox \in [Clients -> Seq(Event)]
      /\ screen \in Nat /\ \A c \in Clients : answer[c].last \in Nat
      /\ batch' = Tail(batch)
      /\ UNCHANGED <<screen, stolen, request, answer, ui, mirror, written, received>>
  BY DEF StreamInv, Typing, Answers, Broadcast, host
<1>2. /\ f \in Event /\ f = batch[1] /\ 1 \in DOMAIN batch
      /\ batch' \in Seq(Event) /\ Len(batch) \in Nat \ {0}
      /\ DOMAIN batch = 1 .. Len(batch) /\ DOMAIN batch' = 1 .. (Len(batch) - 1)
      /\ \A j \in DOMAIN batch' : j + 1 \in DOMAIN batch /\ batch'[j] = batch[j + 1]
      /\ \A k \in Nat : In(k, batch) => In(k, batch') \/ (f.first <= k /\ k <= f.last)
  BY <1>1, TailEvents
<1> HIDE DEF f
<1>3. /\ inbox' \in [Clients -> Seq(Event)]
      /\ \A c \in Clients : inbox'[c] = IF Registered(c) THEN Append(inbox[c], f) ELSE inbox[c]
  BY <1>1, <1>2 DEF Broadcast, f
<1>4. ASSUME NEW c \in Clients, NEW i \in DOMAIN inbox'[c]
      PROVE  \/ i \in DOMAIN inbox[c] /\ inbox'[c][i] = inbox[c][i]
             \/ i = Len(inbox[c]) + 1 /\ inbox'[c][i] = f
  <2>1. inbox[c] \in Seq(Event)
    BY <1>1
  <2>2. DOMAIN Append(inbox[c], f) = 1 .. (Len(inbox[c]) + 1)
        /\ \A j \in 1 .. Len(inbox[c]) : Append(inbox[c], f)[j] = inbox[c][j]
        /\ Append(inbox[c], f)[Len(inbox[c]) + 1] = f
        /\ Len(inbox[c]) \in Nat /\ DOMAIN inbox[c] = 1 .. Len(inbox[c])
    BY <2>1, <1>2, AppendEvent
  <2> QED BY <2>2, <1>3, <1>4
<1>5. Typing' /\ Present'
  BY <1>1, <1>2, <1>3 DEF StreamInv, Typing, Present
<1>6. InOrder'
  <2>1. Seen(batch', screen) /\ Sorted(batch')
    BY <1>2 DEF StreamInv, InOrder, Seen, Sorted
  <2>2. ASSUME NEW j \in DOMAIN batch' PROVE Before(f, batch'[j])
    <3>1. j + 1 \in DOMAIN batch /\ 1 < j + 1 /\ batch'[j] = batch[j + 1]
      BY <1>2
    <3> QED BY <3>1, <1>2 DEF StreamInv, InOrder, Sorted
  <2>3. ASSUME NEW c \in Clients PROVE Seen(inbox'[c], screen)
    BY <1>2, <1>4 DEF StreamInv, InOrder, Seen
  <2>4. ASSUME NEW c \in Clients, NEW i \in DOMAIN inbox[c]
        PROVE  /\ Before(inbox[c][i], f)
               /\ \A j \in DOMAIN batch' : Before(inbox[c][i], batch'[j])
    BY <1>2 DEF StreamInv, InOrder
  <2>5. ASSUME NEW c \in Clients PROVE Sorted(inbox'[c])
    <3> SUFFICES ASSUME NEW i \in DOMAIN inbox'[c], NEW j \in DOMAIN inbox'[c], i < j
                 PROVE  Before(inbox'[c][i], inbox'[c][j])
      BY DEF Sorted
    <3>1. i \in DOMAIN inbox[c] /\ inbox'[c][i] = inbox[c][i]
      <4>1. inbox[c] \in Seq(Event)
        BY <1>1
      <4>2. DOMAIN inbox[c] = 1 .. Len(inbox[c]) /\ Len(inbox[c]) \in Nat
        BY <4>1
      <4>3. i # Len(inbox[c]) + 1
        BY <1>4, <4>2
      <4> QED BY <1>4, <4>3
    <3> QED BY <3>1, <2>4, <1>4 DEF StreamInv, InOrder, Sorted
  <2>6. ASSUME NEW c \in Clients, NEW i \in DOMAIN inbox'[c], NEW j \in DOMAIN batch'
        PROVE  Before(inbox'[c][i], batch'[j])
    BY <1>4, <2>2, <2>4
  <2> QED BY <1>1, <2>1, <2>3, <2>5, <2>6 DEF InOrder
<1>7. ASSUME NEW c \in Clients, Registered(c), NEW k \in Nat, Coming(c, k)
      PROVE  Coming(c, k)'
  <2>1. inbox[c] \in Seq(Event) /\ inbox'[c] = Append(inbox[c], f)
    BY <1>1, <1>3, <1>7
  <2>2. In(k, inbox[c]) => In(k, inbox'[c])
    BY <2>1, <1>2, AppendEvent
  <2>3. f.first <= k /\ k <= f.last => In(k, inbox'[c])
    BY <2>1, <1>2, AppendEvent
  <2> QED BY <1>1, <1>2, <1>7, <2>2, <2>3 DEF Coming
<1>8. Shown' /\ Held'
  <2>1. \A c \in Clients : mirror[c] # NoMirror \/ request[c] = "held" => Registered(c)
    BY DEF StreamInv, Present, Registered
  <2>2. \A c \in Clients : \A k : k \in 1 .. screen \/ k \in (answer[c].last + 1) .. screen => k \in Nat
    BY <1>1
  <2> QED BY <1>1, <1>7, <2>1, <2>2 DEF StreamInv, Shown, Held
<1>9. Rewinds' /\ Past'
  <2>1. ASSUME NEW c \in Clients, Settled(mirror[c], batch), Settled(mirror[c], inbox[c])
        PROVE  Settled(mirror[c], batch') /\ Settled(mirror[c], inbox'[c])
    BY <1>2, <1>4, <2>1 DEF Settled
  <2> QED BY <1>1, <2>1 DEF StreamInv, Rewinds, Past
<1> QED BY <1>5, <1>6, <1>8, <1>9 DEF StreamInv

(* The snapshot replaces what the screen held; what it lacks is coming.    *)
LEMMA AnswerKeeps ==
  ASSUME StreamInv, NEW c \in Clients, Answer(c)
  PROVE  StreamInv'
<1> DEFINE f == answer[c]
<1>1. /\ request[c] = "held" /\ f \in Answers
      /\ UNCHANGED <<screen, stolen, batch, inbox, answer, written, received>>
      /\ request' = [request EXCEPT ![c] = "none"]
      /\ ui' = [ui EXCEPT ![c] = "looping"]
      /\ mirror' = [mirror EXCEPT ![c] = Fed(c, f)]
      /\ mirror \in [Clients -> Seq(Nat)] /\ screen \in Nat
      /\ request \in [Clients -> {"none", "sent", "held"}]
  BY DEF Answer, Reads, host, StreamInv, Typing
<1>2. f.first = 1 /\ f.last \in Nat /\ IsSnapshot(f) /\ f.last <= screen
  BY <1>1 DEF Answers, IsSnapshot, StreamInv, Past
<1> HIDE DEF f
<1>3. /\ Chunks(f) \in Seq(Nat) /\ Len(Chunks(f)) = f.last
      /\ ToSet(Chunks(f)) = 1 .. f.last
      /\ \A i \in 1 .. f.last : Chunks(f)[i] = i
      /\ \A i \in Nat : ~StepsBack(Chunks(f), i)
  BY <1>2, ChunksOfFrame, SnapshotForward
<1>4. /\ mirror' \in [Clients -> Seq(Nat)] /\ mirror'[c] = Chunks(f)
      /\ request'[c] = "none"
      /\ \A d \in Clients \ {c} : mirror'[d] = mirror[d] /\ request'[d] = request[d]
  BY <1>1, <1>2, <1>3 DEF Fed
<1>5. Typing' /\ Present'
  BY <1>1, <1>4 DEF StreamInv, Typing, Present
<1>6. InOrder'
  BY <1>1 DEF StreamInv, InOrder
<1>7. \A d \in Clients, k \in Nat : Coming(d, k)' <=> Coming(d, k)
  BY <1>1 DEF Coming
<1>8. Shown'
  <2> SUFFICES ASSUME NEW d \in Clients, mirror'[d] # NoMirror, NEW k \in 1 .. screen
               PROVE  k \in ToSet(mirror'[d]) \/ Coming(d, k)'
    BY <1>1 DEF Shown
  <2>1. CASE d = c
    <3>1. k \in 1 .. f.last \/ k \in (f.last + 1) .. screen
      BY <1>1, <1>2
    <3>2. k \in (f.last + 1) .. screen => Coming(c, k)
      BY <1>1 DEF f, StreamInv, Held
    <3> QED BY <3>1, <3>2, <2>1, <1>3, <1>4, <1>7
  <2>2. CASE d # c
    BY <2>2, <1>4, <1>7 DEF StreamInv, Shown
  <2> QED BY <2>1, <2>2
<1>9. Held'
  <2> SUFFICES ASSUME NEW d \in Clients, request'[d] = "held",
                      NEW k \in (answer[d].last + 1) .. screen
               PROVE  Coming(d, k)'
    BY <1>1 DEF Held
  <2>1. d # c /\ request[d] = "held" /\ answer[d].last \in Nat
    BY <1>4 DEF StreamInv, Typing, Answers
  <2> QED BY <1>1, <2>1, <1>7 DEF StreamInv, Held
<1>10. Rewinds'
  <2> SUFFICES ASSUME NEW d \in Clients
               PROVE  /\ Once(mirror'[d])
                      /\ Settled(mirror'[d], batch) /\ Settled(mirror'[d], inbox[d])
    BY <1>1 DEF Rewinds
  <2>1. CASE d = c
    BY <2>1, <1>3, <1>4 DEF Once, Settled
  <2>2. CASE d # c
    BY <2>2, <1>4 DEF StreamInv, Rewinds
  <2> QED BY <2>1, <2>2
<1>11. Past'
  <2>1. Chunks(f) # <<>> => Chunks(f)[Len(Chunks(f))] = f.last
    <3>1. Chunks(f) # <<>> => f.last \in 1 .. f.last
      BY <1>2, <1>3
    <3> QED BY <3>1, <1>3
  <2>2. ASSUME NEW d \in Clients
        PROVE  /\ mirror'[d] # <<>> => mirror'[d][Len(mirror'[d])] <= screen
               /\ request'[d] = "held" => answer[d].last <= screen
    BY <2>1, <1>2, <1>4 DEF StreamInv, Past
  <2> QED BY <2>2, <1>1 DEF Past
<1> QED BY <1>5, <1>6, <1>8, <1>9, <1>10, <1>11 DEF StreamInv

(* An event leaves the queue for the screen, unless the UI shows nothing   *)
(* yet.                                                                    *)
LEMMA ForwardKeeps ==
  ASSUME StreamInv, NEW c \in Clients, Forward(c)
  PROVE  StreamInv'
<1> DEFINE f == Head(inbox[c])
           m == mirror[c]
<1>1. /\ request[c] # "held" /\ inbox[c] # <<>> /\ inbox[c] \in Seq(Event)
      /\ inbox' = [inbox EXCEPT ![c] = Tail(@)] /\ inbox \in [Clients -> Seq(Event)]
      /\ UNCHANGED <<screen, stolen, batch, request, answer, written, received>>
      /\ ui' = [ui EXCEPT ![c] = "looping"]
      /\ mirror' = [mirror EXCEPT ![c] = Fed(c, f)]
      /\ mirror \in [Clients -> Seq(Nat)] /\ screen \in Nat /\ batch \in Seq(Event)
      /\ m \in Seq(Nat)
  BY DEF Forward, NextFrame, Reads, host, StreamInv, Typing
<1>2. /\ f = inbox[c][1] /\ 1 \in DOMAIN inbox[c]
      /\ f.kind \in {"output", "exited"} /\ f.first \in Nat /\ f.last \in Nat
      /\ Tail(inbox[c]) \in Seq(Event) /\ ~IsSnapshot(f)
      /\ \A j \in DOMAIN Tail(inbox[c]) :
           j \in Nat /\ j + 1 \in DOMAIN inbox[c] /\ 1 < j + 1
           /\ Tail(inbox[c])[j] = inbox[c][j + 1]
      /\ \A k \in Nat : In(k, inbox[c]) =>
           In(k, Tail(inbox[c])) \/ (f.first <= k /\ k <= f.last)
  <2>1. f \in Event /\ f.kind \in {"output", "exited"} /\ f.first \in Nat /\ f.last \in Nat
    BY <1>1, TailEvents DEF Event
  <2> QED BY <1>1, <2>1, TailEvents DEF IsSnapshot
<1>3. /\ f.kind = "output" => 1 <= f.first /\ f.first <= f.last /\ f.last <= screen
      /\ f.kind = "exited" => f.first = 1 /\ f.last = 0
      /\ \A j \in DOMAIN Tail(inbox[c]) : Before(f, Tail(inbox[c])[j])
      /\ \A j \in DOMAIN batch : Before(f, batch[j])
  BY <1>1, <1>2 DEF StreamInv, InOrder, Seen, Sorted
<1> HIDE DEF f
<1>4. /\ m # NoMirror => ui[c] = "looping"
      /\ Once(m) /\ Settled(m, batch) /\ Settled(m, inbox[c])
      /\ m # <<>> => m[Len(m)] <= screen
  BY DEF StreamInv, Present, Rewinds, Past
<1>5. Fed(c, f) = IF m # NoMirror /\ f.kind = "output" THEN m \o Chunks(f) ELSE m
  BY <1>2, <1>4 DEF Fed
<1>6. ASSUME m # NoMirror, f.kind = "output"
      PROVE  /\ m \o Chunks(f) \in Seq(Nat)
             /\ Once(m \o Chunks(f))
             /\ (m \o Chunks(f))[Len(m \o Chunks(f))] = f.last
             /\ ToSet(m) \cup (f.first .. f.last) \subseteq ToSet(m \o Chunks(f))
  <2>1. f.first \in Nat \ {0} /\ f.first <= f.last /\ f.first <= f.last + 1
    BY <1>2, <1>3, <1>6
  <2>2. (\E i \in Nat : StepsBack(m, i)) => m[Len(m)] < f.first
    BY <1>2, <1>4, <1>6 DEF Settled
  <2>3. Chunks(f) \in Seq(Nat) /\ ToSet(Chunks(f)) = f.first .. f.last
    BY <1>2, <2>1, ChunksOfFrame
  <2> QED BY <1>1, <1>2, <1>4, <2>1, <2>2, <2>3, FedForward, ToSetConcat
<1> HIDE DEF m
<1>7. /\ mirror' \in [Clients -> Seq(Nat)] /\ mirror'[c] = Fed(c, f)
      /\ inbox' \in [Clients -> Seq(Event)] /\ inbox'[c] = Tail(inbox[c])
      /\ \A d \in Clients \ {c} : mirror'[d] = mirror[d] /\ inbox'[d] = inbox[d]
  BY <1>1, <1>2, <1>5, <1>6
<1>8. Typing' /\ Present'
  BY <1>1, <1>7 DEF StreamInv, Typing, Present
<1>9. InOrder'
  <2>1. Seen(Tail(inbox[c]), screen) /\ Sorted(Tail(inbox[c]))
        /\ \A i \in DOMAIN Tail(inbox[c]), j \in DOMAIN batch :
             Before(Tail(inbox[c])[i], batch[j])
    BY <1>2 DEF StreamInv, InOrder, Seen, Sorted
  <2> QED BY <2>1, <1>1, <1>7 DEF StreamInv, InOrder
<1>10. \A d \in Clients \ {c}, k \in Nat : Coming(d, k)' <=> Coming(d, k)
  BY <1>1, <1>7 DEF Coming
<1>11. \A k \in Nat : Coming(c, k) => Coming(c, k)' \/ (f.first <= k /\ k <= f.last)
  BY <1>1, <1>2, <1>7 DEF Coming
<1>12. Shown'
  <2> SUFFICES ASSUME NEW d \in Clients, mirror'[d] # NoMirror, NEW k \in 1 .. screen
               PROVE  k \in ToSet(mirror'[d]) \/ Coming(d, k)'
    BY <1>1 DEF Shown
  <2>1. CASE d = c
    <3>1. m # NoMirror /\ (k \in ToSet(m) \/ Coming(c, k))
      BY <2>1, <1>1, <1>5, <1>7 DEF m, StreamInv, Shown
    <3>2. CASE f.kind = "output"
      BY <3>1, <3>2, <2>1, <1>2, <1>5, <1>6, <1>7, <1>11
    <3>3. CASE f.kind = "exited"
      BY <3>1, <3>3, <2>1, <1>1, <1>3, <1>5, <1>7, <1>11
    <3> QED BY <3>2, <3>3, <1>2
  <2>2. CASE d # c
    BY <2>2, <1>1, <1>7, <1>10 DEF StreamInv, Shown
  <2> QED BY <2>1, <2>2
<1>13. Held'
  <2> SUFFICES ASSUME NEW d \in Clients, request[d] = "held",
                      NEW k \in (answer[d].last + 1) .. screen
               PROVE  Coming(d, k)'
    BY <1>1 DEF Held
  <2>1. d # c /\ answer[d].last \in Nat
    BY <1>1 DEF StreamInv, Typing, Answers
  <2> QED BY <1>1, <2>1, <1>10 DEF StreamInv, Held
<1>14. Rewinds'
  <2> SUFFICES ASSUME NEW d \in Clients
               PROVE  /\ Once(mirror'[d])
                      /\ Settled(mirror'[d], batch) /\ Settled(mirror'[d], inbox'[d])
    BY <1>1 DEF Rewinds
  <2>1. CASE d = c /\ m # NoMirror /\ f.kind = "output"
    BY <2>1, <1>3, <1>5, <1>6, <1>7 DEF Settled, Before
  <2>2. CASE d = c /\ ~(m # NoMirror /\ f.kind = "output")
    BY <2>2, <1>2, <1>4, <1>5, <1>7 DEF Settled
  <2>3. CASE d # c
    BY <2>3, <1>7 DEF StreamInv, Rewinds
  <2> QED BY <2>1, <2>2, <2>3
<1>15. Past'
  <2>1. ASSUME NEW d \in Clients
        PROVE  /\ mirror'[d] # <<>> => mirror'[d][Len(mirror'[d])] <= screen
               /\ request[d] = "held" => answer[d].last <= screen
    BY <1>3, <1>4, <1>5, <1>6, <1>7 DEF StreamInv, Past
  <2> QED BY <2>1, <1>1 DEF Past
<1> QED BY <1>8, <1>9, <1>12, <1>13, <1>14, <1>15 DEF StreamInv

-----------------------------------------------------------------------------
LEMMA StutterStream ==
  ASSUME StreamInv, UNCHANGED vars
  PROVE  StreamInv'
<1> USE DEF vars, host, client, StreamInv
<1>1. Typing' /\ Present'
  BY DEF Typing, Present
<1>2. InOrder' /\ Rewinds' /\ Past'
  BY DEF InOrder, Rewinds, Past
<1>3. Shown' /\ Held'
  BY DEF Shown, Held, Coming
<1> QED BY <1>1, <1>2, <1>3

(* The inductive invariant holds of every behaviour.                       *)
THEOREM StreamInvariant == Spec => []StreamInv
<1>1. Init => StreamInv
  BY InitStream
<1>2. StreamInv /\ [Next]_vars => StreamInv'
  BY QuietKeeps, AskingKeeps, AttachKeeps, TickKeeps, BroadcastKeeps, AnswerKeeps,
     ForwardKeeps, StutterStream DEF Next, ConnectionStep
<1> QED BY <1>1, <1>2, PTL DEF Spec

(* A screen of a UI lacks only chunks that a capture, an attach or the     *)
(* look at an exit drained before the broadcaster could, and it holds the  *)
(* others in the order of the output, stepping back at most once, where    *)
(* the events follow the last snapshot: for any clients and any output.    *)
THEOREM ScreensCompleteHolds == Spec => []ScreensComplete
<1>1. StreamInv => ScreensComplete
  <2> SUFFICES ASSUME StreamInv PROVE ScreensComplete
    OBVIOUS
  <2>1. ASSUME NEW frames \in Seq(Event), NEW k \in Nat, In(k, frames)
        PROVE  k \in ChunksOf(frames)
    <3>1. PICK i \in DOMAIN frames : frames[i].first <= k /\ k <= frames[i].last
      BY <2>1 DEF In
    <3>2. frames[i] \in ToSet(frames) /\ k \in frames[i].first .. frames[i].last
      BY <3>1, EventOf DEF ToSet
    <3> QED BY <3>2 DEF ChunksOf
  <2>2. OnlyStolenChunksMissing
    <3> SUFFICES ASSUME NEW c \in Clients, Shows(c), NEW k \in Missing(c)
                 PROVE  k \in stolen
      BY DEF OnlyStolenChunksMissing
    <3>1. /\ k \in 1 .. screen /\ k \in Nat /\ k \notin ToSet(mirror[c])
          /\ k \notin ChunksOf(batch) /\ k \notin ChunksOf(inbox[c])
          /\ mirror[c] # NoMirror /\ batch \in Seq(Event) /\ inbox[c] \in Seq(Event)
      BY DEF Missing, Shows, StreamInv, Typing
    <3>2. Coming(c, k)
      BY <3>1 DEF StreamInv, Shown
    <3> QED BY <3>1, <3>2, <2>1 DEF Coming
  <2>3. OneRewindAtMost
    BY DEF StreamInv, Rewinds, Once, StepsBack, OneRewindAtMost
  <2> QED BY <2>2, <2>3 DEF ScreensComplete
<1> QED BY <1>1, StreamInvariant, PTL
=============================================================================
