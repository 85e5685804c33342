------------------------------ MODULE TabsProofs -------------------------------
(***************************************************************************)
(* Proofs about the three parts of MCUiTabs.  Of UiTabs: that a window     *)
(* comes into step with its workspace, and that the host does to tabs and  *)
(* panes what was clicked.  Of TabStrip and the palette of Actions: that   *)
(* what is clicked or taken is what is drawn, that a drag moves only the   *)
(* tab that is held, and that what a key or an entry asks for is done.     *)
(*                                                                         *)
(* A snapshot is always on its way to a window that may be out of step:    *)
(* a request for one is the last the UI asked (RequestsEnd), or the last   *)
(* answer is the workspace as it is now (TabsCome).  A request that bears  *)
(* an old name is not answered; then the answer to the rename is still to  *)
(* be read (NameComes), and reading it asks for another snapshot.          *)
(*                                                                         *)
(* For that a tab is any record with an id.  For the second, tabs differ   *)
(* in their ids (HostSound), and every click that waits is right of the    *)
(* tabs as what was asked before it will leave them (ClicksInv).           *)
(*                                                                         *)
(* Where tabs are drawn is a recursive function over them: edges exist and *)
(* grow by what SetInduction says of the numbers for which they do, so     *)
(* that no two parts that answer a press are at one place (TabsBeside).    *)
(* A strip keeps the ids of its tabs apart, and a held tab is one of them  *)
(* (StripSound); a palette keeps what is selected in view (PaletteSound).  *)
(*                                                                         *)
(* An action comes with no arguments, with the index of a goto binding,    *)
(* or with the answer to the question it began with (Fitted): every preset *)
(* names actions that can be run (AllFit), and a question that is open is  *)
(* one an action asks (Asking).  The requests of such an action get the    *)
(* verdicts that are expected from the workspace shown, and only those     *)
(* without a pane get to another (Met).                                    *)
(***************************************************************************)
EXTENDS MCUiTabs, SequenceTheorems, FiniteSetTheorems, WellFoundedInduction, TLAPS

IsSeq(s) == \E S : s \in Seq(S)

IsRequest(r) ==
  /\ "op" \in DOMAIN r
  /\ r.op = "goto-tab" => "index" \in DOMAIN r /\ r.index \in Nat \ {0}

IsTabs(tabs) == IsSeq(tabs) /\ \A i \in DOMAIN tabs : "id" \in DOMAIN tabs[i]

IsHost(h) ==
  /\ h = [name |-> h.name, tabs |-> h.tabs, active |-> h.active, detached |-> h.detached, next |-> h.next]
  /\ IsTabs(h.tabs) /\ h.active \in 1 .. Len(h.tabs)

IsView(u) ==
  /\ u = [tabs |-> u.tabs, active |-> u.active, detached |-> u.detached, title |-> u.title, strip |-> u.strip,
          lit |-> u.lit, name |-> u.name]
  /\ IsTabs(u.tabs) /\ IsSeq(u.strip) /\ DOMAIN u.strip = DOMAIN u.tabs

Renames(answer) == "renamed" \in DOMAIN answer

RequestsKnown(a) == IsSeq(a) /\ \A i \in DOMAIN a : IsRequest(a[i])

AnswersKnown(a) == IsSeq(a) /\ \A i \in DOMAIN a : Renames(a[i]) \/ IsHost(a[i])

Typing ==
  IsHost(host) /\ IsView(ui) /\ RequestsKnown(asked) /\ AnswersKnown(inbox)

(* The last that was asked is a snapshot.                                  *)
RequestsEnd == asked # <<>> => asked[Len(asked)].op = "refresh"

(* The last name that is on its way, or else the name the bridge has, is   *)
(* the name of the workspace, if no other client ever named it.            *)
LastName(answers, i) == Renames(answers[i]) /\ \A j \in DOMAIN answers : j > i => ~Renames(answers[j])

NameIs(answers, known, name) ==
  \/ \E i \in DOMAIN answers : LastName(answers, i) /\ answers[i].renamed = name
  \/ (\A i \in DOMAIN answers : ~Renames(answers[i])) /\ known = name

NameComes == "name" \notin foreign => NameIs(inbox, ui.name, host.name)

(* The window shows the tabs of a workspace, but for what it moved.        *)
Alike(u, h, shift) ==
  /\ u.title = h.name /\ Ids(u.tabs) = Ids(h.tabs)
  /\ "tab" \in shift \/ u.active = h.active
  /\ "strip" \in shift \/ \A i \in DOMAIN u.strip : u.strip[i] = i
  /\ "focus" \in shift \/ \A i \in DOMAIN u.tabs : u.tabs[i] = h.tabs[i]

TabsCome ==
  foreign = {} =>
    \/ asked # <<>> \/ (\E i \in DOMAIN inbox : Renames(inbox[i]))
    \/ inbox # <<>> /\ inbox[Len(inbox)] = host
    \/ inbox = <<>> /\ Alike(ui, host, moved)

TabsInv == Typing /\ RequestsEnd /\ NameComes /\ TabsCome

-----------------------------------------------------------------------------
(* Sequences of whatever they are of.                                      *)

LEMMA SeqDomain ==
  ASSUME NEW s, IsSeq(s)
  PROVE  Len(s) \in Nat /\ DOMAIN s = 1 .. Len(s) /\ (s # <<>> => Len(s) \in 1 .. Len(s)) /\ (s = <<>> => Len(s) = 0)
BY DEF IsSeq

LEMMA SeqTail ==
  ASSUME NEW s, IsSeq(s), s # <<>>
  PROVE  /\ IsSeq(Tail(s)) /\ DOMAIN Tail(s) = 1 .. (Len(s) - 1) /\ Len(Tail(s)) = Len(s) - 1
         /\ \A i \in DOMAIN Tail(s) : Tail(s)[i] = s[i + 1]
<1>1. PICK S : s \in Seq(S)
  BY DEF IsSeq
<1> QED BY <1>1 DEF IsSeq

LEMMA SeqAppend ==
  ASSUME NEW s, IsSeq(s), NEW e
  PROVE  /\ IsSeq(Append(s, e)) /\ DOMAIN Append(s, e) = 1 .. (Len(s) + 1) /\ Len(Append(s, e)) = Len(s) + 1
         /\ \A i \in DOMAIN s : Append(s, e)[i] = s[i]
         /\ Append(s, e)[Len(s) + 1] = e /\ Append(s, e) # <<>>
<1>1. PICK S : s \in Seq(S)
  BY DEF IsSeq
<1>2. s \in Seq(S \cup {e})
  BY <1>1
<1>3. Append(s, e) \in Seq(S \cup {e})
  BY <1>2
<1> QED BY <1>2, <1>3 DEF IsSeq

LEMMA SeqJoin ==
  ASSUME NEW s, IsSeq(s), NEW t, IsSeq(t)
  PROVE  /\ IsSeq(s \o t) /\ DOMAIN (s \o t) = 1 .. (Len(s) + Len(t)) /\ Len(s \o t) = Len(s) + Len(t)
         /\ \A i \in DOMAIN s : (s \o t)[i] = s[i]
         /\ \A i \in DOMAIN t : (s \o t)[Len(s) + i] = t[i]
<1>1. PICK S : s \in Seq(S)
  BY DEF IsSeq
<1>2. PICK T : t \in Seq(T)
  BY DEF IsSeq
<1>3. s \in Seq(S \cup T) /\ t \in Seq(S \cup T)
  BY <1>1, <1>2
<1>4. s \o t \in Seq(S \cup T)
  BY <1>3
<1> QED BY <1>3, <1>4 DEF IsSeq

LEMMA SeqFrom ==
  ASSUME NEW n \in Nat, NEW s, DOMAIN s = 1 .. n, s = [i \in 1 .. n |-> s[i]]
  PROVE  IsSeq(s) /\ Len(s) = n
<1> DEFINE S == {s[i] : i \in 1 .. n}
<1>1. [i \in 1 .. n |-> s[i]] \in Seq(S)
  OBVIOUS
<1>2. s \in Seq(S)
  BY <1>1
<1> QED BY <1>2, SMTT(30) DEF IsSeq

(* One place of a sequence changes.                                        *)
LEMMA SeqSet ==
  ASSUME NEW s, IsSeq(s), NEW i, NEW e
  PROVE  /\ IsSeq([s EXCEPT ![i] = e]) /\ DOMAIN [s EXCEPT ![i] = e] = DOMAIN s /\ Len([s EXCEPT ![i] = e]) = Len(s)
         /\ \A j \in DOMAIN s : [s EXCEPT ![i] = e][j] = IF j = i THEN e ELSE s[j]
         /\ i \notin DOMAIN s => [s EXCEPT ![i] = e] = s
<1> DEFINE t == [s EXCEPT ![i] = e]
<1>1. Len(s) \in Nat /\ DOMAIN s = 1 .. Len(s)
  BY SeqDomain
<1>2. t = [j \in 1 .. Len(s) |-> IF j = i THEN e ELSE s[j]]
  BY <1>1
<1>3. DOMAIN t = 1 .. Len(s) /\ t = [j \in 1 .. Len(s) |-> t[j]]
  BY <1>1, <1>2
<1>4. \A j \in DOMAIN s : t[j] = IF j = i THEN e ELSE s[j]
  BY <1>1, <1>2
<1>5. ASSUME i \notin DOMAIN s PROVE t = s
  <2>1. PICK S : s \in Seq(S)
    BY DEF IsSeq
  <2>2. s = [j \in 1 .. Len(s) |-> s[j]]
    BY <2>1
  <2> QED BY <1>1, <1>2, <1>5, <2>2
<1> HIDE DEF t
<1>6. IsSeq(t) /\ Len(t) = Len(s)
  BY <1>1, <1>3, SeqFrom
<1> QED BY <1>1, <1>3, <1>4, <1>5, <1>6 DEF t

(* A tab is taken out of a sequence.                                       *)
LEMMA SeqTaken ==
  ASSUME NEW S, NEW s \in Seq(S), NEW i \in 1 .. Len(s)
  PROVE  /\ RemoveAt(s, i) \in Seq(S) /\ Len(RemoveAt(s, i)) = Len(s) - 1
         /\ \A j \in 1 .. (Len(s) - 1) : RemoveAt(s, i)[j] = s[IF j < i THEN j ELSE j + 1]
<1> DEFINE before == SubSeq(s, 1, i - 1)
           after == SubSeq(s, i + 1, Len(s))
<1>1. /\ before \in Seq(S) /\ Len(before) = i - 1 /\ \A j \in 1 .. (i - 1) : before[j] = s[j]
      /\ after \in Seq(S) /\ Len(after) = Len(s) - i /\ \A j \in 1 .. (Len(s) - i) : after[j] = s[i + j]
      /\ i \in Nat /\ Len(s) \in Nat
  OBVIOUS
<1>2. RemoveAt(s, i) = before \o after
  BY DEF RemoveAt
<1> HIDE DEF before, after
<1>3. before \o after \in Seq(S) /\ Len(before \o after) = Len(s) - 1
  <2>1. before \o after \in Seq(S) /\ Len(before \o after) = Len(before) + Len(after)
    BY <1>1, ConcatProperties
  <2>2. (i - 1) + (Len(s) - i) = Len(s) - 1
    BY <1>1
  <2> QED BY <1>1, <2>1, <2>2
<1>4. \A j \in 1 .. (Len(s) - 1) : (before \o after)[j] = IF j <= i - 1 THEN before[j] ELSE after[j - (i - 1)]
  BY <1>1
<1>5. ASSUME NEW j \in 1 .. (Len(s) - 1) PROVE (before \o after)[j] = s[IF j < i THEN j ELSE j + 1]
  <2>1. CASE j < i
    <3>1. j \in 1 .. (i - 1) /\ j <= i - 1
      BY <1>1, <2>1
    <3> QED BY <1>1, <1>4, <2>1, <3>1
  <2>2. CASE j >= i
    <3> DEFINE m == j - (i - 1)
    <3>1. m \in 1 .. (Len(s) - i) /\ i + m = j + 1 /\ ~(j <= i - 1) /\ ~(j < i)
      BY <1>1, <2>2
    <3> HIDE DEF m
    <3>2. after[m] = s[i + m]
      BY <1>1, <3>1
    <3>3. (before \o after)[j] = after[m]
      BY <1>4, <3>1 DEF m
    <3> QED BY <3>1, <3>2, <3>3
  <2> QED BY <1>1, <2>1, <2>2
<1> QED BY <1>2, <1>3, <1>5

LEMMA SeqRemoved ==
  ASSUME NEW s, IsSeq(s), NEW i \in 1 .. Len(s)
  PROVE  /\ IsSeq(RemoveAt(s, i)) /\ Len(RemoveAt(s, i)) = Len(s) - 1
         /\ DOMAIN RemoveAt(s, i) = 1 .. (Len(s) - 1)
         /\ \A j \in 1 .. (Len(s) - 1) : RemoveAt(s, i)[j] = s[IF j < i THEN j ELSE j + 1]
<1>1. PICK S : s \in Seq(S)
  BY DEF IsSeq
<1>2. /\ RemoveAt(s, i) \in Seq(S) /\ Len(RemoveAt(s, i)) = Len(s) - 1
      /\ \A j \in 1 .. (Len(s) - 1) : RemoveAt(s, i)[j] = s[IF j < i THEN j ELSE j + 1]
  BY <1>1, SeqTaken
<1>3. DOMAIN RemoveAt(s, i) = 1 .. (Len(s) - 1)
  BY <1>2
<1> QED BY <1>2, <1>3 DEF IsSeq

-----------------------------------------------------------------------------
(* Tabs stay tabs, and what the UI moves leaves them their ids.            *)

LEMMA TabsSet ==
  ASSUME NEW tabs, IsTabs(tabs), NEW i, NEW tab, "id" \in DOMAIN tab
  PROVE  IsTabs([tabs EXCEPT ![i] = tab]) /\ Len([tabs EXCEPT ![i] = tab]) = Len(tabs)
BY SeqSet DEF IsTabs

LEMMA IdsKept ==
  ASSUME NEW tabs, IsTabs(tabs), NEW i, NEW tab, tab.id = tabs[i].id
  PROVE  Ids([tabs EXCEPT ![i] = tab]) = Ids(tabs)
BY SeqSet DEF IsTabs, Ids

LEMMA TurnedTab ==
  ASSUME NEW tab, NEW step
  PROVE  DOMAIN Turned(tab, step) = DOMAIN tab
BY DEF Turned

LEMMA TabsAppend ==
  ASSUME NEW tabs, IsTabs(tabs), NEW tab, "id" \in DOMAIN tab
  PROVE  IsTabs(Append(tabs, tab)) /\ Len(Append(tabs, tab)) = Len(tabs) + 1
<1>1. Len(tabs) \in Nat /\ DOMAIN tabs = 1 .. Len(tabs)
  BY SeqDomain DEF IsTabs
<1> QED BY <1>1, SeqAppend DEF IsTabs

LEMMA TabsRemoved ==
  ASSUME NEW tabs, IsTabs(tabs), NEW i \in 1 .. Len(tabs)
  PROVE  IsTabs(RemoveAt(tabs, i)) /\ Len(RemoveAt(tabs, i)) = Len(tabs) - 1
<1>1. \A j \in 1 .. (Len(tabs) - 1) : (IF j < i THEN j ELSE j + 1) \in DOMAIN tabs
  BY SeqDomain DEF IsTabs
<1> QED BY <1>1, SeqRemoved, ZenonT(30) DEF IsTabs

(* handle_invoke_action leaves a workspace with an active tab, and only a  *)
(* rename gives it a name.                                                 *)
LEMMA DoneIsHost ==
  ASSUME NEW h, IsHost(h), NEW r, r.op = "goto-tab" => r.index \in Nat \ {0}, NEW starts \in BOOLEAN
  PROVE  /\ IsHost(Done(h, r, starts))
         /\ r.op # "rename" => Done(h, r, starts).name = h.name
         /\ r.op = "rename" => Done(h, r, starts).name = r.name
         /\ r.op = "refresh" => Done(h, r, starts) = h
<1> DEFINE n == Len(h.tabs)
           D == Done(h, r, starts)
<1>1. n \in Nat /\ h.active \in 1 .. n /\ DOMAIN h.tabs = 1 .. n /\ IsTabs(h.tabs)
  BY SeqDomain DEF IsHost, IsTabs
<1>2. ASSUME NEW a \in 1 .. n PROVE IsHost([h EXCEPT !.active = a]) /\ [h EXCEPT !.active = a].name = h.name
  BY <1>1, <1>2 DEF IsHost
<1>3. ASSUME NEW tabs, IsTabs(tabs), Len(tabs) = n
      PROVE  IsHost([h EXCEPT !.tabs = tabs]) /\ [h EXCEPT !.tabs = tabs].name = h.name
  BY <1>1, <1>3 DEF IsHost
<1>4. CASE r.op = "next-tab"
  <2>1. D = [h EXCEPT !.active = (h.active % n) + 1]
    BY <1>4 DEF Done
  <2>2. (h.active % n) + 1 \in 1 .. n
    BY <1>1
  <2> QED BY <1>2, <1>4, <2>1, <2>2
<1>5. CASE r.op = "prev-tab"
  <2> DEFINE a == IF h.active = 1 THEN n ELSE h.active - 1
  <2>1. D = [h EXCEPT !.active = a]
    BY <1>5 DEF Done
  <2>2. a \in 1 .. n
    BY <1>1
  <2> HIDE DEF a
  <2> QED BY <1>2, <1>5, <2>1, <2>2
<1>6. CASE r.op = "goto-tab"
  <2>1. D = IF r.index <= n THEN [h EXCEPT !.active = r.index] ELSE h
    BY <1>6 DEF Done
  <2>2. r.index <= n => r.index \in 1 .. n
    BY <1>1, <1>6
  <2> QED BY <1>2, <1>6, <2>1, <2>2
<1>7. CASE r.op = "close-tab"
  <2> DEFINE a == IF h.active = n THEN h.active - 1 ELSE h.active
             left == RemoveAt(h.tabs, h.active)
  <2>1. D = IF n = 1 THEN h ELSE [h EXCEPT !.tabs = left, !.active = a]
    BY <1>7 DEF Done, TabClosed
  <2>2. IsTabs(left) /\ Len(left) = n - 1
    BY <1>1, TabsRemoved
  <2>3. n # 1 => a \in 1 .. (n - 1)
    <3> HIDE DEF n
    <3> QED BY <1>1
  <2> HIDE DEF a, left
  <2>4. IsHost(D) /\ D.name = h.name
    BY <1>1, <2>1, <2>2, <2>3 DEF IsHost
  <2> QED BY <1>7, <2>4
<1>8. CASE r.op = "new-tab"
  <2> DEFINE tab == [id |-> h.next, name |-> n + 1, panes |-> <<h.next>>, focus |-> h.next]
             more == Append(h.tabs, tab)
             cut == IF starts THEN h.detached ELSE h.detached \cup {h.next}
  <2>1. D = IF n = MaxTabs THEN h
            ELSE [h EXCEPT !.tabs = more, !.active = n + 1, !.next = h.next + 1, !.detached = cut]
    BY <1>8 DEF Done, TabAdded, IsHost
  <2>2. IsTabs(more) /\ Len(more) = n + 1
    BY <1>1, TabsAppend
  <2>3. n + 1 \in 1 .. (n + 1)
    BY <1>1
  <2> HIDE DEF more, cut
  <2>4. IsHost(D) /\ D.name = h.name
    BY <1>1, <2>1, <2>2, <2>3 DEF IsHost
  <2> QED BY <1>8, <2>4
<1>9. CASE r.op = "rename"
  <2>1. D = [h EXCEPT !.name = r.name]
    BY <1>9 DEF Done
  <2>2. IsHost(D) /\ D.name = r.name
    BY <1>1, <2>1 DEF IsHost
  <2> QED BY <1>9, <2>2
<1>10. CASE r.op = "focus"
  <2> DEFINE tabs == [h.tabs EXCEPT ![h.active] = Turned(@, r.step)]
  <2>1. D = h \/ D = [h EXCEPT !.tabs = tabs]
    BY <1>10 DEF Done
  <2>2. "id" \in DOMAIN Turned(h.tabs[h.active], r.step)
    BY <1>1, TurnedTab DEF IsTabs
  <2>3. IsTabs(tabs) /\ Len(tabs) = n
    BY <1>1, <2>2, TabsSet
  <2> HIDE DEF tabs
  <2>4. IsHost(D) /\ D.name = h.name
    BY <1>3, <2>1, <2>3
  <2> QED BY <1>10, <2>4
<1>11. CASE r.op = "close-pane"
  <2> DEFINE p == Resolved(h, r.target)
             i == CHOOSE j \in DOMAIN h.tabs : p \in ToSet(h.tabs[j].panes)
             left == ToSet(h.tabs[i].panes) \ {p}
             first == CHOOSE q \in left : TRUE
             one == <<first>>
             tab == [h.tabs[i] EXCEPT !.panes = one, !.focus = first]
             tabs == [h.tabs EXCEPT ![i] = tab]
  <2>1. D = h \/ D = PaneClosed(h, p)
    BY <1>11 DEF Done
  <2>2. PaneClosed(h, p) = IF left = {} THEN h ELSE [h EXCEPT !.tabs[i].panes = one, !.tabs[i].focus = first]
    BY DEF PaneClosed
  <2> HIDE DEF left, first, one, p
  <2>3. i \in DOMAIN h.tabs => "id" \in DOMAIN tab
    BY <1>1 DEF IsTabs
  <2>4. i \in DOMAIN h.tabs => IsTabs(tabs) /\ Len(tabs) = n
    BY <1>1, <2>3, TabsSet
  <2>5. i \notin DOMAIN h.tabs => tabs = h.tabs
    <3>1. IsSeq(h.tabs)
      BY <1>1 DEF IsTabs
    <3> HIDE DEF i, tab
    <3> QED BY <3>1, SeqSet
  <2>6. IsTabs(tabs) /\ Len(tabs) = n
    BY <1>1, <2>4, <2>5
  <2> HIDE DEF i
  <2>7. [h EXCEPT !.tabs[i].panes = one, !.tabs[i].focus = first] = [h EXCEPT !.tabs = tabs]
    BY <1>1 DEF IsHost
  <2> HIDE DEF tab, tabs
  <2>8. IsHost(D) /\ D.name = h.name
    BY <1>3, <2>1, <2>2, <2>6, <2>7
  <2> QED BY <1>11, <2>8
<1>12. CASE r.op \notin {"next-tab", "prev-tab", "goto-tab", "close-tab", "new-tab", "rename", "focus", "close-pane"}
  <2>1. D = h
    BY <1>12 DEF Done
  <2> QED BY <1>12, <2>1
<1> QED BY <1>4, <1>5, <1>6, <1>7, <1>8, <1>9, <1>10, <1>11, <1>12

-----------------------------------------------------------------------------
(* What the UI asks.                                                       *)

LEMMA RequestsMore ==
  ASSUME NEW a, RequestsKnown(a), NEW b, RequestsKnown(b)
  PROVE  RequestsKnown(a \o b) /\ (b # <<>> => a \o b # <<>> /\ (a \o b)[Len(a \o b)] = b[Len(b)])
<1>1. IsSeq(a) /\ IsSeq(b)
  BY DEF RequestsKnown
<1>2. Len(a) \in Nat /\ Len(b) \in Nat /\ DOMAIN a = 1 .. Len(a) /\ DOMAIN b = 1 .. Len(b)
      /\ (b # <<>> => Len(b) \in 1 .. Len(b))
  BY <1>1, SeqDomain
<1>3. /\ IsSeq(a \o b) /\ DOMAIN (a \o b) = 1 .. (Len(a) + Len(b)) /\ Len(a \o b) = Len(a) + Len(b)
      /\ \A i \in DOMAIN a : (a \o b)[i] = a[i]
      /\ \A i \in DOMAIN b : (a \o b)[Len(a) + i] = b[i]
  <2>1. IsSeq(a \o b) /\ DOMAIN (a \o b) = 1 .. (Len(a) + Len(b)) /\ Len(a \o b) = Len(a) + Len(b)
    BY <1>1, SeqJoin
  <2>2. \A i \in DOMAIN a : (a \o b)[i] = a[i]
    BY <1>1, SeqJoin
  <2>3. \A i \in DOMAIN b : (a \o b)[Len(a) + i] = b[i]
    <3>1. PICK S : a \in Seq(S)
      BY <1>1 DEF IsSeq
    <3>2. PICK T : b \in Seq(T)
      BY <1>1 DEF IsSeq
    <3>3. a \in Seq(S \cup T) /\ b \in Seq(S \cup T)
      BY <3>1, <3>2
    <3> QED BY <3>3
  <2> QED BY <2>1, <2>2, <2>3
<1> DEFINE c == a \o b
<1> HIDE DEF c
<1>4. ASSUME NEW i \in DOMAIN c PROVE IsRequest(c[i])
  <2>1. CASE i \in DOMAIN a
    BY <1>3, <2>1 DEF c, RequestsKnown
  <2>2. CASE i \notin DOMAIN a
    <3> DEFINE j == i - Len(a)
    <3>1. j \in DOMAIN b /\ i = Len(a) + j
      BY <1>2, <1>3, <2>2 DEF c
    <3> HIDE DEF j
    <3>2. c[i] = b[j]
      BY <1>3, <3>1 DEF c
    <3> QED BY <3>1, <3>2 DEF RequestsKnown
  <2> QED BY <2>1, <2>2
<1>5. b # <<>> => c # <<>> /\ c[Len(c)] = b[Len(b)]
  <2> SUFFICES ASSUME b # <<>> PROVE c # <<>> /\ c[Len(c)] = b[Len(b)]
    OBVIOUS
  <2>1. Len(c) = Len(a) + Len(b) /\ Len(b) \in DOMAIN b
    BY <1>2, <1>3 DEF c
  <2>2. Len(c) # 0
    BY <1>2, <2>1
  <2>3. c # <<>>
    BY <2>2
  <2> QED BY <1>3, <2>1, <2>3 DEF c
<1> QED BY <1>3, <1>4, <1>5 DEF c, RequestsKnown

LEMMA RequestsAppend ==
  ASSUME NEW a, RequestsKnown(a), NEW r, IsRequest(r)
  PROVE  RequestsKnown(Append(a, r)) /\ Append(a, r) # <<>> /\ Append(a, r)[Len(Append(a, r))] = r
<1>1. IsSeq(a) /\ Len(a) \in Nat /\ DOMAIN a = 1 .. Len(a)
  BY SeqDomain DEF RequestsKnown
<1>2. /\ IsSeq(Append(a, r)) /\ DOMAIN Append(a, r) = 1 .. (Len(a) + 1) /\ Len(Append(a, r)) = Len(a) + 1
      /\ \A i \in DOMAIN a : Append(a, r)[i] = a[i]
      /\ Append(a, r)[Len(a) + 1] = r /\ Append(a, r) # <<>>
  BY <1>1, SeqAppend
<1> QED BY <1>1, <1>2 DEF RequestsKnown

LEMMA RefreshKnown == IsRequest(Refresh) /\ Refresh.op = "refresh"
BY DEF IsRequest, Refresh

LEMMA OneRequest ==
  ASSUME NEW r, IsRequest(r)
  PROVE  RequestsKnown(<<r>>)
<1> DEFINE s == <<r>>
<1>1. s \in Seq({r})
  OBVIOUS
<1>2. DOMAIN s = {1} /\ s[1] = r
  OBVIOUS
<1> HIDE DEF s
<1>3. RequestsKnown(s)
  BY <1>1, <1>2 DEF RequestsKnown, IsSeq
<1> QED BY <1>3 DEF s

(* send_ui_action asks for a snapshot after what is asked; what the window *)
(* shows meanwhile does not matter.                                        *)
LEMMA AskedInv ==
  ASSUME TabsInv, NEW requests, RequestsKnown(requests), Asks(requests), IsView(ui'), ui'.name = ui.name
  PROVE  TabsInv'
<1>1. asked' = asked \o Append(requests, Refresh) /\ UNCHANGED <<host, inbox, foreign, moved>>
  BY DEF Asks, Ask
<1> DEFINE b == Append(requests, Refresh)
<1>2. RequestsKnown(b) /\ b # <<>> /\ b[Len(b)].op = "refresh"
  BY RequestsAppend, RefreshKnown
<1> HIDE DEF b
<1>3. RequestsKnown(asked')
  BY <1>1, <1>2, RequestsMore DEF TabsInv, Typing, b
<1>4. asked' # <<>> /\ asked'[Len(asked')].op = "refresh"
  BY <1>1, <1>2, RequestsMore DEF TabsInv, Typing, b
<1>5. Typing'
  BY <1>1, <1>3 DEF TabsInv, Typing
<1>6. RequestsEnd'
  BY <1>4 DEF RequestsEnd
<1>7. NameComes'
  BY <1>1 DEF TabsInv, NameComes
<1>8. TabsCome'
  BY <1>1, <1>4 DEF TabsCome
<1> QED BY <1>5, <1>6, <1>7, <1>8 DEF TabsInv

LEMMA GotoKnown ==
  ASSUME NEW i \in DOMAIN ui.strip, IsView(ui)
  PROVE  IsRequest(GotoRequest(i)) /\ IsRequest(CloseRequest(i))
<1>1. i \in Nat \ {0}
  BY SeqDomain DEF IsView, IsTabs
<1>2. GotoRequest(i).op = "goto-tab" /\ GotoRequest(i).index = i /\ "op" \in DOMAIN GotoRequest(i)
      /\ "index" \in DOMAIN GotoRequest(i)
  BY DEF GotoRequest
<1>3. CloseRequest(i).op = "close-tab" /\ "op" \in DOMAIN CloseRequest(i)
  BY DEF CloseRequest
<1> QED BY <1>1, <1>2, <1>3 DEF IsRequest

LEMMA ClickTabInv ==
  ASSUME TabsInv, NEW i \in DOMAIN ui.strip, ClickTab(i)
  PROVE  TabsInv'
<1>1. IsView(ui)
  BY DEF TabsInv, Typing
<1>2. ui' = [ui EXCEPT !.active = i, !.lit = i] /\ Asks(<<GotoRequest(i)>>)
  BY DEF ClickTab
<1>3. IsView(ui') /\ ui'.name = ui.name
  BY <1>1, <1>2 DEF IsView
<1>4. RequestsKnown(<<GotoRequest(i)>>)
  BY <1>1, GotoKnown, OneRequest
<1> QED BY <1>2, <1>3, <1>4, AskedInv

LEMMA GotoTabInv ==
  ASSUME TabsInv, NEW i \in DOMAIN ui.strip, GotoTab(i)
  PROVE  TabsInv'
<1>1. IsView(ui) /\ Asks(<<GotoRequest(i)>>) /\ ui' = ui
  BY DEF TabsInv, Typing, GotoTab
<1>2. RequestsKnown(<<GotoRequest(i)>>)
  BY <1>1, GotoKnown, OneRequest
<1> QED BY <1>1, <1>2, AskedInv

LEMMA CloseClickedInv ==
  ASSUME TabsInv, NEW i \in DOMAIN ui.strip, CloseClicked(i)
  PROVE  TabsInv'
<1>1. IsView(ui) /\ ui' = ui
  BY DEF TabsInv, Typing, CloseClicked
<1> DEFINE three == <<GotoRequest(i), Refresh, CloseRequest(i)>>
<1>2. Asks(<<CloseRequest(i)>>) \/ Asks(three)
  BY DEF CloseClicked
<1>3. RequestsKnown(<<CloseRequest(i)>>) /\ RequestsKnown(three)
  <2>1. IsRequest(GotoRequest(i)) /\ IsRequest(CloseRequest(i)) /\ IsRequest(Refresh)
    BY <1>1, GotoKnown, RefreshKnown
  <2>2. three \in Seq({GotoRequest(i), Refresh, CloseRequest(i)})
    OBVIOUS
  <2>3. \A j \in DOMAIN three : three[j] \in {GotoRequest(i), Refresh, CloseRequest(i)}
    BY <2>2
  <2> QED BY <2>1, <2>2, <2>3, OneRequest DEF RequestsKnown, IsSeq
<1> QED BY <1>1, <1>2, <1>3, AskedInv

(* The requests that name no tab; RequestsKnown asks nothing of them.      *)
LEMMA NothingAsked == RequestsKnown(<<>>)
<1>1. <<>> \in Seq({})
  OBVIOUS
<1> QED BY <1>1 DEF RequestsKnown, IsSeq

LEMMA OtherRequestsInv ==
  ASSUME TabsInv, CloseTab \/ OtherTab \/ ClosePane \/ \E name \in Names : Rename(name)
  PROVE  TabsInv'
<1>1. IsView(ui)
  BY DEF TabsInv, Typing
<1>2. ASSUME NEW requests, RequestsKnown(requests), Asks(requests), ui' = ui PROVE TabsInv'
  BY <1>1, <1>2, AskedInv
<1>3. CASE CloseTab
  <2> DEFINE r == CloseRequest(ui.lit)
  <2>1. IsRequest(r)
    BY DEF CloseRequest, IsRequest
  <2>2. RequestsKnown(<<r>>)
    BY <2>1, OneRequest
  <2> QED BY <1>2, <1>3, <2>2 DEF CloseTab
<1>4. CASE OtherTab
  <2>1. PICK op \in {"next-tab", "prev-tab", "new-tab"} : Asks(<<[op |-> op]>>) /\ ui' = ui
    BY <1>4 DEF OtherTab
  <2>2. IsRequest([op |-> op])
    BY DEF IsRequest
  <2> QED BY <1>2, <2>1, <2>2, OneRequest
<1>5. CASE ClosePane
  <2>1. PICK target, meant, sound :
          Asks(<<[op |-> "close-pane", target |-> target, meant |-> meant, sound |-> sound]>>) /\ ui' = ui
    BY <1>5 DEF ClosePane
  <2>2. IsRequest([op |-> "close-pane", target |-> target, meant |-> meant, sound |-> sound])
    BY DEF IsRequest
  <2> QED BY <1>2, <2>1, <2>2, OneRequest
<1>6. ASSUME NEW name \in Names, Rename(name) PROVE TabsInv'
  <2> DEFINE r == [op |-> "rename", name |-> name]
  <2>1. IsRequest(r)
    BY DEF IsRequest
  <2>2. RequestsKnown(<<r, Refresh>>)
    <3> HIDE DEF r
    <3> DEFINE two == <<r, Refresh>>
    <3>1. two \in Seq({r, Refresh})
      OBVIOUS
    <3>2. \A j \in DOMAIN two : two[j] \in {r, Refresh}
      BY <3>1
    <3> QED BY <2>1, <3>1, <3>2, RefreshKnown DEF RequestsKnown, IsSeq
  <2> QED BY <1>2, <1>6, <2>2 DEF Rename
<1> QED BY <1>3, <1>4, <1>5, <1>6

LEMMA MoveFocusInv ==
  ASSUME TabsInv, NEW step, MoveFocus(step)
  PROVE  TabsInv'
<1> DEFINE tab == Turned(ActiveTab, step)
           tabs == [ui.tabs EXCEPT ![ui.active] = tab]
           r == [op |-> "focus", step |-> step, target |-> Target(ActiveTab)]
<1>1. IsView(ui)
  BY DEF TabsInv, Typing
<1>2. ui' = [ui EXCEPT !.tabs[ui.active] = tab] /\ Asks(<<r>>)
  BY DEF MoveFocus, ActiveTab
<1>3. RequestsKnown(<<r>>)
  <2>1. IsRequest(r)
    BY DEF IsRequest
  <2> QED BY <2>1, OneRequest
<1>4. DOMAIN tab = DOMAIN ui.tabs[ui.active]
  BY TurnedTab DEF ActiveTab
<1> HIDE DEF tab, r
<1>5. IsTabs(tabs) /\ DOMAIN tabs = DOMAIN ui.tabs
  BY <1>1, <1>4, SeqSet DEF IsView, IsTabs
<1>6. ui' = [ui EXCEPT !.tabs = tabs]
  BY <1>1, <1>2 DEF IsView
<1> HIDE DEF tabs
<1>7. IsView(ui') /\ ui'.name = ui.name
  BY <1>1, <1>5, <1>6 DEF IsView
<1> QED BY <1>2, <1>3, <1>7, AskedInv

-----------------------------------------------------------------------------
(* What the UI moves on its own.                                           *)

LEMMA LocalInv ==
  ASSUME TabsInv, NEW what, Local(what), IsView(ui'), ui'.name = ui.name,
         Alike(ui, host, moved) => Alike(ui', host, moved \cup what)
  PROVE  TabsInv'
<1>1. UNCHANGED <<host, asked, inbox, foreign>> /\ moved' = moved \cup what
  BY DEF Local
<1>2. Typing' /\ RequestsEnd' /\ NameComes'
  BY <1>1 DEF TabsInv, Typing, RequestsEnd, NameComes
<1>3. TabsCome'
  BY <1>1 DEF TabsInv, TabsCome
<1> QED BY <1>2, <1>3 DEF TabsInv

(* The focus of a tab is set to one of its panes.                          *)
LEMMA FocusSet ==
  ASSUME NEW u, IsView(u), NEW i, NEW p
  PROVE  LET tabs == [u.tabs EXCEPT ![i] = [@ EXCEPT !.focus = p]]
             v == [u EXCEPT !.tabs = tabs]
         IN  /\ v = [u EXCEPT !.tabs[i].focus = p]
             /\ IsView(v) /\ v.tabs = tabs /\ Ids(v.tabs) = Ids(u.tabs)
             /\ v.title = u.title /\ v.strip = u.strip /\ v.name = u.name /\ v.active = u.active
<1> DEFINE tab == [u.tabs[i] EXCEPT !.focus = p]
           tabs == [u.tabs EXCEPT ![i] = tab]
           v == [u EXCEPT !.tabs = tabs]
<1>1. IsTabs(u.tabs) /\ IsSeq(u.tabs)
  BY DEF IsView, IsTabs
<1>2. DOMAIN tab = DOMAIN u.tabs[i]
  OBVIOUS
<1>3. "id" \in DOMAIN u.tabs[i] => tab.id = u.tabs[i].id
  OBVIOUS
<1>4. v = [u EXCEPT !.tabs[i].focus = p]
  BY DEF IsView
<1> HIDE DEF tab
<1>5. IsTabs(tabs) /\ DOMAIN tabs = DOMAIN u.tabs
  BY <1>1, <1>2, SeqSet DEF IsTabs
<1>6. \A j \in DOMAIN u.tabs : tabs[j] = IF j = i THEN tab ELSE u.tabs[j]
  BY <1>1, SeqSet
<1> HIDE DEF tabs
<1>7. Ids(tabs) = Ids(u.tabs)
  <2>1. \A j \in DOMAIN u.tabs : tabs[j].id = u.tabs[j].id
    BY <1>1, <1>3, <1>6 DEF IsTabs
  <2> QED BY <1>5, <2>1 DEF Ids
<1>8. /\ IsView(v) /\ v.tabs = tabs
      /\ v.title = u.title /\ v.strip = u.strip /\ v.name = u.name /\ v.active = u.active
  BY <1>5 DEF IsView
<1> QED BY <1>4, <1>7, <1>8 DEF tab, tabs

LEMMA ClickPaneInv ==
  ASSUME TabsInv, NEW p, ClickPane(p)
  PROVE  TabsInv'
<1>1. IsView(ui) /\ ui' = [ui EXCEPT !.tabs[ui.active].focus = p] /\ Local({"focus"})
  BY DEF TabsInv, Typing, ClickPane
<1>2. /\ IsView(ui') /\ Ids(ui'.tabs) = Ids(ui.tabs)
      /\ ui'.title = ui.title /\ ui'.strip = ui.strip /\ ui'.name = ui.name /\ ui'.active = ui.active
  BY <1>1, FocusSet
<1>3. Alike(ui, host, moved) => Alike(ui', host, moved \cup {"focus"})
  BY <1>2 DEF Alike
<1> QED BY <1>1, <1>2, <1>3, LocalInv

LEMMA GoToAttentionInv ==
  ASSUME TabsInv, NEW i, NEW p, GoToAttention(i, p)
  PROVE  TabsInv'
<1>1. IsView(ui) /\ ui' = [ui EXCEPT !.tabs[i].focus = p, !.active = i, !.lit = i] /\ Local({"focus", "tab"})
  BY DEF TabsInv, Typing, GoToAttention
<1> DEFINE v == [ui EXCEPT !.tabs[i].focus = p]
<1>2. /\ IsView(v) /\ Ids(v.tabs) = Ids(ui.tabs)
      /\ v.title = ui.title /\ v.strip = ui.strip /\ v.name = ui.name
  BY <1>1, FocusSet, SMTT(30)
<1>3. ui' = [v EXCEPT !.active = i, !.lit = i]
  BY <1>1
<1> HIDE DEF v
<1>4. IsView(ui') /\ ui'.tabs = v.tabs /\ ui'.title = v.title /\ ui'.strip = v.strip /\ ui'.name = v.name
  BY <1>2, <1>3 DEF IsView
<1>5. Alike(ui, host, moved) => Alike(ui', host, moved \cup {"focus", "tab"})
  BY <1>2, <1>4 DEF Alike
<1> QED BY <1>1, <1>2, <1>4, <1>5, LocalInv

LEMMA ReorderInv ==
  ASSUME TabsInv, NEW from, NEW to, Reorder(from, to)
  PROVE  TabsInv'
<1>1. PICK order, lit : ui' = [ui EXCEPT !.strip = order, !.lit = lit] /\ IsSeq(order) /\ DOMAIN order = DOMAIN ui.strip
                        /\ Local({"strip"})
  <2> DEFINE at(i) == IF i = to THEN from
                      ELSE IF from < to /\ i \in from .. to THEN i + 1
                      ELSE IF to < from /\ i \in to .. from THEN i - 1 ELSE i
             places == [i \in DOMAIN ui.strip |-> ui.strip[at(i)]]
             lit == CHOOSE i \in DOMAIN ui.strip : at(i) = ui.lit
  <2>1. ui' = [ui EXCEPT !.strip = places, !.lit = lit] /\ Local({"strip"})
    BY DEF Reorder, TabsInv, Typing, IsView
  <2>2. IsSeq(places) /\ DOMAIN places = DOMAIN ui.strip
    <3>1. Len(ui.strip) \in Nat /\ DOMAIN ui.strip = 1 .. Len(ui.strip)
      BY SeqDomain DEF TabsInv, Typing, IsView
    <3>2. DOMAIN places = 1 .. Len(ui.strip) /\ places = [i \in 1 .. Len(ui.strip) |-> places[i]]
      BY <3>1
    <3> HIDE DEF places
    <3> QED BY <3>1, <3>2, SeqFrom
  <2> HIDE DEF places, lit
  <2> QED BY <2>1, <2>2
<1>2. IsView(ui)
  BY DEF TabsInv, Typing
<1>3. IsView(ui') /\ ui'.name = ui.name /\ ui'.tabs = ui.tabs /\ ui'.title = ui.title /\ ui'.active = ui.active
  BY <1>1, <1>2 DEF IsView
<1>4. Alike(ui, host, moved) => Alike(ui', host, moved \cup {"strip"})
  BY <1>3 DEF Alike
<1> QED BY <1>1, <1>3, <1>4, LocalInv

-----------------------------------------------------------------------------
(* The host, its other clients, and the answers.                           *)

LEMMA AnswersAppend ==
  ASSUME NEW a, AnswersKnown(a), NEW answer, Renames(answer) \/ IsHost(answer)
  PROVE  /\ AnswersKnown(Append(a, answer))
         /\ Append(a, answer) # <<>> /\ Append(a, answer)[Len(Append(a, answer))] = answer
         /\ DOMAIN Append(a, answer) = DOMAIN a \cup {Len(a) + 1}
         /\ \A i \in DOMAIN a : i < Len(a) + 1 /\ Append(a, answer)[i] = a[i]
         /\ Append(a, answer)[Len(a) + 1] = answer
<1>1. IsSeq(a) /\ Len(a) \in Nat /\ DOMAIN a = 1 .. Len(a)
  BY SeqDomain DEF AnswersKnown
<1>2. /\ IsSeq(Append(a, answer)) /\ DOMAIN Append(a, answer) = 1 .. (Len(a) + 1)
      /\ Len(Append(a, answer)) = Len(a) + 1
      /\ \A i \in DOMAIN a : Append(a, answer)[i] = a[i]
      /\ Append(a, answer)[Len(a) + 1] = answer /\ Append(a, answer) # <<>>
  BY <1>1, SeqAppend
<1> DEFINE b == Append(a, answer)
<1> HIDE DEF b
<1>3. DOMAIN b = DOMAIN a \cup {Len(a) + 1} /\ \A i \in DOMAIN a : i < Len(a) + 1
  BY <1>1, <1>2 DEF b
<1>4. \A i \in DOMAIN b : Renames(b[i]) \/ IsHost(b[i])
  BY <1>2, <1>3 DEF b, AnswersKnown
<1> QED BY <1>2, <1>3, <1>4 DEF b, AnswersKnown

(* A snapshot answers with no name, a rename with the last one.            *)
LEMMA NameAfterSnapshot ==
  ASSUME NEW a, AnswersKnown(a), NEW known, NEW name, NameIs(a, known, name), NEW h, IsHost(h)
  PROVE  NameIs(Append(a, h), known, name)
<1>1. ~Renames(h)
  BY DEF IsHost, Renames
<1> DEFINE b == Append(a, h)
<1>2. /\ DOMAIN b = DOMAIN a \cup {Len(a) + 1} /\ b[Len(a) + 1] = h
      /\ \A i \in DOMAIN a : b[i] = a[i]
  BY AnswersAppend
<1> HIDE DEF b
<1> QED BY <1>1, <1>2 DEF NameIs, LastName, b

LEMMA NameAfterRename ==
  ASSUME NEW a, AnswersKnown(a), NEW known, NEW answer, Renames(answer)
  PROVE  NameIs(Append(a, answer), known, answer.renamed)
<1> DEFINE b == Append(a, answer)
<1>1. /\ DOMAIN b = DOMAIN a \cup {Len(a) + 1} /\ b[Len(a) + 1] = answer
      /\ \A i \in DOMAIN a : i < Len(a) + 1
  BY AnswersAppend
<1>2. Len(a) \in Nat /\ DOMAIN a = 1 .. Len(a)
  BY SeqDomain DEF AnswersKnown
<1> HIDE DEF b
<1>3. LastName(b, Len(a) + 1)
  <2>1. \A j \in DOMAIN b : ~(j > Len(a) + 1)
    BY <1>1, <1>2
  <2> QED BY <1>1, <2>1 DEF LastName
<1> QED BY <1>1, <1>3 DEF NameIs, b

(* The first answer is read: if it bears the last name, the bridge has it. *)
LEMMA NameAfterRead ==
  ASSUME NEW a, AnswersKnown(a), a # <<>>, NEW known, NEW name, NameIs(a, known, name)
  PROVE  NameIs(Tail(a), IF Renames(a[1]) THEN a[1].renamed ELSE known, name)
<1> DEFINE b == Tail(a)
           n == Len(a)
           now == IF Renames(a[1]) THEN a[1].renamed ELSE known
<1>1. IsSeq(a) /\ n \in Nat /\ DOMAIN a = 1 .. n /\ n \in 1 .. n
  BY SeqDomain DEF AnswersKnown
<1>2. DOMAIN b = 1 .. (n - 1) /\ \A i \in DOMAIN b : b[i] = a[i + 1]
  BY <1>1, SeqTail
<1>3. 1 \in DOMAIN a
  BY <1>1
<1> HIDE DEF b, n
<1>4. CASE \A i \in DOMAIN a : ~Renames(a[i])
  <2>1. known = name
    BY <1>4 DEF NameIs, LastName
  <2>2. \A i \in DOMAIN b : ~Renames(b[i])
    BY <1>1, <1>2, <1>4
  <2>3. ~Renames(a[1])
    BY <1>3, <1>4
  <2> QED BY <2>1, <2>2, <2>3 DEF NameIs, b
<1>5. ASSUME NEW i \in DOMAIN a, LastName(a, i), a[i].renamed = name PROVE NameIs(b, now, name)
  <2>1. CASE i = 1
    <3>1. \A j \in DOMAIN b : ~Renames(b[j])
      BY <1>1, <1>2, <1>5, <2>1 DEF LastName
    <3>2. now = name
      BY <1>5, <2>1 DEF LastName
    <3> QED BY <3>1, <3>2 DEF NameIs
  <2>2. CASE i # 1
    <3> DEFINE k == i - 1
    <3>1. k \in DOMAIN b /\ i = k + 1 /\ k \in Nat
      BY <1>1, <1>2, <2>2
    <3>2. b[k] = a[i]
      BY <1>2, <3>1
    <3> HIDE DEF k
    <3>3. ASSUME NEW j \in DOMAIN b, j > k PROVE ~Renames(b[j])
      <4>1. j + 1 \in DOMAIN a /\ j + 1 > i
        BY <1>1, <1>2, <3>1, <3>3
      <4> QED BY <1>2, <1>5, <4>1 DEF LastName
    <3>4. LastName(b, k)
      BY <1>5, <3>2, <3>3 DEF LastName
    <3> QED BY <1>5, <3>1, <3>2, <3>4 DEF NameIs
  <2> QED BY <2>1, <2>2
<1> QED BY <1>4, <1>5 DEF NameIs, b

(* The rest of the requests still end with one for a snapshot.             *)
LEMMA TailEnds ==
  ASSUME RequestsKnown(asked), asked # <<>>, RequestsEnd
  PROVE  /\ RequestsKnown(Tail(asked)) /\ IsRequest(asked[1])
         /\ Tail(asked) # <<>> => Tail(asked)[Len(Tail(asked))].op = "refresh"
         /\ Tail(asked) = <<>> => asked[1].op = "refresh"
<1>1. IsSeq(asked) /\ Len(asked) \in Nat /\ DOMAIN asked = 1 .. Len(asked) /\ Len(asked) \in 1 .. Len(asked)
  BY SeqDomain DEF RequestsKnown
<1> DEFINE b == Tail(asked)
<1>2. /\ IsSeq(b) /\ DOMAIN b = 1 .. (Len(asked) - 1) /\ Len(b) = Len(asked) - 1
      /\ \A i \in DOMAIN b : b[i] = asked[i + 1]
  BY <1>1, SeqTail
<1>3. (b # <<>> => Len(b) \in 1 .. Len(b)) /\ (b = <<>> => Len(b) = 0)
  BY <1>2, SeqDomain
<1> HIDE DEF b
<1>4. RequestsKnown(b) /\ IsRequest(asked[1])
  BY <1>1, <1>2 DEF RequestsKnown
<1>5. b # <<>> => b[Len(b)].op = "refresh"
  <2> SUFFICES ASSUME b # <<>> PROVE b[Len(b)].op = "refresh"
    OBVIOUS
  <2>1. b[Len(b)] = asked[Len(b) + 1] /\ Len(b) + 1 = Len(asked)
    BY <1>1, <1>2, <1>3
  <2> QED BY <2>1 DEF RequestsEnd
<1>6. b = <<>> => asked[1].op = "refresh"
  <2> SUFFICES ASSUME b = <<>> PROVE asked[1].op = "refresh"
    OBVIOUS
  <2>1. Len(asked) = 1
    BY <1>1, <1>2, <1>3
  <2> QED BY <2>1 DEF RequestsEnd
<1> QED BY <1>4, <1>5, <1>6 DEF b

(* The host does what was asked first; a snapshot bears what it did.       *)
LEMMA ServeInv == TabsInv /\ Serve => TabsInv'
<1> SUFFICES ASSUME TabsInv, Serve PROVE TabsInv'
  OBVIOUS
<1>1. /\ asked # <<>> /\ asked' = Tail(asked) /\ UNCHANGED <<ui, moved>>
      /\ IsHost(host) /\ IsView(ui) /\ RequestsKnown(asked) /\ AnswersKnown(inbox)
  BY DEF Serve, TabsInv, Typing
<1>2. PICK starts \in BOOLEAN : host' = Done(host, asked[1], starts)
  BY DEF Serve
<1>3. /\ RequestsKnown(asked') /\ IsRequest(asked[1]) /\ RequestsEnd'
      /\ asked' = <<>> => asked[1].op = "refresh"
  BY <1>1, TailEnds DEF TabsInv, RequestsEnd
<1>4. /\ IsHost(host')
      /\ asked[1].op # "rename" => host'.name = host.name
      /\ asked[1].op = "rename" => host'.name = asked[1].name
      /\ asked[1].op = "refresh" => host' = host
  BY <1>1, <1>2, <1>3, DoneIsHost DEF IsRequest
<1>5. CASE asked[1].op = "refresh" /\ ui.name = host.name
  <2>1. inbox' = Append(inbox, host) /\ foreign' = foreign \ {"tabs"} /\ host' = host
    BY <1>4, <1>5 DEF Serve
  <2>2. AnswersKnown(inbox') /\ inbox' # <<>> /\ inbox'[Len(inbox')] = host
    BY <1>1, <2>1, AnswersAppend
  <2>3. NameComes'
    <3>1. "name" \notin foreign' => NameIs(inbox, ui.name, host.name)
      BY <2>1 DEF TabsInv, NameComes
    <3> QED BY <1>1, <2>1, <3>1, NameAfterSnapshot DEF NameComes
  <2>4. TabsCome'
    BY <2>1, <2>2 DEF TabsCome
  <2> QED BY <1>1, <1>3, <1>4, <2>2, <2>3, <2>4 DEF TabsInv, Typing
<1>6. CASE asked[1].op = "rename" /\ asked[1].name # host.name
  <2> DEFINE answer == [renamed |-> asked[1].name]
  <2>1. inbox' = Append(inbox, answer) /\ foreign' = foreign
    BY <1>6 DEF Serve
  <2>2. Renames(answer) /\ answer.renamed = host'.name
    BY <1>4, <1>6 DEF Renames
  <2> HIDE DEF answer
  <2>3. AnswersKnown(inbox')
    BY <1>1, <2>1, <2>2, AnswersAppend
  <2>4. NameComes'
    BY <1>1, <2>1, <2>2, NameAfterRename DEF NameComes
  <2>5. asked' # <<>>
    BY <1>3, <1>6
  <2>6. TabsCome'
    BY <2>5 DEF TabsCome
  <2> QED BY <1>1, <1>3, <1>4, <2>3, <2>4, <2>6 DEF TabsInv, Typing
<1>7. CASE ~(asked[1].op = "refresh" /\ ui.name = host.name) /\ ~(asked[1].op = "rename" /\ asked[1].name # host.name)
  <2>1. UNCHANGED <<inbox, foreign>>
    BY <1>7 DEF Serve
  <2>2. host'.name = host.name
    BY <1>4, <1>7
  <2>3. NameComes'
    BY <1>1, <2>1, <2>2 DEF TabsInv, NameComes
  <2>4. TabsCome'
    <3> SUFFICES ASSUME foreign' = {}, asked' = <<>>
                 PROVE  \E i \in DOMAIN inbox' : Renames(inbox'[i])
      BY DEF TabsCome
    <3>1. ui.name # host.name
      BY <1>3, <1>7
    <3>2. NameIs(inbox, ui.name, host.name)
      BY <2>1 DEF TabsInv, NameComes
    <3> QED BY <2>1, <3>1, <3>2 DEF NameIs, LastName
  <2> QED BY <1>1, <1>3, <1>4, <2>1, <2>3, <2>4 DEF TabsInv, Typing
<1> QED BY <1>5, <1>6, <1>7

LEMMA OtherInv ==
  ASSUME TabsInv, NEW r \in Others, Other(r)
  PROVE  TabsInv'
<1>1. /\ host' = Done(host, r, TRUE) /\ foreign' = foreign \cup {IF r.op = "rename" THEN "name" ELSE "tabs"}
      /\ asked' = [i \in DOMAIN asked |->
                     IF asked[i].op \in {"goto-tab", "close-tab"} THEN [asked[i] EXCEPT !.sound = FALSE] ELSE asked[i]]
      /\ UNCHANGED <<ui, inbox, moved>>
  BY DEF Other
<1>2. IsHost(host') /\ (r.op # "rename" => host'.name = host.name)
  BY <1>1, DoneIsHost, UiTabsAssumption DEF TabsInv, Typing
<1>3. Len(asked) \in Nat /\ DOMAIN asked = 1 .. Len(asked)
  BY SeqDomain DEF TabsInv, Typing, RequestsKnown
<1>4. DOMAIN asked' = 1 .. Len(asked) /\ asked' = [i \in 1 .. Len(asked) |-> asked'[i]]
  BY <1>1, <1>3
<1>5. IsSeq(asked') /\ Len(asked') = Len(asked)
  BY <1>3, <1>4, SeqFrom
<1>6. ASSUME NEW i \in DOMAIN asked PROVE IsRequest(asked'[i]) /\ asked'[i].op = asked[i].op
  <2>1. IsRequest(asked[i])
    BY DEF TabsInv, Typing, RequestsKnown
  <2>2. asked'[i] = asked[i] \/ asked'[i] = [asked[i] EXCEPT !.sound = FALSE]
    BY <1>1
  <2>3. ASSUME asked'[i] = [asked[i] EXCEPT !.sound = FALSE]
        PROVE  DOMAIN asked'[i] = DOMAIN asked[i] /\ asked'[i].op = asked[i].op
                 /\ ("index" \in DOMAIN asked[i] => asked'[i].index = asked[i].index)
    BY <2>1, <2>3 DEF IsRequest
  <2> QED BY <2>1, <2>2, <2>3 DEF IsRequest
<1>7. RequestsKnown(asked')
  BY <1>3, <1>4, <1>5, <1>6 DEF RequestsKnown
<1>8. RequestsEnd'
  <2> SUFFICES ASSUME asked' # <<>> PROVE asked'[Len(asked)].op = "refresh"
    BY <1>5 DEF RequestsEnd
  <2>1. Len(asked) \in 1 .. Len(asked)
    BY <1>3, <1>5, SeqDomain
  <2>2. asked # <<>>
    BY <1>3, <2>1
  <2> QED BY <1>3, <1>6, <2>1, <2>2 DEF TabsInv, RequestsEnd
<1>9. NameComes'
  BY <1>1, <1>2 DEF TabsInv, NameComes
<1>10. TabsCome'
  BY <1>1 DEF TabsCome
<1> QED BY <1>1, <1>2, <1>7, <1>8, <1>9, <1>10 DEF TabsInv, Typing

(* The answer to a rename asks anew; a snapshot is shown as it is.         *)
LEMMA ShownView ==
  ASSUME NEW h, IsHost(h), NEW name
  PROVE  IsView(Shown(h, name)) /\ Shown(h, name).name = name /\ Alike(Shown(h, name), h, {})
<1> DEFINE places == [i \in DOMAIN h.tabs |-> i]
<1>1. IsSeq(places) /\ DOMAIN places = DOMAIN h.tabs
  <2>1. Len(h.tabs) \in Nat /\ DOMAIN h.tabs = 1 .. Len(h.tabs)
    BY SeqDomain DEF IsHost, IsTabs
  <2>2. DOMAIN places = 1 .. Len(h.tabs) /\ places = [i \in 1 .. Len(h.tabs) |-> places[i]]
    BY <2>1
  <2> HIDE DEF places
  <2> QED BY <2>1, <2>2, SeqFrom
<1> QED BY <1>1 DEF Shown, IsView, IsHost, Alike

LEMMA ReadInv == TabsInv /\ Read => TabsInv'
<1> SUFFICES ASSUME TabsInv, Read PROVE TabsInv'
  OBVIOUS
<1>1. /\ inbox # <<>> /\ inbox' = Tail(inbox) /\ UNCHANGED <<host, foreign>>
      /\ IsHost(host) /\ IsView(ui) /\ RequestsKnown(asked) /\ AnswersKnown(inbox)
  BY DEF Read, TabsInv, Typing
<1> DEFINE n == Len(inbox)
<1>2. IsSeq(inbox) /\ n \in Nat /\ DOMAIN inbox = 1 .. n /\ n \in 1 .. n
  BY <1>1, SeqDomain DEF AnswersKnown
<1>3. IsSeq(inbox') /\ DOMAIN inbox' = 1 .. (n - 1) /\ Len(inbox') = n - 1 /\ \A i \in DOMAIN inbox' : inbox'[i] = inbox[i + 1]
  BY <1>1, <1>2, SeqTail
<1> HIDE DEF n
<1>4. AnswersKnown(inbox')
  BY <1>1, <1>2, <1>3 DEF AnswersKnown
<1>5. 1 \in DOMAIN inbox /\ (Renames(inbox[1]) \/ IsHost(inbox[1]))
  BY <1>1, <1>2 DEF AnswersKnown
<1>6. CASE Renames(inbox[1])
  <2>1. ui' = [ui EXCEPT !.name = inbox[1].renamed] /\ asked' = Append(asked, Refresh) /\ moved' = moved
    BY <1>6 DEF Read, Renames
  <2>2. IsView(ui') /\ ui'.name = inbox[1].renamed
    BY <1>1, <2>1 DEF IsView
  <2>3. RequestsKnown(asked') /\ asked' # <<>> /\ asked'[Len(asked')].op = "refresh"
    BY <1>1, <2>1, RequestsAppend, RefreshKnown
  <2>4. NameComes'
    BY <1>1, <1>6, <2>2, NameAfterRead DEF TabsInv, NameComes
  <2>5. RequestsEnd' /\ TabsCome'
    BY <2>3 DEF RequestsEnd, TabsCome
  <2> QED BY <1>1, <1>4, <2>2, <2>3, <2>4, <2>5 DEF TabsInv, Typing
<1>7. CASE ~Renames(inbox[1])
  <2> DEFINE h == inbox[1]
  <2>1. ui' = Shown(h, ui.name) /\ moved' = {} /\ asked' = asked
    BY <1>7 DEF Read, Renames
  <2>2. IsHost(h)
    BY <1>5, <1>7
  <2>3. /\ IsView(ui') /\ ui'.name = ui.name /\ Alike(ui', h, {})
    BY <2>1, <2>2, ShownView
  <2>4. NameComes'
    BY <1>1, <1>7, <2>3, NameAfterRead DEF TabsInv, NameComes
  <2>5. RequestsEnd'
    BY <2>1 DEF TabsInv, RequestsEnd
  <2>6. TabsCome'
    <3> SUFFICES ASSUME foreign = {}, asked = <<>>, \A i \in DOMAIN inbox' : ~Renames(inbox'[i])
                 PROVE  \/ inbox' # <<>> /\ inbox'[Len(inbox')] = host
                        \/ inbox' = <<>> /\ Alike(ui', host, moved')
      BY <1>1, <2>1 DEF TabsCome
    <3>1. \A i \in DOMAIN inbox : ~Renames(inbox[i])
      <4> SUFFICES ASSUME NEW i \in DOMAIN inbox, i # 1 PROVE ~Renames(inbox[i])
        BY <1>7
      <4>1. i - 1 \in DOMAIN inbox' /\ (i - 1) + 1 = i
        BY <1>2, <1>3
      <4>2. inbox'[i - 1] = inbox[i]
        BY <1>3, <4>1
      <4> QED BY <4>1, <4>2
    <3>2. inbox[n] = host
      BY <1>1, <3>1 DEF TabsInv, TabsCome, n
    <3>3. CASE n = 1
      <4>1. inbox' = <<>>
        BY <1>3, <3>3 DEF IsSeq
      <4> QED BY <2>1, <2>3, <3>2, <3>3, <4>1
    <3>4. CASE n # 1
      <4>1. n - 1 \in DOMAIN inbox' /\ (n - 1) + 1 = n
        BY <1>2, <1>3, <3>4
      <4>2. inbox'[Len(inbox')] = host
        BY <1>3, <3>2, <4>1
      <4>3. inbox' # <<>>
        BY <4>1
      <4> QED BY <4>2, <4>3
    <3> QED BY <3>3, <3>4
  <2> QED BY <1>1, <1>4, <2>1, <2>3, <2>4, <2>5, <2>6 DEF TabsInv, Typing
<1> QED BY <1>6, <1>7

-----------------------------------------------------------------------------
LEMMA StartsInStep == Init => TabsInv
<1> SUFFICES ASSUME Init PROVE TabsInv
  OBVIOUS
<1>1. host \in Starts /\ ui = Shown(host, host.name) /\ asked = <<>> /\ inbox = <<>> /\ moved = {}
  BY DEF Init
<1>2. IsHost(host)
  <2>1. /\ host \in [name : Names, tabs : Seq([id : Nat, name : Nat, panes : Seq(Nat), focus : Nat]), active : Nat,
                     detached : SUBSET Nat, next : Nat]
        /\ host.active \in DOMAIN host.tabs
    BY <1>1, UiTabsAssumption
  <2>2. IsSeq(host.tabs)
    BY <2>1 DEF IsSeq
  <2>3. \A i \in DOMAIN host.tabs : "id" \in DOMAIN host.tabs[i]
    <3> SUFFICES ASSUME NEW i \in DOMAIN host.tabs PROVE "id" \in DOMAIN host.tabs[i]
      OBVIOUS
    <3>1. host.tabs[i] \in [id : Nat, name : Nat, panes : Seq(Nat), focus : Nat]
      <4>1. ASSUME NEW T, NEW s \in Seq(T), NEW j \in DOMAIN s PROVE s[j] \in T
        OBVIOUS
      <4>2. host.tabs \in Seq([id : Nat, name : Nat, panes : Seq(Nat), focus : Nat])
        BY <2>1
      <4> QED BY <4>1, <4>2, Zenon
    <3> QED BY <3>1
  <2> QED BY <2>1, <2>2, <2>3 DEF IsHost, IsTabs
<1>3. IsView(ui) /\ ui.name = host.name /\ Alike(ui, host, {})
  BY <1>1, <1>2, ShownView
<1>4. AnswersKnown(inbox) /\ RequestsKnown(asked)
  BY <1>1, NothingAsked DEF AnswersKnown, RequestsKnown
<1>5. NameComes
  BY <1>1, <1>3 DEF NameComes, NameIs
<1> QED BY <1>1, <1>2, <1>3, <1>4, <1>5 DEF TabsInv, Typing, RequestsEnd, TabsCome

LEMMA StepKeepsInStep == TabsInv /\ [Next]_vars => TabsInv'
<1> SUFFICES ASSUME TabsInv, [Next]_vars PROVE TabsInv'
  OBVIOUS
<1>1. ASSUME NEW i \in DOMAIN ui.strip, ClickTab(i) \/ GotoTab(i) \/ CloseClicked(i) PROVE TabsInv'
  BY <1>1, ClickTabInv, GotoTabInv, CloseClickedInv
<1>2. ASSUME NEW i \in DOMAIN ui.strip, NEW j \in DOMAIN ui.strip, Reorder(i, j) PROVE TabsInv'
  BY <1>2, ReorderInv
<1>3. ASSUME NEW i \in DOMAIN ui.strip, NEW p \in PanesOf(ui.tabs), GoToAttention(i, p) PROVE TabsInv'
  BY <1>3, GoToAttentionInv
<1>4. ASSUME CloseTab \/ OtherTab \/ ClosePane \/ \E name \in Names : Rename(name) PROVE TabsInv'
  BY <1>4, OtherRequestsInv
<1>5. ASSUME NEW step \in {"next", "prev"}, MoveFocus(step) PROVE TabsInv'
  BY <1>5, MoveFocusInv
<1>6. ASSUME NEW p \in PanesOf(ui.tabs), ClickPane(p) PROVE TabsInv'
  BY <1>6, ClickPaneInv
<1>7. ASSUME NEW r \in Others, Other(r) PROVE TabsInv'
  BY <1>7, OtherInv
<1>8. CASE Serve \/ Read
  BY <1>8, ServeInv, ReadInv
<1>9. CASE UNCHANGED vars
  BY <1>9 DEF vars, TabsInv, Typing, RequestsEnd, NameComes, TabsCome
<1> QED BY <1>1, <1>2, <1>3, <1>4, <1>5, <1>6, <1>7, <1>8, <1>9 DEF Next

(* Whatever clients ask in what order (UiTabs), for any workspaces and any *)
(* number of requests on their way: the last request of a UI is for a      *)
(* snapshot; the last name on its way to it, or else the one it has, is    *)
(* that of the workspace, unless another client renamed it; and the tabs   *)
(* are shown, or the last answer bears them, or there is more to come.     *)
THEOREM TabsInvariant == Spec => []TabsInv
<1>1. Init => TabsInv
  BY StartsInStep
<1>2. TabsInv /\ [Next]_vars => TabsInv'
  BY StepKeepsInStep
<1> QED BY <1>1, <1>2, PTL DEF Spec

(* Once all is answered the window is in step with its workspace           *)
(* (rebuild_from_snapshot after every send_ui_action), also when requests  *)
(* under an old name went unanswered, unless another client acted since.   *)
THEOREM InStepHolds == Spec => []InStep
<1>1. TabsInv => InStep
  <2> SUFFICES ASSUME TabsInv, asked = <<>>, inbox = <<>>, foreign = {}
               PROVE  /\ ui.name = host.name /\ Alike(ui, host, moved)
    BY DEF InStep, Alike
  <2>1. \A i \in DOMAIN inbox : FALSE
    OBVIOUS
  <2>2. ui.name = host.name
    BY <2>1 DEF TabsInv, NameComes, NameIs
  <2>3. Alike(ui, host, moved)
    BY <2>1 DEF TabsInv, TabsCome
  <2> QED BY <2>2, <2>3
<1> QED BY <1>1, TabsInvariant, PTL

-----------------------------------------------------------------------------
(* Numbers up to a bound, one after the other.                             *)

LEMMA Least ==
  ASSUME NEW S \in SUBSET Nat, S # {}
  PROVE  \E x \in S : \A y \in S : x <= y
<1> DEFINE R == {ss \in Nat \X Nat : ss[1] < ss[2]}
<1>1. IsWellFoundedOn(R, Nat)
  BY NatLessThanWellFounded DEF OpToRel
<1>2. PICK x \in S : \A y \in S : <<y, x>> \notin R
  <2> HIDE DEF R
  <2> QED BY <1>1, WFMin
<1>3. ASSUME NEW y \in S, y < x PROVE FALSE
  <2>1. <<y, x>> \in Nat \X Nat /\ <<y, x>>[1] < <<y, x>>[2]
    BY <1>3
  <2>2. <<y, x>> \in R
    BY <2>1
  <2> QED BY <1>2, <1>3, <2>2
<1> QED BY <1>3

LEMMA SetInduction ==
  ASSUME NEW T \in SUBSET Nat, 0 \in T, \A n \in T : n + 1 \in T
  PROVE  T = Nat
<1> SUFFICES ASSUME Nat \ T # {} PROVE FALSE
  OBVIOUS
<1> DEFINE R == {ss \in Nat \X Nat : ss[1] < ss[2]}
<1>1. IsWellFoundedOn(R, Nat)
  BY NatLessThanWellFounded DEF OpToRel
<1>2. PICK x \in Nat \ T : \A y \in Nat \ T : <<y, x>> \notin R
  <2> HIDE DEF R
  <2> QED BY <1>1, WFMin
<1>3. x - 1 \in Nat /\ x - 1 \in T
  <2>1. x # 0 /\ x - 1 \in Nat
    OBVIOUS
  <2>2. ASSUME x - 1 \notin T PROVE FALSE
    <3>1. <<x - 1, x>> \in Nat \X Nat /\ <<x - 1, x>>[1] < <<x - 1, x>>[2]
      BY <2>1
    <3>2. <<x - 1, x>> \in R
      BY <3>1
    <3> QED BY <1>2, <2>1, <2>2, <3>2
  <2> QED BY <2>1, <2>2
<1>4. (x - 1) + 1 \in T /\ (x - 1) + 1 = x
  BY <1>3
<1> QED BY <1>4

LEMMA UpTo ==
  ASSUME NEW n \in Nat, NEW T, 0 \in T, \A k \in 1 .. n : k - 1 \in T => k \in T
  PROVE  \A k \in 0 .. n : k \in T
<1> DEFINE M == {k \in Nat : k <= n => k \in T}
<1>1. 0 \in M
  OBVIOUS
<1>2. ASSUME NEW k \in M PROVE k + 1 \in M
  <2>1. CASE k + 1 <= n
    <3>1. k + 1 \in 1 .. n /\ (k + 1) - 1 = k /\ k <= n
      BY <2>1
    <3> QED BY <3>1
  <2>2. CASE ~(k + 1 <= n)
    BY <2>2
  <2> QED BY <2>1, <2>2
<1>3. M = Nat
  <2>1. M \in SUBSET Nat
    OBVIOUS
  <2> HIDE DEF M
  <2> QED BY <1>1, <1>2, <2>1, SetInduction
<1> QED BY <1>3

(* The host request by request.                                            *)
Then(h, r) == Done(h, r, TRUE)

Spelled(f, h, s, n) == f = [k \in 0 .. n |-> IF k = 0 THEN h ELSE Then(f[k - 1], s[k])]

LEMMA SpelledOut ==
  ASSUME NEW h, NEW s, NEW n \in Nat
  PROVE  \E f : Spelled(f, h, s, n)
<1> DEFINE T == {m \in Nat : \E f : Spelled(f, h, s, m)}
<1>1. 0 \in T
  <2>1. Spelled([k \in 0 .. 0 |-> h], h, s, 0)
    BY DEF Spelled
  <2> QED BY <2>1
<1>2. ASSUME NEW m \in T PROVE m + 1 \in T
  <2>1. PICK f : Spelled(f, h, s, m)
    OBVIOUS
  <2> DEFINE g == [k \in 0 .. m + 1 |-> IF k <= m THEN f[k] ELSE Then(f[m], s[m + 1])]
  <2>2. m \in Nat
    OBVIOUS
  <2>3. ASSUME NEW k \in 0 .. m + 1
        PROVE  g[k] = IF k = 0 THEN h ELSE Then(g[k - 1], s[k])
    <3>1. CASE k <= m
      <4>1. g[k] = f[k] /\ (k # 0 => g[k - 1] = f[k - 1])
        BY <3>1, <2>2
      <4>2. k \in 0 .. m
        BY <3>1, <2>2
      <4>3. f[k] = IF k = 0 THEN h ELSE Then(f[k - 1], s[k])
        BY <2>1, <4>2 DEF Spelled
      <4> QED BY <4>1, <4>3
    <3>2. CASE k > m
      <4>1. k = m + 1 /\ k # 0 /\ k - 1 = m /\ g[k] = Then(f[m], s[m + 1]) /\ g[m] = f[m]
        BY <3>2, <2>2
      <4> QED BY <4>1
    <3> QED BY <3>1, <3>2, <2>2
  <2>4. Spelled(g, h, s, m + 1)
    BY <2>3 DEF Spelled
  <2>5. \E f2 : Spelled(f2, h, s, m + 1)
    <3> HIDE DEF g
    <3> QED BY <2>4
  <2> QED BY <2>2, <2>5
<1>3. T = Nat
  <2>1. T \in SUBSET Nat
    OBVIOUS
  <2> HIDE DEF T
  <2> QED BY <1>1, <1>2, <2>1, SetInduction
<1> QED BY <1>3

LEMMA HandledSpelled ==
  ASSUME NEW h, NEW s, IsSeq(s)
  PROVE  /\ Handled(h, s)[0] = h
         /\ \A k \in 1 .. Len(s) : Handled(h, s)[k] = Then(Handled(h, s)[k - 1], s[k])
<1>1. Len(s) \in Nat
  BY SeqDomain
<1>2. \E f : Spelled(f, h, s, Len(s))
  BY <1>1, SpelledOut
<1> DEFINE g == CHOOSE f : Spelled(f, h, s, Len(s))
<1>3. Spelled(g, h, s, Len(s))
  BY <1>2
<1>4. Handled(h, s) = g
  BY DEF Handled, Spelled, Then
<1> HIDE DEF g
<1>5. \A k \in 0 .. Len(s) : g[k] = IF k = 0 THEN h ELSE Then(g[k - 1], s[k])
  BY <1>3 DEF Spelled
<1>6. g[0] = h /\ \A k \in 1 .. Len(s) : g[k] = Then(g[k - 1], s[k])
  BY <1>1, <1>5
<1> QED BY <1>4, <1>6

-----------------------------------------------------------------------------
(* Workspaces whose tabs can be told apart.                                *)

IsTab(t) ==
  /\ t = [id |-> t.id, name |-> t.name, panes |-> t.panes, focus |-> t.focus]
  /\ t.id \in Nat /\ IsSeq(t.panes) /\ Len(t.panes) <= 2

TabsDiffer(tabs, next) ==
  \A i \in DOMAIN tabs :
    /\ IsTab(tabs[i]) /\ tabs[i].id < next
    /\ \A j \in DOMAIN tabs : tabs[i].id = tabs[j].id => i = j

HostSound(h) == IsHost(h) /\ h.next \in Nat /\ TabsDiffer(h.tabs, h.next)

LEMMA TabReplaced ==
  ASSUME NEW h, HostSound(h), NEW i \in DOMAIN h.tabs, NEW tab, IsTab(tab), tab.id = h.tabs[i].id
  PROVE  LET tabs == [h.tabs EXCEPT ![i] = tab]
         IN  /\ HostSound([h EXCEPT !.tabs = tabs]) /\ DOMAIN tabs = DOMAIN h.tabs
             /\ \A j \in DOMAIN h.tabs : tabs[j] = IF j = i THEN tab ELSE h.tabs[j]
<1> DEFINE tabs == [h.tabs EXCEPT ![i] = tab]
<1>1. IsTabs(h.tabs) /\ IsSeq(h.tabs) /\ h.active \in 1 .. Len(h.tabs)
  BY DEF HostSound, IsHost, IsTabs
<1>2. DOMAIN tabs = DOMAIN h.tabs /\ \A j \in DOMAIN h.tabs : tabs[j] = IF j = i THEN tab ELSE h.tabs[j]
  BY <1>1, SeqSet
<1>3. "id" \in DOMAIN tab
  BY DEF IsTab
<1>4. IsTabs(tabs) /\ Len(tabs) = Len(h.tabs)
  BY <1>1, <1>3, TabsSet
<1> HIDE DEF tabs
<1>5. TabsDiffer(tabs, h.next)
  BY <1>2 DEF HostSound, TabsDiffer
<1>6. HostSound([h EXCEPT !.tabs = tabs])
  BY <1>1, <1>4, <1>5 DEF HostSound, IsHost
<1> QED BY <1>2, <1>6 DEF tabs

LEMMA TurnedSound ==
  ASSUME NEW tab, IsTab(tab), NEW step
  PROVE  IsTab(Turned(tab, step)) /\ Turned(tab, step).id = tab.id
<1>1. PICK p : Turned(tab, step) = [tab EXCEPT !.focus = p]
  BY DEF Turned
<1> QED BY <1>1 DEF IsTab

WithPanes(t, s, f) == [id |-> t.id, name |-> t.name, panes |-> s, focus |-> f]

LEMMA TabWith ==
  ASSUME NEW t, IsTab(t), NEW s, IsSeq(s), Len(s) = 1, NEW f
  PROVE  IsTab(WithPanes(t, s, f)) /\ WithPanes(t, s, f).id = t.id /\ WithPanes(t, s, f).panes = s
<1> DEFINE w == WithPanes(t, s, f)
<1>1. w = [id |-> w.id, name |-> w.name, panes |-> w.panes, focus |-> w.focus] /\ w.id = t.id /\ w.panes = s
  BY DEF WithPanes
<1> HIDE DEF w
<1>2. t.id \in Nat /\ Len(s) <= 2
  BY DEF IsTab
<1>3. IsTab(w)
  BY <1>1, <1>2 DEF IsTab
<1> QED BY <1>1, <1>3 DEF w

LEMMA TabExcept ==
  ASSUME NEW t, IsTab(t), NEW s, NEW f
  PROVE  [t EXCEPT !.panes = s, !.focus = f] = WithPanes(t, s, f)
<1>1. PICK a, b, c, d : t = [id |-> a, name |-> b, panes |-> c, focus |-> d]
  BY DEF IsTab
<1>2. t.id = a /\ t.name = b
  BY <1>1
<1> DEFINE u == [id |-> a, name |-> b, panes |-> s, focus |-> d]
<1>3. [t EXCEPT !.panes = s] = u
  BY <1>1
<1>4. [u EXCEPT !.focus = f] = [id |-> a, name |-> b, panes |-> s, focus |-> f]
  OBVIOUS
<1> HIDE DEF u
<1>5. [[t EXCEPT !.panes = s] EXCEPT !.focus = f] = WithPanes(t, s, f)
  BY <1>2, <1>3, <1>4, Zenon DEF WithPanes
<1> QED BY <1>5

(* A pane closes, and no other.                                            *)
LEMMA PaneClosedSound ==
  ASSUME NEW h, HostSound(h), NEW p \in PanesOf(h.tabs)
  PROVE  /\ HostSound(PaneClosed(h, p))
         /\ PanesOf(h.tabs) \ PanesOf(PaneClosed(h, p).tabs) \subseteq {p}
<1> DEFINE i == CHOOSE j \in DOMAIN h.tabs : p \in ToSet(h.tabs[j].panes)
           left == ToSet(h.tabs[i].panes) \ {p}
           other == CHOOSE q \in left : TRUE
           one == <<other>>
           tab == [h.tabs[i] EXCEPT !.panes = one, !.focus = other]
           tabs == [h.tabs EXCEPT ![i] = tab]
<1>1. i \in DOMAIN h.tabs /\ p \in ToSet(h.tabs[i].panes)
  <2>1. \E j \in DOMAIN h.tabs : p \in ToSet(h.tabs[j].panes)
    BY DEF PanesOf
  <2> QED BY <2>1
<1>2. PaneClosed(h, p) = IF left = {} THEN h ELSE [h EXCEPT !.tabs[i].panes = one, !.tabs[i].focus = other]
  BY DEF PaneClosed
<1>3. left # {} => other \in left
  OBVIOUS
<1> HIDE DEF i, left, other
<1>4. IsSeq(one) /\ Len(one) = 1 /\ ToSet(one) = {other}
  <2>1. one \in Seq({other}) /\ Len(one) = 1 /\ DOMAIN one = {1} /\ one[1] = other
    OBVIOUS
  <2> HIDE DEF one
  <2> QED BY <2>1 DEF IsSeq, ToSet
<1> HIDE DEF one
<1>5. CASE left = {}
  BY <1>2, <1>5
<1>6. CASE left # {}
  <2>1. IsTab(h.tabs[i])
    BY <1>1 DEF HostSound, TabsDiffer
  <2>2. IsTab(tab) /\ tab.id = h.tabs[i].id /\ tab.panes = one
    <3> DEFINE old == h.tabs[i]
    <3>1. tab = [old EXCEPT !.panes = one, !.focus = other] /\ IsTab(old)
      BY <2>1
    <3> HIDE DEF tab, old
    <3>2. tab = WithPanes(old, one, other)
      BY <3>1, TabExcept
    <3>3. IsTab(tab) /\ tab.id = old.id /\ tab.panes = one
      BY <1>4, <3>1, <3>2, TabWith
    <3> QED BY <3>3 DEF old
  <2>3. ToSet(h.tabs[i].panes) \subseteq {p, other}
    <3> DEFINE s == h.tabs[i].panes
    <3>1. IsSeq(s) /\ Len(s) <= 2
      BY <2>1 DEF IsTab
    <3> HIDE DEF s
    <3>2. DOMAIN s \subseteq {1, 2} /\ Len(s) \in Nat /\ DOMAIN s = 1 .. Len(s)
      BY <3>1, SeqDomain
    <3>3. p \in ToSet(s) /\ other \in ToSet(s) /\ other # p
      BY <1>1, <1>3, <1>6 DEF left, s
    <3>4. PICK a \in DOMAIN s, b \in DOMAIN s : s[a] = p /\ s[b] = other
      BY <3>3 DEF ToSet
    <3>5. \A c \in DOMAIN s : c = a \/ c = b
      BY <3>2, <3>3, <3>4
    <3>6. \A c \in DOMAIN s : s[c] \in {p, other}
      BY <3>4, <3>5
    <3>7. ToSet(s) \subseteq {p, other}
      BY <3>6 DEF ToSet
    <3> QED BY <3>7 DEF s
  <2>4. PaneClosed(h, p) = [h EXCEPT !.tabs = tabs]
    <3>1. IsHost(h)
      BY DEF HostSound
    <3>2. [h EXCEPT !.tabs[i].panes = one, !.tabs[i].focus = other] = [h EXCEPT !.tabs = tabs]
      BY <3>1 DEF IsHost
    <3> QED BY <1>2, <1>6, <3>2
  <2> HIDE DEF tab
  <2>5. /\ HostSound([h EXCEPT !.tabs = tabs]) /\ DOMAIN tabs = DOMAIN h.tabs
        /\ \A j \in DOMAIN h.tabs : tabs[j] = IF j = i THEN tab ELSE h.tabs[j]
    BY <1>1, <2>2, TabReplaced
  <2> HIDE DEF tabs
  <2>6. [h EXCEPT !.tabs = tabs].tabs = tabs
    BY DEF HostSound, IsHost
  <2>7. ASSUME NEW x \in PanesOf(h.tabs), x # p PROVE x \in PanesOf(tabs)
    <3>1. PICK j \in DOMAIN h.tabs : x \in ToSet(h.tabs[j].panes)
      BY <2>7 DEF PanesOf
    <3>2. x \in ToSet(tabs[j].panes)
      BY <1>4, <2>2, <2>3, <2>5, <2>7, <3>1
    <3> QED BY <2>5, <3>2 DEF PanesOf
  <2> QED BY <2>4, <2>5, <2>6, <2>7
<1> QED BY <1>5, <1>6

(* A pane that is found is a pane of the workspace.                        *)
LEMMA ResolvedPane ==
  ASSUME NEW h, IsHost(h), NEW target, Resolved(h, target) # 0
  PROVE  /\ Resolved(h, target) \in PanesOf(h.tabs)
         /\ "number" \notin DOMAIN target => Resolved(h, target) = target.pane
<1>1. CASE "number" \in DOMAIN target
  BY <1>1 DEF Resolved
<1>2. CASE "number" \notin DOMAIN target
  <2> DEFINE named == {i \in DOMAIN h.tabs : h.tabs[i].name = target.tab}
             first == CHOOSE i \in named : \A j \in named : i <= j
  <2>1. named # {} /\ target.pane \in ToSet(h.tabs[first].panes) /\ Resolved(h, target) = target.pane
    BY <1>2 DEF Resolved
  <2>2. first \in DOMAIN h.tabs
    <3>1. \E i \in named : \A j \in named : i <= j
      <4>1. named \in SUBSET Nat
        <5>1. DOMAIN h.tabs = 1 .. Len(h.tabs) /\ Len(h.tabs) \in Nat
          BY SeqDomain DEF IsHost, IsTabs
        <5> QED BY <5>1
      <4> HIDE DEF named
      <4> QED BY <2>1, <4>1, Least
    <3>2. first \in named
      BY <3>1
    <3> QED BY <3>2
  <2> HIDE DEF first, named
  <2> QED BY <1>2, <2>1, <2>2 DEF PanesOf
<1> QED BY <1>1, <1>2

(* What another client or the UI asks leaves tabs that can be told apart.  *)
LEMMA DoneSound ==
  ASSUME NEW h, HostSound(h), NEW r, r.op = "goto-tab" => r.index \in Nat \ {0}, NEW starts \in BOOLEAN
  PROVE  HostSound(Done(h, r, starts))
<1> DEFINE n == Len(h.tabs)
           D == Done(h, r, starts)
<1> SUFFICES HostSound(D)
  OBVIOUS
<1>1. /\ n \in Nat /\ h.active \in 1 .. n /\ DOMAIN h.tabs = 1 .. n /\ IsTabs(h.tabs) /\ IsHost(h)
      /\ h.next \in Nat /\ TabsDiffer(h.tabs, h.next)
  BY SeqDomain DEF HostSound, IsHost, IsTabs
<1>2. IsHost(D)
  BY <1>1, DoneIsHost
<1>3. ASSUME D.tabs = h.tabs, D.next = h.next PROVE HostSound(D)
  BY <1>1, <1>2, <1>3 DEF HostSound
<1>4. CASE r.op \in {"next-tab", "prev-tab", "goto-tab", "rename"}
  <2>1. \/ \E a : D = [h EXCEPT !.active = a]
        \/ \E a : D = [h EXCEPT !.name = a]
        \/ D = h
    BY <1>4 DEF Done
  <2>2. D.tabs = h.tabs /\ D.next = h.next
    <3> HIDE DEF D
    <3> QED BY <1>1, <2>1 DEF IsHost
  <2> QED BY <1>3, <2>2
<1>5. CASE r.op = "close-tab"
  <2> DEFINE left == RemoveAt(h.tabs, h.active)
  <2>1. D = TabClosed(h)
    BY <1>5 DEF Done
  <2>2. CASE n = 1
    BY <1>3, <2>1, <2>2 DEF TabClosed
  <2>3. CASE n # 1
    <3>1. PICK a : D = [h EXCEPT !.tabs = left, !.active = a]
      BY <2>1, <2>3 DEF TabClosed
    <3>2. DOMAIN left = 1 .. (n - 1) /\ \A j \in 1 .. (n - 1) : left[j] = h.tabs[IF j < h.active THEN j ELSE j + 1]
      BY <1>1, SeqRemoved DEF IsTabs
    <3> HIDE DEF left, D
    <3>3. D.tabs = left /\ D.next = h.next
      BY <1>1, <3>1 DEF IsHost
    <3> DEFINE at(j) == IF j < h.active THEN j ELSE j + 1
    <3>4. \A j \in 1 .. (n - 1) : at(j) \in DOMAIN h.tabs /\ left[j] = h.tabs[at(j)]
      BY <1>1, <3>2
    <3>5. \A j, k \in 1 .. (n - 1) : at(j) = at(k) => j = k
      BY <1>1
    <3> HIDE DEF at
    <3>6. TabsDiffer(left, h.next)
      <4>1. DOMAIN left = 1 .. (n - 1)
        BY <3>2
      <4>2. \A j \in 1 .. (n - 1) : IsTab(left[j]) /\ left[j].id < h.next
        BY <1>1, <3>4 DEF TabsDiffer
      <4>3. \A j, k \in 1 .. (n - 1) : left[j].id = left[k].id => at(j) = at(k)
        BY <1>1, <3>4 DEF TabsDiffer
      <4> QED BY <3>5, <4>1, <4>2, <4>3 DEF TabsDiffer
    <3> QED BY <1>1, <1>2, <3>3, <3>6 DEF HostSound
  <2> QED BY <2>2, <2>3
<1>6. CASE r.op = "new-tab"
  <2> DEFINE tab == [id |-> h.next, name |-> n + 1, panes |-> <<h.next>>, focus |-> h.next]
             more == Append(h.tabs, tab)
             cut == IF starts THEN h.detached ELSE h.detached \cup {h.next}
  <2>1. D = IF n = MaxTabs THEN h
            ELSE [h EXCEPT !.tabs = more, !.active = n + 1, !.next = h.next + 1, !.detached = cut]
    BY <1>6 DEF Done, TabAdded
  <2>2. DOMAIN more = 1 .. (n + 1) /\ (\A i \in 1 .. n : more[i] = h.tabs[i]) /\ more[n + 1] = tab
    BY <1>1, SeqAppend DEF IsTabs
  <2>3. IsTab(tab) /\ tab.id = h.next
    <3> DEFINE one == <<h.next>>
    <3>1. IsSeq(one) /\ Len(one) = 1
      <4>1. one \in Seq({h.next}) /\ Len(one) = 1
        OBVIOUS
      <4> QED BY <4>1 DEF IsSeq
    <3>2. tab = [id |-> h.next, name |-> n + 1, panes |-> one, focus |-> h.next]
      OBVIOUS
    <3> HIDE DEF one, tab
    <3>3. tab.id = h.next /\ tab.panes = one /\ tab = [id |-> tab.id, name |-> tab.name, panes |-> tab.panes, focus |-> tab.focus]
      BY <3>2
    <3>4. h.next \in Nat /\ Len(one) <= 2
      BY <1>1, <3>1
    <3>5. IsSeq(tab.panes) /\ Len(tab.panes) <= 2 /\ tab.id \in Nat
      BY <3>1, <3>3, <3>4
    <3> QED BY <3>3, <3>5, Zenon DEF IsTab
  <2> HIDE DEF more, cut, tab, D
  <2>4. CASE n = MaxTabs
    BY <1>1, <2>1, <2>4 DEF HostSound
  <2>5. CASE n # MaxTabs
    <3>1. D.tabs = more /\ D.next = h.next + 1
      BY <1>1, <2>1, <2>5 DEF IsHost
    <3>2. ASSUME NEW i \in 1 .. (n + 1)
          PROVE  IsTab(more[i]) /\ more[i].id < h.next + 1 /\ (i <= n => more[i].id < h.next) /\ more[i].id \in Nat
      <4>1. CASE i <= n
        <5>1. i \in DOMAIN h.tabs /\ more[i] = h.tabs[i]
          BY <1>1, <2>2, <4>1
        <5>2. IsTab(more[i]) /\ more[i].id < h.next
          BY <1>1, <5>1 DEF TabsDiffer
        <5>3. more[i].id \in Nat
          BY <5>2 DEF IsTab
        <5> QED BY <1>1, <5>2, <5>3
      <4>2. CASE i = n + 1
        BY <1>1, <2>2, <2>3, <4>2
      <4> QED BY <1>1, <4>1, <4>2
    <3>3. ASSUME NEW i \in 1 .. (n + 1), NEW j \in 1 .. (n + 1), more[i].id = more[j].id PROVE i = j
      <4>1. CASE i <= n /\ j <= n
        <5>1. i \in DOMAIN h.tabs /\ j \in DOMAIN h.tabs /\ more[i] = h.tabs[i] /\ more[j] = h.tabs[j]
          BY <1>1, <2>2, <4>1
        <5> QED BY <1>1, <3>3, <5>1 DEF TabsDiffer
      <4>2. CASE i <= n /\ j = n + 1
        BY <1>1, <2>2, <2>3, <3>2, <3>3, <4>2
      <4>3. CASE i = n + 1 /\ j <= n
        BY <1>1, <2>2, <2>3, <3>2, <3>3, <4>3
      <4> QED BY <1>1, <4>1, <4>2, <4>3
    <3>4. TabsDiffer(more, h.next + 1)
      BY <2>2, <3>2, <3>3 DEF TabsDiffer
    <3> QED BY <1>1, <1>2, <3>1, <3>4 DEF HostSound
  <2> QED BY <2>4, <2>5
<1>7. CASE r.op = "focus"
  <2> DEFINE tab == Turned(h.tabs[h.active], r.step)
             tabs == [h.tabs EXCEPT ![h.active] = tab]
  <2>1. D = h \/ D = [h EXCEPT !.tabs = tabs]
    BY <1>7 DEF Done
  <2>2. IsTab(tab) /\ tab.id = h.tabs[h.active].id
    BY <1>1, TurnedSound DEF TabsDiffer
  <2> HIDE DEF tab
  <2>3. HostSound([h EXCEPT !.tabs = tabs])
    BY <1>1, <2>2, TabReplaced
  <2> QED BY <2>1, <2>3
<1>8. CASE r.op = "close-pane"
  <2>1. D = IF Resolved(h, r.target) = 0 THEN h ELSE PaneClosed(h, Resolved(h, r.target))
    BY <1>8 DEF Done
  <2>2. ASSUME Resolved(h, r.target) # 0 PROVE HostSound(PaneClosed(h, Resolved(h, r.target)))
    BY <1>1, <2>2, ResolvedPane, PaneClosedSound
  <2> QED BY <2>1, <2>2
<1>9. CASE r.op \notin {"next-tab", "prev-tab", "goto-tab", "close-tab", "new-tab", "rename", "focus", "close-pane"}
  BY <1>9 DEF Done
<1> QED BY <1>4, <1>5, <1>6, <1>7, <1>8, <1>9

(* Which panes have a session makes no difference to the tabs.             *)
Same(h, g) ==
  IsHost(h) /\ IsHost(g) /\ h.name = g.name /\ h.tabs = g.tabs /\ h.active = g.active /\ h.next = g.next

(* What an action makes of the tabs, whichever panes have a session.       *)
Fresh(next, name) == [id |-> next, name |-> name, panes |-> <<next>>, focus |-> next]

Refocused(tabs, a, step) == [tabs EXCEPT ![a] = Turned(tabs[a], step)]

Left(tabs, p) ==
  LET i == CHOOSE j \in DOMAIN tabs : p \in ToSet(tabs[j].panes)
      left == ToSet(tabs[i].panes) \ {p}
      other == CHOOSE q \in left : TRUE
  IN  IF left = {} THEN tabs ELSE [tabs EXCEPT ![i] = [tabs[i] EXCEPT !.panes = <<other>>, !.focus = other]]

TabsAfter(tabs, a, next, p, r) ==
  IF r.op = "close-tab" /\ Len(tabs) # 1 THEN RemoveAt(tabs, a)
  ELSE IF r.op = "new-tab" /\ Len(tabs) # MaxTabs THEN Append(tabs, Fresh(next, Len(tabs) + 1))
  ELSE IF r.op = "focus" /\ p # 0 THEN Refocused(tabs, a, r.step)
  ELSE IF r.op = "close-pane" /\ p # 0 THEN Left(tabs, p)
  ELSE tabs

ActiveAfter(n, a, r) ==
  IF r.op = "next-tab" THEN (a % n) + 1
  ELSE IF r.op = "prev-tab" THEN (IF a = 1 THEN n ELSE a - 1)
  ELSE IF r.op = "goto-tab" /\ r.index <= n THEN r.index
  ELSE IF r.op = "close-tab" /\ n # 1 /\ a = n THEN a - 1
  ELSE IF r.op = "new-tab" /\ n # MaxTabs THEN n + 1
  ELSE a

NextAfter(n, next, r) == IF r.op = "new-tab" /\ n # MaxTabs THEN next + 1 ELSE next

LEMMA DoneFields ==
  ASSUME NEW h, IsHost(h), NEW r, NEW b \in BOOLEAN
  PROVE  /\ Done(h, r, b).name = IF r.op = "rename" THEN r.name ELSE h.name
         /\ Done(h, r, b).tabs = TabsAfter(h.tabs, h.active, h.next, Resolved(h, r.target), r)
         /\ Done(h, r, b).active = ActiveAfter(Len(h.tabs), h.active, r)
         /\ Done(h, r, b).next = NextAfter(Len(h.tabs), h.next, r)
<1> DEFINE D == Done(h, r, b)
           p == Resolved(h, r.target)
           n == Len(h.tabs)
<1> SUFFICES /\ D.name = IF r.op = "rename" THEN r.name ELSE h.name
             /\ D.tabs = TabsAfter(h.tabs, h.active, h.next, p, r)
             /\ D.active = ActiveAfter(n, h.active, r)
             /\ D.next = NextAfter(n, h.next, r)
  OBVIOUS
<1>1. h = [name |-> h.name, tabs |-> h.tabs, active |-> h.active, detached |-> h.detached, next |-> h.next]
  BY DEF IsHost
<1>2. CASE r.op \in {"next-tab", "prev-tab", "goto-tab"}
  <2>1. D = [h EXCEPT !.active = ActiveAfter(n, h.active, r)]
    BY <1>1, <1>2 DEF Done, ActiveAfter
  <2> HIDE DEF D, p, n
  <2> QED BY <1>1, <1>2, <2>1 DEF TabsAfter, NextAfter
<1>3. CASE r.op = "close-tab"
  <2>1. D = TabClosed(h)
    BY <1>3 DEF Done
  <2>2. D = IF n = 1 THEN h ELSE [h EXCEPT !.tabs = RemoveAt(h.tabs, h.active), !.active = IF h.active = n THEN h.active - 1 ELSE h.active]
    BY <2>1 DEF TabClosed
  <2> HIDE DEF D, p, n
  <2> QED BY <1>1, <1>3, <2>2 DEF TabsAfter, NextAfter, ActiveAfter, n
<1>4. CASE r.op = "new-tab"
  <2> DEFINE cut == IF b THEN h.detached ELSE h.detached \cup {h.next}
             more == Append(h.tabs, Fresh(h.next, n + 1))
  <2>1. D = IF n = MaxTabs THEN h ELSE [h EXCEPT !.tabs = more, !.active = n + 1, !.next = h.next + 1, !.detached = cut]
    BY <1>4 DEF Done, TabAdded, Fresh
  <2> HIDE DEF D, p, cut
  <2> QED BY <1>1, <1>4, <2>1 DEF TabsAfter, NextAfter, ActiveAfter
<1>5. CASE r.op = "focus"
  <2>1. D = IF p = 0 THEN h ELSE [h EXCEPT !.tabs = Refocused(h.tabs, h.active, r.step)]
    BY <1>5 DEF Done, Refocused
  <2> HIDE DEF D, p, n
  <2> QED BY <1>1, <1>5, <2>1 DEF TabsAfter, NextAfter, ActiveAfter
<1>6. CASE r.op = "close-pane"
  <2>1. D = IF p = 0 THEN h ELSE PaneClosed(h, p)
    BY <1>6 DEF Done
  <2>2. PaneClosed(h, p) = [h EXCEPT !.tabs = Left(h.tabs, p)]
    <3> DEFINE i == CHOOSE j \in DOMAIN h.tabs : p \in ToSet(h.tabs[j].panes)
               left == ToSet(h.tabs[i].panes) \ {p}
               other == CHOOSE q \in left : TRUE
               one == <<other>>
               tab == [h.tabs[i] EXCEPT !.panes = one, !.focus = other]
               tabs == [h.tabs EXCEPT ![i] = tab]
    <3>1. PaneClosed(h, p) = IF left = {} THEN h ELSE [h EXCEPT !.tabs[i].panes = one, !.tabs[i].focus = other]
      BY DEF PaneClosed
    <3>2. Left(h.tabs, p) = IF left = {} THEN h.tabs ELSE tabs
      BY DEF Left
    <3> HIDE DEF i, left, other, one, p
    <3>3. [h EXCEPT !.tabs[i].panes = one, !.tabs[i].focus = other] = [h EXCEPT !.tabs = tabs]
      BY <1>1
    <3> HIDE DEF tabs
    <3>4. h = [h EXCEPT !.tabs = h.tabs]
      BY <1>1
    <3> QED BY <3>1, <3>2, <3>3, <3>4
  <2> HIDE DEF D, p, n
  <2> QED BY <1>1, <1>6, <2>1, <2>2 DEF TabsAfter, NextAfter, ActiveAfter
<1>7. CASE r.op = "rename"
  <2>1. D = [h EXCEPT !.name = r.name]
    BY <1>7 DEF Done
  <2> HIDE DEF D, p, n
  <2> QED BY <1>1, <1>7, <2>1 DEF TabsAfter, NextAfter, ActiveAfter
<1>8. CASE r.op \notin {"next-tab", "prev-tab", "goto-tab", "close-tab", "new-tab", "rename", "focus", "close-pane"}
  <2>1. D = h
    BY <1>8 DEF Done
  <2> HIDE DEF D, p, n
  <2> QED BY <1>8, <2>1 DEF TabsAfter, NextAfter, ActiveAfter
<1> QED BY <1>2, <1>3, <1>4, <1>5, <1>6, <1>7, <1>8

LEMMA SameDone ==
  ASSUME NEW h, NEW g, Same(h, g), NEW r, r.op = "goto-tab" => r.index \in Nat \ {0},
         NEW b \in BOOLEAN, NEW c \in BOOLEAN
  PROVE  Same(Done(h, r, b), Done(g, r, c))
<1>1. IsHost(h) /\ IsHost(g) /\ h.name = g.name /\ h.tabs = g.tabs /\ h.active = g.active /\ h.next = g.next
  BY DEF Same
<1>2. IsHost(Done(h, r, b)) /\ IsHost(Done(g, r, c))
  BY <1>1, DoneIsHost
<1>3. Resolved(h, r.target) = Resolved(g, r.target)
  BY <1>1 DEF Resolved
<1>4. /\ Done(h, r, b).name = Done(g, r, c).name /\ Done(h, r, b).tabs = Done(g, r, c).tabs
      /\ Done(h, r, b).active = Done(g, r, c).active /\ Done(h, r, b).next = Done(g, r, c).next
  BY <1>1, <1>3, DoneFields
<1> QED BY <1>2, <1>4 DEF Same

-----------------------------------------------------------------------------
(* What is asked by clicking means what was clicked, when its turn comes.  *)

Clicks(r) == "sound" \in DOMAIN r /\ r.sound

Right(h, r) ==
  Clicks(r) =>
    \/ r.op = "goto-tab" /\ r.index \in DOMAIN h.tabs /\ h.tabs[r.index].id = r.meant
    \/ r.op = "close-tab" /\ Len(h.tabs) # 1 /\ h.tabs[h.active].id = r.meant
    \/ r.op = "close-pane" /\ "number" \notin DOMAIN r.target /\ r.target.pane = r.meant

RightAll(h, s) == \A k \in 1 .. Len(s) : Right(Handled(h, s)[k - 1], s[k])

ClicksInv == HostSound(host) /\ RightAll(host, asked)

LEMMA HandledSound ==
  ASSUME NEW h, HostSound(h), NEW s, RequestsKnown(s)
  PROVE  \A k \in 0 .. Len(s) : HostSound(Handled(h, s)[k])
<1> DEFINE f == Handled(h, s)
           T == {k \in 0 .. Len(s) : HostSound(f[k])}
<1>1. IsSeq(s) /\ Len(s) \in Nat /\ DOMAIN s = 1 .. Len(s)
  BY SeqDomain DEF RequestsKnown
<1>2. f[0] = h /\ \A k \in 1 .. Len(s) : f[k] = Then(f[k - 1], s[k])
  BY <1>1, HandledSpelled
<1> HIDE DEF f
<1>3. 0 \in T
  BY <1>1, <1>2
<1>4. ASSUME NEW k \in 1 .. Len(s), k - 1 \in T PROVE k \in T
  <2>1. s[k].op = "goto-tab" => s[k].index \in Nat \ {0}
    BY <1>1 DEF RequestsKnown, IsRequest
  <2>2. HostSound(f[k - 1])
    BY <1>4
  <2>3. HostSound(Then(f[k - 1], s[k]))
    BY <2>1, <2>2, DoneSound DEF Then
  <2> QED BY <1>1, <1>2, <2>3
<1>5. \A k \in 0 .. Len(s) : k \in T
  <2> HIDE DEF T
  <2> QED BY <1>1, <1>3, <1>4, UpTo
<1> QED BY <1>5 DEF f

(* What is asked later comes after it.                                     *)
LEMMA HandledMore ==
  ASSUME NEW h, NEW s, IsSeq(s), NEW t, IsSeq(t)
  PROVE  /\ \A k \in 0 .. Len(s) : Handled(h, s \o t)[k] = Handled(h, s)[k]
         /\ \A k \in 0 .. Len(t) : Handled(h, s \o t)[Len(s) + k] = Handled(Handled(h, s)[Len(s)], t)[k]
<1> DEFINE c == s \o t
           m == Len(s)
           n == Len(t)
           f == Handled(h, c)
           f1 == Handled(h, s)
           f2 == Handled(f1[m], t)
<1>1. m \in Nat /\ n \in Nat /\ DOMAIN s = 1 .. m /\ DOMAIN t = 1 .. n
  BY SeqDomain
<1>2. /\ IsSeq(c) /\ Len(c) = m + n
      /\ \A i \in 1 .. m : c[i] = s[i]
      /\ \A i \in 1 .. n : c[m + i] = t[i]
  BY <1>1, SeqJoin
<1> HIDE DEF c
<1>3. f[0] = h /\ \A k \in 1 .. Len(c) : f[k] = Then(f[k - 1], c[k])
  BY <1>2, HandledSpelled
<1>4. f1[0] = h /\ \A k \in 1 .. m : f1[k] = Then(f1[k - 1], s[k])
  BY HandledSpelled
<1>5. f2[0] = f1[m] /\ \A k \in 1 .. n : f2[k] = Then(f2[k - 1], t[k])
  BY HandledSpelled
<1> HIDE DEF f, f1, f2, m, n
<1>6. \A k \in 0 .. m : f[k] = f1[k]
  <2> DEFINE T == {k \in 0 .. m : f[k] = f1[k]}
  <2>1. 0 \in T
    BY <1>1, <1>3, <1>4
  <2>2. ASSUME NEW k \in 1 .. m, k - 1 \in T PROVE k \in T
    <3>1. k \in 1 .. Len(c) /\ c[k] = s[k] /\ k \in 0 .. m
      BY <1>1, <1>2
    <3>2. f[k - 1] = f1[k - 1]
      BY <2>2
    <3>3. f[k] = f1[k]
      BY <1>3, <1>4, <3>1, <3>2
    <3> QED BY <3>1, <3>3
  <2>3. \A k \in 0 .. m : k \in T
    <3> HIDE DEF T
    <3> QED BY <1>1, <2>1, <2>2, UpTo
  <2> QED BY <2>3
<1>7. \A k \in 0 .. n : f[m + k] = f2[k]
  <2> DEFINE T == {k \in 0 .. n : f[m + k] = f2[k]}
  <2>1. 0 \in T
    BY <1>1, <1>5, <1>6
  <2>2. ASSUME NEW k \in 1 .. n, k - 1 \in T PROVE k \in T
    <3>1. m + k \in 1 .. Len(c) /\ c[m + k] = t[k] /\ k \in 0 .. n /\ (m + k) - 1 = m + (k - 1)
      BY <1>1, <1>2
    <3>2. f[m + (k - 1)] = f2[k - 1]
      BY <2>2
    <3>3. f[m + k] = Then(f[(m + k) - 1], c[m + k])
      BY <1>3, <3>1
    <3>4. f[m + k] = f2[k]
      BY <1>5, <3>1, <3>2, <3>3
    <3> QED BY <3>1, <3>4
  <2>3. \A k \in 0 .. n : k \in T
    <3> HIDE DEF T
    <3> QED BY <1>1, <2>1, <2>2, UpTo
  <2> QED BY <2>3
<1> QED BY <1>6, <1>7 DEF f, f1, f2, m, n, c

LEMMA RightMore ==
  ASSUME NEW h, NEW s, IsSeq(s), RightAll(h, s),
         NEW t, IsSeq(t), RightAll(Handled(h, s)[Len(s)], t)
  PROVE  RightAll(h, s \o t)
<1> DEFINE c == s \o t
           m == Len(s)
           n == Len(t)
           f == Handled(h, c)
           f1 == Handled(h, s)
           f2 == Handled(f1[m], t)
<1>1. m \in Nat /\ n \in Nat /\ DOMAIN s = 1 .. m /\ DOMAIN t = 1 .. n
  BY SeqDomain
<1>2. /\ IsSeq(c) /\ Len(c) = m + n
      /\ \A i \in 1 .. m : c[i] = s[i]
      /\ \A i \in 1 .. n : c[m + i] = t[i]
  BY <1>1, SeqJoin
<1>3. /\ \A k \in 0 .. m : f[k] = f1[k]
      /\ \A k \in 0 .. n : f[m + k] = f2[k]
  BY HandledMore
<1>4. /\ \A k \in 1 .. m : Right(f1[k - 1], s[k])
      /\ \A k \in 1 .. n : Right(f2[k - 1], t[k])
  BY DEF RightAll
<1> HIDE DEF c, f, f1, f2, m, n
<1>5. ASSUME NEW k \in 1 .. (m + n) PROVE Right(f[k - 1], c[k])
  <2>1. CASE k <= m
    <3>1. k \in 1 .. m /\ k - 1 \in 0 .. m
      BY <1>1, <2>1
    <3> QED BY <1>2, <1>3, <1>4, <3>1
  <2>2. CASE k > m
    <3> DEFINE j == k - m
    <3>1. j \in 1 .. n /\ j - 1 \in 0 .. n /\ k = m + j /\ k - 1 = m + (j - 1)
      BY <1>1, <2>2
    <3> HIDE DEF j
    <3> QED BY <1>2, <1>3, <1>4, <3>1
  <2> QED BY <1>1, <2>1, <2>2
<1>6. \A k \in 1 .. Len(c) : Right(f[k - 1], c[k])
  BY <1>2, <1>5
<1> QED BY <1>6 DEF RightAll, f, c

LEMMA RightSame ==
  ASSUME NEW h, NEW g, Same(h, g), NEW r, Right(h, r)
  PROVE  Right(g, r)
BY DEF Same, Right

(* The first is done, with or without a session; the rest stay right.      *)
LEMMA RightLess ==
  ASSUME NEW h, HostSound(h), NEW s, RequestsKnown(s), s # <<>>, RightAll(h, s), NEW starts \in BOOLEAN
  PROVE  RightAll(Done(h, s[1], starts), Tail(s))
<1> DEFINE t == Tail(s)
           n == Len(s)
           g == Done(h, s[1], starts)
           f == Handled(h, s)
           f2 == Handled(g, t)
<1>1. IsSeq(s) /\ n \in Nat /\ DOMAIN s = 1 .. n /\ n \in 1 .. n
  BY SeqDomain DEF RequestsKnown
<1>2. IsSeq(t) /\ Len(t) = n - 1 /\ DOMAIN t = 1 .. (n - 1) /\ \A i \in 1 .. (n - 1) : t[i] = s[i + 1]
  BY <1>1, SeqTail
<1>3. f[0] = h /\ \A k \in 1 .. n : f[k] = Then(f[k - 1], s[k])
  BY <1>1, HandledSpelled
<1> HIDE DEF t
<1>4. f2[0] = g /\ \A k \in 1 .. (n - 1) : f2[k] = Then(f2[k - 1], t[k])
  BY <1>2, HandledSpelled, SMTT(30)
<1>5. \A k \in 1 .. n : s[k].op = "goto-tab" => s[k].index \in Nat \ {0}
  BY <1>1 DEF RequestsKnown, IsRequest
<1>6. Same(f[1], g)
  <2>1. Same(h, h)
    BY DEF Same, HostSound
  <2> HIDE DEF f, n
  <2>2. 1 \in 1 .. n /\ 1 - 1 = 0
    BY <1>1
  <2>3. f[1] = Then(f[0], s[1])
    BY <1>3, <2>2
  <2>4. f[1] = Done(h, s[1], TRUE)
    BY <1>3, <2>3 DEF Then
  <2>5. s[1].op = "goto-tab" => s[1].index \in Nat \ {0}
    BY <1>5, <2>2
  <2>6. Same(Done(h, s[1], TRUE), Done(h, s[1], starts))
    BY <2>1, <2>5, SameDone
  <2> QED BY <2>4, <2>6
<1>7. \A k \in 1 .. n : Right(f[k - 1], s[k])
  BY DEF RightAll
<1> HIDE DEF f, f2, g, n
<1>8. \A k \in 0 .. (n - 1) : Same(f[k + 1], f2[k])
  <2> DEFINE T == {k \in 0 .. (n - 1) : Same(f[k + 1], f2[k])}
  <2>1. 0 \in T
    BY <1>1, <1>4, <1>6
  <2>2. ASSUME NEW k \in 1 .. (n - 1), k - 1 \in T PROVE k \in T
    <3>1. k + 1 \in 1 .. n /\ (k + 1) - 1 = k /\ (k - 1) + 1 = k /\ k \in 0 .. (n - 1)
      BY <1>1
    <3>2. Same(f[k], f2[k - 1])
      BY <2>2, <3>1
    <3>3. f[k + 1] = Done(f[k], s[k + 1], TRUE) /\ f2[k] = Done(f2[k - 1], s[k + 1], TRUE)
      BY <1>2, <1>3, <1>4, <3>1 DEF Then
    <3>4. Same(f[k + 1], f2[k])
      BY <1>5, <3>1, <3>2, <3>3, SameDone
    <3> QED BY <3>1, <3>4
  <2>3. n - 1 \in Nat
    BY <1>1
  <2>4. \A k \in 0 .. (n - 1) : k \in T
    <3> HIDE DEF T
    <3> QED BY <2>1, <2>2, <2>3, UpTo
  <2> QED BY <2>4
<1>9. ASSUME NEW k \in 1 .. (n - 1) PROVE Right(f2[k - 1], t[k])
  <2>1. k + 1 \in 1 .. n /\ (k + 1) - 1 = k /\ (k - 1) + 1 = k /\ k - 1 \in 0 .. (n - 1)
    BY <1>1
  <2>2. Right(f[k], s[k + 1])
    BY <1>7, <2>1
  <2>3. Same(f[k], f2[k - 1])
    BY <1>8, <2>1
  <2> QED BY <1>2, <2>2, <2>3, RightSame
<1>10. \A k \in 1 .. Len(t) : Right(f2[k - 1], t[k])
  BY <1>2, <1>9
<1> QED BY <1>10 DEF RightAll, f2, g, t

(* Requests that no click made are right whatever the tabs are.            *)
Quiet(s) == IsSeq(s) /\ \A k \in 1 .. Len(s) : "sound" \notin DOMAIN s[k]

LEMMA QuietRight ==
  ASSUME NEW h, NEW s, Quiet(s)
  PROVE  RightAll(h, s)
BY DEF Quiet, RightAll, Right, Clicks

(* What is asked now is right if it is right of the tabs as they will be.  *)
LEMMA AskedClicks ==
  ASSUME TabsInv, ClicksInv, NEW requests, RequestsKnown(requests), Asks(requests),
         RightAll(Predicted, Append(requests, Refresh))
  PROVE  ClicksInv'
<1> DEFINE b == Append(requests, Refresh)
<1>1. asked' = asked \o b /\ host' = host
  BY DEF Asks, Ask
<1>2. IsSeq(asked)
  BY DEF TabsInv, Typing, RequestsKnown
<1>3. IsSeq(b)
  BY SeqAppend DEF RequestsKnown
<1>4. RightAll(host, asked) /\ RightAll(Handled(host, asked)[Len(asked)], b)
  BY DEF ClicksInv, Predicted
<1> HIDE DEF b
<1>5. RightAll(host, asked \o b)
  BY <1>2, <1>3, <1>4, RightMore
<1> QED BY <1>1, <1>5 DEF ClicksInv

(* One request that is right, and the snapshot after it.                   *)
LEMMA OneRight ==
  ASSUME NEW h, NEW r, Right(h, r)
  PROVE  RightAll(h, Append(<<r>>, Refresh))
<1> DEFINE s == Append(<<r>>, Refresh)
           f == Handled(h, s)
<1>1. IsSeq(s) /\ Len(s) = 2 /\ s[1] = r /\ s[2] = Refresh
  <2> DEFINE t == <<r>>
  <2>1. t \in Seq({r}) /\ Len(t) = 1 /\ t[1] = r
    OBVIOUS
  <2> HIDE DEF t
  <2>2. IsSeq(t) /\ 1 \in DOMAIN t
    BY <2>1 DEF IsSeq
  <2>3. IsSeq(s) /\ Len(s) = Len(t) + 1 /\ s[1] = t[1] /\ s[Len(t) + 1] = Refresh
    BY <2>2, SeqAppend DEF t
  <2> QED BY <2>1, <2>3
<1> HIDE DEF s
<1>2. f[0] = h
  BY <1>1, HandledSpelled
<1> HIDE DEF f
<1>3. Right(f[1], Refresh)
  BY DEF Right, Clicks, Refresh
<1>4. ASSUME NEW k \in 1 .. 2 PROVE Right(f[k - 1], s[k])
  <2>1. CASE k = 1
    <3>1. k - 1 = 0
      BY <2>1
    <3> QED BY <1>1, <1>2, <2>1, <3>1
  <2>2. CASE k = 2
    <3>1. k - 1 = 1
      BY <2>2
    <3> QED BY <1>1, <1>3, <2>2, <3>1
  <2> QED BY <2>1, <2>2
<1>5. \A k \in 1 .. Len(s) : Right(f[k - 1], s[k])
  BY <1>1, <1>4
<1> QED BY <1>5 DEF RightAll, f, s

(* CloseClicked of a tab that is not the active one: it is by then.        *)
LEMMA FourRight ==
  ASSUME NEW h, NEW r, NEW q, Right(h, r), Right(Then(Then(h, r), Refresh), q)
  PROVE  RightAll(h, Append(<<r, Refresh, q>>, Refresh))
<1> DEFINE s == Append(<<r, Refresh, q>>, Refresh)
           f == Handled(h, s)
<1>1. IsSeq(s) /\ Len(s) = 4 /\ s[1] = r /\ s[2] = Refresh /\ s[3] = q /\ s[4] = Refresh
  <2> DEFINE t == <<r, Refresh, q>>
  <2>1. t \in Seq({r, Refresh, q}) /\ Len(t) = 3 /\ t[1] = r /\ t[2] = Refresh /\ t[3] = q
    OBVIOUS
  <2> HIDE DEF t
  <2>2. IsSeq(t) /\ \A k \in {1, 2, 3} : k \in DOMAIN t
    BY <2>1 DEF IsSeq
  <2>3. IsSeq(s) /\ Len(s) = Len(t) + 1 /\ (\A k \in {1, 2, 3} : s[k] = t[k]) /\ s[Len(t) + 1] = Refresh
    BY <2>2, SeqAppend DEF t
  <2> QED BY <2>1, <2>3
<1> HIDE DEF s
<1>2. f[0] = h /\ \A k \in 1 .. 4 : f[k] = Then(f[k - 1], s[k])
  BY <1>1, HandledSpelled, SMTT(30)
<1> HIDE DEF f
<1>3. \A k \in 0 .. 4 : Right(f[k], Refresh)
  BY DEF Right, Clicks, Refresh
<1>4. f[2] = Then(Then(h, r), Refresh)
  <2>1. 1 \in 1 .. 4 /\ 2 \in 1 .. 4 /\ 1 - 1 = 0 /\ 2 - 1 = 1
    OBVIOUS
  <2>2. f[1] = Then(f[0], s[1]) /\ f[2] = Then(f[1], s[2])
    BY <1>2, <2>1
  <2> QED BY <1>1, <1>2, <2>2
<1>5. ASSUME NEW k \in 1 .. 4 PROVE Right(f[k - 1], s[k])
  <2>1. k - 1 \in 0 .. 4 /\ k \in {1, 2, 3, 4}
    OBVIOUS
  <2>2. CASE k = 1
    <3>1. k - 1 = 0
      BY <2>2
    <3> QED BY <1>1, <1>2, <2>2, <3>1
  <2>3. CASE k \in {2, 4}
    BY <1>1, <1>3, <2>1, <2>3
  <2>4. CASE k = 3
    <3>1. k - 1 = 2
      BY <2>4
    <3> QED BY <1>1, <1>4, <2>4, <3>1
  <2> QED BY <2>1, <2>2, <2>3, <2>4
<1>6. \A k \in 1 .. Len(s) : Right(f[k - 1], s[k])
  BY <1>1, <1>5
<1> QED BY <1>6 DEF RightAll, f, s

(* A sound click: the tab at a place of the strip is the tab that will be  *)
(* at that place of the workspace, and the lit one will be active.         *)
LEMMA SoundStrip ==
  ASSUME IsView(ui), IsHost(Predicted), Sound
  PROVE  /\ Len(ui.tabs) = Len(Predicted.tabs) /\ Len(ui.strip) = Len(ui.tabs)
         /\ DOMAIN ui.strip = DOMAIN Predicted.tabs
         /\ ui.lit = ui.active /\ ui.active = Predicted.active /\ ui.active \in DOMAIN ui.strip
         /\ \A i \in DOMAIN ui.strip : Predicted.tabs[i].id = Clicked(i)
<1> DEFINE shown == [i \in DOMAIN ui.strip |-> Clicked(i)]
<1>1. shown = Ids(Predicted.tabs) /\ ui.lit = ui.active /\ ui.active = Predicted.active
  BY DEF Sound
<1>2. DOMAIN shown = DOMAIN ui.strip /\ DOMAIN Ids(Predicted.tabs) = DOMAIN Predicted.tabs
  BY DEF Ids
<1>3. DOMAIN ui.strip = DOMAIN Predicted.tabs
  BY <1>1, <1>2
<1>4. ASSUME NEW i \in DOMAIN ui.strip PROVE Predicted.tabs[i].id = Clicked(i)
  <2>1. shown[i] = Clicked(i)
    OBVIOUS
  <2>2. Ids(Predicted.tabs)[i] = Predicted.tabs[i].id
    BY <1>3 DEF Ids
  <2> QED BY <1>1, <2>1, <2>2
<1>5. /\ Len(ui.tabs) \in Nat /\ DOMAIN ui.tabs = 1 .. Len(ui.tabs)
      /\ Len(ui.strip) \in Nat /\ DOMAIN ui.strip = 1 .. Len(ui.strip)
      /\ Len(Predicted.tabs) \in Nat /\ DOMAIN Predicted.tabs = 1 .. Len(Predicted.tabs)
  BY SeqDomain DEF IsView, IsHost, IsTabs
<1>6. Len(ui.tabs) = Len(Predicted.tabs) /\ Len(ui.strip) = Len(ui.tabs)
  <2>1. ASSUME NEW m \in Nat, NEW n \in Nat, 1 .. m = 1 .. n PROVE m = n
    <3>1. m <= n
      BY <2>1
    <3>2. n <= m
      BY <2>1
    <3> QED BY <3>1, <3>2
  <2>2. DOMAIN ui.strip = DOMAIN ui.tabs
    BY DEF IsView
  <2>3. Len(ui.strip) = Len(ui.tabs)
    BY <1>5, <2>1, <2>2
  <2>4. Len(ui.strip) = Len(Predicted.tabs)
    BY <1>3, <1>5, <2>1
  <2> QED BY <2>3, <2>4
<1>7. ui.active \in DOMAIN ui.strip
  BY <1>1, <1>3, <1>5 DEF IsHost
<1> QED BY <1>1, <1>3, <1>4, <1>6, <1>7

LEMMA PredictedSound ==
  ASSUME TabsInv, ClicksInv
  PROVE  HostSound(Predicted) /\ IsHost(Predicted)
<1>1. Len(asked) \in Nat
  BY SeqDomain DEF TabsInv, Typing, RequestsKnown
<1>2. RequestsKnown(asked) /\ HostSound(host)
  BY DEF TabsInv, Typing, ClicksInv
<1>3. \A k \in 0 .. Len(asked) : HostSound(Handled(host, asked)[k])
  BY <1>2, HandledSound
<1>4. HostSound(Handled(host, asked)[Len(asked)])
  BY <1>1, <1>3
<1> QED BY <1>4 DEF HostSound, Predicted

LEMMA GotoRight ==
  ASSUME TabsInv, ClicksInv, NEW i \in DOMAIN ui.strip
  PROVE  Right(Predicted, GotoRequest(i))
<1>1. IsView(ui) /\ IsHost(Predicted)
  BY PredictedSound DEF TabsInv, Typing
<1> DEFINE r == GotoRequest(i)
<1>2. r.op = "goto-tab" /\ r.index = i /\ r.meant = Clicked(i) /\ r.sound = Sound
  BY DEF GotoRequest
<1> HIDE DEF r
<1>3. CASE Sound
  <2>1. i \in DOMAIN Predicted.tabs /\ Predicted.tabs[i].id = Clicked(i)
    BY <1>1, <1>3, SoundStrip
  <2> QED BY <1>2, <2>1 DEF Right, r
<1>4. CASE ~Sound
  BY <1>2, <1>4 DEF Right, Clicks, r
<1> QED BY <1>3, <1>4

(* After a goto-tab and a refresh the tab gone to is the active one.       *)
LEMMA GoneTo ==
  ASSUME NEW h, IsHost(h), NEW i \in DOMAIN h.tabs, NEW r, r.op = "goto-tab", r.index = i
  PROVE  LET g == Then(Then(h, r), Refresh) IN g.tabs = h.tabs /\ g.active = i
<1> DEFINE d == Then(h, r)
           g == Then(d, Refresh)
<1>1. Len(h.tabs) \in Nat /\ DOMAIN h.tabs = 1 .. Len(h.tabs)
  BY SeqDomain DEF IsHost, IsTabs
<1>2. r.index \in Nat \ {0} /\ r.index <= Len(h.tabs)
  BY <1>1
<1>3. IsHost(d)
  BY <1>2, DoneIsHost DEF Then
<1>4. /\ d.tabs = TabsAfter(h.tabs, h.active, h.next, Resolved(h, r.target), r)
      /\ d.active = ActiveAfter(Len(h.tabs), h.active, r)
  BY DoneFields DEF Then
<1>5. d.tabs = h.tabs
  BY <1>4 DEF TabsAfter
<1>6. d.active = i
  BY <1>2, <1>4 DEF ActiveAfter
<1> HIDE DEF d
<1>7. Refresh.op = "refresh"
  BY RefreshKnown
<1>8. /\ g.tabs = TabsAfter(d.tabs, d.active, d.next, Resolved(d, Refresh.target), Refresh)
      /\ g.active = ActiveAfter(Len(d.tabs), d.active, Refresh)
  BY <1>3, DoneFields DEF Then
<1>9. g.tabs = d.tabs /\ g.active = d.active
  BY <1>7, <1>8 DEF TabsAfter, ActiveAfter
<1> QED BY <1>5, <1>6, <1>9 DEF d

(* close-tab of the active tab, which is the one clicked.                  *)
LEMMA CloseRight ==
  ASSUME NEW h, NEW i,
         Sound => Len(h.tabs) # 1 /\ h.tabs[h.active].id = Clicked(i)
  PROVE  Right(h, CloseRequest(i))
<1> DEFINE r == CloseRequest(i)
<1>1. r.op = "close-tab" /\ r.meant = Clicked(i) /\ r.sound = Sound
  BY DEF CloseRequest
<1> HIDE DEF r
<1>2. CASE Sound
  BY <1>1, <1>2 DEF Right, r
<1>3. CASE ~Sound
  BY <1>1, <1>3 DEF Right, Clicks, r
<1> QED BY <1>2, <1>3

LEMMA GotoClicks ==
  ASSUME TabsInv, ClicksInv, NEW i \in DOMAIN ui.strip, ClickTab(i) \/ GotoTab(i)
  PROVE  ClicksInv'
<1>1. Asks(<<GotoRequest(i)>>)
  BY DEF ClickTab, GotoTab
<1>2. RequestsKnown(<<GotoRequest(i)>>)
  BY GotoKnown, OneRequest DEF TabsInv, Typing
<1>3. RightAll(Predicted, Append(<<GotoRequest(i)>>, Refresh))
  BY GotoRight, OneRight
<1> QED BY <1>1, <1>2, <1>3, AskedClicks

LEMMA CloseClickedClicks ==
  ASSUME TabsInv, ClicksInv, NEW i \in DOMAIN ui.strip, CloseClicked(i)
  PROVE  ClicksInv'
<1>1. IsView(ui) /\ IsHost(Predicted) /\ IsRequest(GotoRequest(i)) /\ IsRequest(CloseRequest(i)) /\ IsRequest(Refresh)
  BY PredictedSound, GotoKnown, RefreshKnown DEF TabsInv, Typing
<1>2. Len(ui.tabs) > 1
  BY DEF CloseClicked
<1>3. Sound => Len(Predicted.tabs) # 1 /\ ui.active = Predicted.active /\ i \in DOMAIN Predicted.tabs
               /\ Predicted.tabs[i].id = Clicked(i)
  <2> SUFFICES ASSUME Sound
               PROVE  Len(Predicted.tabs) # 1 /\ ui.active = Predicted.active /\ i \in DOMAIN Predicted.tabs
                      /\ Predicted.tabs[i].id = Clicked(i)
    OBVIOUS
  <2>1. Len(ui.tabs) = Len(Predicted.tabs) /\ ui.active = Predicted.active /\ DOMAIN ui.strip = DOMAIN Predicted.tabs
        /\ \A j \in DOMAIN ui.strip : Predicted.tabs[j].id = Clicked(j)
    BY <1>1, SoundStrip
  <2>2. Len(ui.tabs) \in Nat
    BY <1>1, SeqDomain DEF IsView, IsTabs
  <2>3. Len(Predicted.tabs) # 1
    <3>1. ASSUME NEW m \in Nat, m > 1 PROVE m # 1
      BY <3>1
    <3>2. Len(ui.tabs) # 1
      BY <1>2, <2>2, <3>1
    <3> QED BY <2>1, <3>2
  <2> QED BY <2>1, <2>3
<1>4. CASE i = ui.active
  <2>1. Asks(<<CloseRequest(i)>>)
    BY <1>4 DEF CloseClicked
  <2>2. Right(Predicted, CloseRequest(i))
    BY <1>3, <1>4, CloseRight
  <2> QED BY <1>1, <2>1, <2>2, OneRequest, OneRight, AskedClicks
<1>5. CASE i # ui.active
  <2> DEFINE r == GotoRequest(i)
             q == CloseRequest(i)
             g == Then(Then(Predicted, r), Refresh)
             three == <<r, Refresh, q>>
  <2>1. Asks(three)
    BY <1>5 DEF CloseClicked
  <2>2. r.op = "goto-tab" /\ r.index = i
    BY DEF GotoRequest
  <2>3. Right(Predicted, r)
    BY GotoRight
  <2> HIDE DEF r
  <2>4. Sound => Len(g.tabs) # 1 /\ g.tabs[g.active].id = Clicked(i)
    <3> SUFFICES ASSUME Sound PROVE Len(g.tabs) # 1 /\ g.tabs[g.active].id = Clicked(i)
      OBVIOUS
    <3>1. g.tabs = Predicted.tabs /\ g.active = i
      BY <1>1, <1>3, <2>2, GoneTo
    <3> QED BY <1>3, <3>1
  <2>5. Right(g, q)
    <3> HIDE DEF g
    <3> QED BY <2>4, CloseRight
  <2>6. RequestsKnown(three)
    <3> HIDE DEF q
    <3>1. three \in Seq({r, Refresh, q})
      OBVIOUS
    <3>2. \A j \in DOMAIN three : three[j] \in {r, Refresh, q}
      BY <3>1
    <3> QED BY <1>1, <3>1, <3>2 DEF RequestsKnown, IsSeq, r, q
  <2>7. RightAll(Predicted, Append(three, Refresh))
    <3> HIDE DEF q
    <3> QED BY <2>3, <2>5, FourRight
  <2> QED BY <2>1, <2>6, <2>7, AskedClicks
<1> QED BY <1>4, <1>5

LEMMA CloseTabClicks ==
  ASSUME TabsInv, ClicksInv, CloseTab
  PROVE  ClicksInv'
<1>1. IsView(ui) /\ IsHost(Predicted) /\ Len(ui.strip) > 1 /\ Asks(<<CloseRequest(ui.lit)>>)
  BY PredictedSound DEF TabsInv, Typing, CloseTab
<1>2. IsRequest(CloseRequest(ui.lit))
  BY DEF CloseRequest, IsRequest
<1>3. Sound => Len(Predicted.tabs) # 1 /\ Predicted.tabs[Predicted.active].id = Clicked(ui.lit)
  <2> SUFFICES ASSUME Sound PROVE Len(Predicted.tabs) # 1 /\ Predicted.tabs[Predicted.active].id = Clicked(ui.lit)
    OBVIOUS
  <2>1. /\ Len(ui.tabs) = Len(Predicted.tabs) /\ Len(ui.strip) = Len(ui.tabs)
        /\ ui.lit = ui.active /\ ui.active = Predicted.active /\ ui.active \in DOMAIN ui.strip
        /\ \A j \in DOMAIN ui.strip : Predicted.tabs[j].id = Clicked(j)
    BY <1>1, SoundStrip
  <2>2. Len(ui.strip) \in Nat
    BY <1>1, SeqDomain DEF IsView
  <2>3. Len(Predicted.tabs) # 1
    <3>1. ASSUME NEW m \in Nat, m > 1 PROVE m # 1
      BY <3>1
    <3>2. Len(ui.strip) # 1
      BY <1>1, <2>2, <3>1
    <3> QED BY <2>1, <3>2
  <2> QED BY <2>1, <2>3
<1>4. Right(Predicted, CloseRequest(ui.lit))
  BY <1>3, CloseRight
<1> QED BY <1>1, <1>2, <1>4, OneRequest, OneRight, AskedClicks

LEMMA ClosePaneClicks ==
  ASSUME TabsInv, ClicksInv, ClosePane
  PROVE  ClicksInv'
<1> DEFINE p == ActiveTab.focus
           target == Target(ActiveTab)
           sound == p \notin ui.detached
           r == [op |-> "close-pane", target |-> target, meant |-> p, sound |-> sound]
<1>1. Asks(<<r>>)
  BY DEF ClosePane
<1>2. ASSUME sound PROVE "number" \notin DOMAIN target /\ target.pane = p
  <2>1. target = [workspace |-> ui.title, tab |-> ActiveTab.name, pane |-> ActiveTab.focus]
    BY <1>2 DEF Target
  <2> QED BY <2>1
<1> HIDE DEF p, target, sound
<1>3. IsRequest(r) /\ r.op = "close-pane" /\ r.target = target /\ r.meant = p /\ r.sound = sound
  BY DEF IsRequest
<1> HIDE DEF r
<1>4. Right(Predicted, r)
  <2>1. CASE sound
    BY <1>2, <1>3, <2>1 DEF Right
  <2>2. CASE ~sound
    BY <1>3, <2>2 DEF Right, Clicks
  <2> QED BY <2>1, <2>2
<1> QED BY <1>1, <1>3, <1>4, OneRequest, OneRight, AskedClicks DEF r

(* The requests that no click made.                                        *)
LEMMA QuietClicks ==
  ASSUME TabsInv, ClicksInv, NEW r, IsRequest(r), "sound" \notin DOMAIN r, Asks(<<r>>) \/ Asks(<<r, Refresh>>)
  PROVE  ClicksInv'
<1>1. IsRequest(Refresh) /\ "sound" \notin DOMAIN Refresh
  BY RefreshKnown DEF Refresh
<1>2. ASSUME NEW s, RequestsKnown(s), \A k \in 1 .. Len(s) : "sound" \notin DOMAIN s[k]
      PROVE  Quiet(Append(s, Refresh))
  <2>1. IsSeq(s) /\ Len(s) \in Nat /\ DOMAIN s = 1 .. Len(s)
    BY <1>2, SeqDomain DEF RequestsKnown
  <2> DEFINE t == Append(s, Refresh)
  <2>2. IsSeq(t) /\ Len(t) = Len(s) + 1 /\ (\A k \in DOMAIN s : t[k] = s[k]) /\ t[Len(s) + 1] = Refresh
    BY <2>1, SeqAppend
  <2> HIDE DEF t
  <2>3. Quiet(t)
    <3> SUFFICES ASSUME NEW k \in 1 .. (Len(s) + 1) PROVE "sound" \notin DOMAIN t[k]
      BY <2>2 DEF Quiet
    <3>1. CASE k = Len(s) + 1
      BY <1>1, <2>2, <3>1
    <3>2. CASE k # Len(s) + 1
      <4>1. k \in 1 .. Len(s) /\ k \in DOMAIN s
        BY <2>1, <3>2
      <4> QED BY <1>2, <2>2, <4>1
    <3> QED BY <3>1, <3>2
  <2> QED BY <2>3 DEF t
<1>3. ASSUME NEW s, RequestsKnown(s), \A k \in 1 .. Len(s) : "sound" \notin DOMAIN s[k], Asks(s)
      PROVE  ClicksInv'
  <2>1. RightAll(Predicted, Append(s, Refresh))
    BY <1>2, <1>3, QuietRight
  <2> QED BY <1>3, <2>1, AskedClicks
<1>4. CASE Asks(<<r>>)
  <2> DEFINE s == <<r>>
  <2>1. RequestsKnown(s)
    BY OneRequest
  <2>2. Len(s) = 1 /\ s[1] = r
    OBVIOUS
  <2> HIDE DEF s
  <2>3. \A k \in 1 .. Len(s) : "sound" \notin DOMAIN s[k]
    BY <2>2
  <2> QED BY <1>3, <1>4, <2>1, <2>3 DEF s
<1>5. CASE Asks(<<r, Refresh>>)
  <2> DEFINE s == <<r, Refresh>>
  <2>1. s \in Seq({r, Refresh}) /\ Len(s) = 2
    OBVIOUS
  <2>2. \A j \in DOMAIN s : s[j] \in {r, Refresh}
    BY <2>1
  <2> HIDE DEF s
  <2>3. IsSeq(s) /\ DOMAIN s = 1 .. Len(s)
    BY <2>1 DEF IsSeq
  <2>4. RequestsKnown(s) /\ \A k \in 1 .. Len(s) : "sound" \notin DOMAIN s[k]
    BY <1>1, <2>2, <2>3 DEF RequestsKnown
  <2> QED BY <1>3, <1>5, <2>4 DEF s
<1> QED BY <1>4, <1>5

LEMMA OtherRequestsClicks ==
  ASSUME TabsInv, ClicksInv, OtherTab \/ (\E name \in Names : Rename(name)) \/ \E step \in {"next", "prev"} : MoveFocus(step)
  PROVE  ClicksInv'
<1>1. CASE OtherTab
  <2>1. PICK op \in {"next-tab", "prev-tab", "new-tab"} : Asks(<<[op |-> op]>>)
    BY <1>1 DEF OtherTab
  <2>2. IsRequest([op |-> op]) /\ "sound" \notin DOMAIN [op |-> op]
    BY DEF IsRequest
  <2> QED BY <2>1, <2>2, QuietClicks
<1>2. ASSUME NEW name \in Names, Rename(name) PROVE ClicksInv'
  <2> DEFINE r == [op |-> "rename", name |-> name]
  <2>1. IsRequest(r) /\ "sound" \notin DOMAIN r
    BY DEF IsRequest
  <2>2. Asks(<<r, Refresh>>)
    BY <1>2 DEF Rename
  <2> HIDE DEF r
  <2> QED BY <2>1, <2>2, QuietClicks
<1>3. ASSUME NEW step \in {"next", "prev"}, MoveFocus(step) PROVE ClicksInv'
  <2> DEFINE target == Target(ActiveTab)
  <2>1. \E t : Asks(<<[op |-> "focus", step |-> step, target |-> t]>>)
    BY <1>3 DEF MoveFocus
  <2>2. PICK t : Asks(<<[op |-> "focus", step |-> step, target |-> t]>>)
    BY <2>1
  <2> DEFINE r == [op |-> "focus", step |-> step, target |-> t]
  <2>3. IsRequest(r) /\ "sound" \notin DOMAIN r
    BY DEF IsRequest
  <2> HIDE DEF r
  <2> QED BY <2>2, <2>3, QuietClicks DEF r
<1> QED BY <1>1, <1>2, <1>3

LEMMA ServeClicks ==
  ASSUME TabsInv, ClicksInv, Serve
  PROVE  ClicksInv'
<1>1. PICK starts \in BOOLEAN : host' = Done(host, asked[1], starts)
  BY DEF Serve
<1>2. asked # <<>> /\ asked' = Tail(asked)
  BY DEF Serve
<1>3. HostSound(host) /\ RequestsKnown(asked) /\ RightAll(host, asked)
  BY DEF TabsInv, Typing, ClicksInv
<1>4. asked[1].op = "goto-tab" => asked[1].index \in Nat \ {0}
  <2>1. IsSeq(asked) /\ DOMAIN asked = 1 .. Len(asked) /\ Len(asked) \in 1 .. Len(asked) /\ Len(asked) \in Nat
    BY <1>2, <1>3, SeqDomain DEF RequestsKnown
  <2>2. 1 \in DOMAIN asked
    BY <2>1
  <2> QED BY <1>3, <2>2 DEF RequestsKnown, IsRequest
<1>5. HostSound(host')
  BY <1>1, <1>3, <1>4, DoneSound
<1>6. RightAll(host', asked')
  BY <1>1, <1>2, <1>3, RightLess
<1> QED BY <1>5, <1>6 DEF ClicksInv

(* Another client may change which tab is meant: no click is sound then.   *)
LEMMA OtherClicks ==
  ASSUME TabsInv, ClicksInv, NEW r \in Others, Other(r)
  PROVE  ClicksInv'
<1>1. /\ host' = Done(host, r, TRUE)
      /\ asked' = [i \in DOMAIN asked |->
                     IF asked[i].op \in {"goto-tab", "close-tab"} THEN [asked[i] EXCEPT !.sound = FALSE] ELSE asked[i]]
  BY DEF Other
<1>2. HostSound(host')
  BY <1>1, DoneSound, UiTabsAssumption DEF ClicksInv
<1>3. Len(asked) \in Nat /\ DOMAIN asked = 1 .. Len(asked)
  BY SeqDomain DEF TabsInv, Typing, RequestsKnown
<1>4. Len(asked') = Len(asked)
  <2>1. DOMAIN asked' = 1 .. Len(asked) /\ asked' = [i \in 1 .. Len(asked) |-> asked'[i]]
    BY <1>1, <1>3
  <2> QED BY <1>3, <2>1, SeqFrom
<1>5. ASSUME NEW k \in 1 .. Len(asked), NEW h PROVE Right(h, asked'[k])
  <2>1. CASE asked[k].op \in {"goto-tab", "close-tab"}
    <3>1. asked'[k] = [asked[k] EXCEPT !.sound = FALSE]
      BY <1>1, <1>3, <2>1
    <3> QED BY <3>1 DEF Right, Clicks
  <2>2. CASE asked[k].op \notin {"goto-tab", "close-tab"}
    <3>1. asked'[k] = asked[k]
      BY <1>1, <1>3, <2>2
    <3>2. Right(Handled(host, asked)[k - 1], asked[k])
      BY DEF ClicksInv, RightAll
    <3> QED BY <2>2, <3>1, <3>2 DEF Right
  <2> QED BY <2>1, <2>2
<1>6. RightAll(host', asked')
  BY <1>4, <1>5 DEF RightAll
<1> QED BY <1>2, <1>6 DEF ClicksInv

LEMMA ReadClicks ==
  ASSUME TabsInv, ClicksInv, Read
  PROVE  ClicksInv'
<1>1. host' = host /\ (asked' = asked \/ asked' = Append(asked, Refresh))
  BY DEF Read
<1>2. CASE asked' = asked
  BY <1>1, <1>2 DEF ClicksInv
<1>3. CASE asked' = Append(asked, Refresh)
  <2> DEFINE s == <<Refresh>>
  <2>1. IsSeq(asked)
    BY DEF TabsInv, Typing, RequestsKnown
  <2>2. RequestsKnown(s)
    BY OneRequest, RefreshKnown
  <2>3. Len(s) = 1 /\ s[1] = Refresh
    OBVIOUS
  <2>4. asked' = asked \o s
    <3>1. PICK S : asked \in Seq(S)
      BY <2>1 DEF IsSeq
    <3>2. asked \in Seq(S \cup {Refresh}) /\ Refresh \in S \cup {Refresh}
      BY <3>1
    <3> QED BY <1>3, <3>2
  <2> HIDE DEF s
  <2>5. Quiet(s)
    BY <2>2, <2>3 DEF Quiet, RequestsKnown, Refresh
  <2>6. RightAll(Handled(host, asked)[Len(asked)], s)
    BY <2>5, QuietRight
  <2>7. RightAll(host, asked \o s)
    BY <2>1, <2>5, <2>6, RightMore DEF Quiet, ClicksInv
  <2> QED BY <1>1, <2>4, <2>7 DEF ClicksInv
<1> QED BY <1>1, <1>2, <1>3

LEMMA StartsSound == Init => ClicksInv
<1> SUFFICES ASSUME Init PROVE ClicksInv
  OBVIOUS
<1>1. host \in Starts /\ asked = <<>> /\ IsHost(host)
  BY StartsInStep DEF Init, TabsInv, Typing
<1>2. /\ host \in [name : Names, tabs : Seq([id : Nat, name : Nat, panes : Seq(Nat), focus : Nat]), active : Nat,
                   detached : SUBSET Nat, next : Nat]
      /\ \A i \in DOMAIN host.tabs :
           /\ Len(host.tabs[i].panes) <= 2 /\ host.tabs[i].id < host.next
           /\ \A j \in DOMAIN host.tabs : host.tabs[i].id = host.tabs[j].id => i = j
  BY <1>1, UiTabsAssumption
<1>3. ASSUME NEW i \in DOMAIN host.tabs PROVE IsTab(host.tabs[i])
  <2>1. ASSUME NEW T, NEW s \in Seq(T), NEW j \in DOMAIN s PROVE s[j] \in T
    OBVIOUS
  <2>2. host.tabs \in Seq([id : Nat, name : Nat, panes : Seq(Nat), focus : Nat])
    BY <1>2
  <2>3. host.tabs[i] \in [id : Nat, name : Nat, panes : Seq(Nat), focus : Nat]
    BY <2>1, <2>2, Zenon
  <2> QED BY <1>2, <2>3 DEF IsTab, IsSeq
<1>4. HostSound(host)
  BY <1>1, <1>2, <1>3 DEF HostSound, TabsDiffer
<1>5. RightAll(host, asked)
  <2>1. Len(asked) = 0
    BY <1>1
  <2> QED BY <2>1 DEF RightAll
<1> QED BY <1>4, <1>5 DEF ClicksInv

LEMMA StepKeepsClicks == TabsInv /\ ClicksInv /\ [Next]_vars => ClicksInv'
<1> SUFFICES ASSUME TabsInv, ClicksInv, [Next]_vars PROVE ClicksInv'
  OBVIOUS
<1>1. ASSUME NEW i \in DOMAIN ui.strip, ClickTab(i) \/ GotoTab(i) \/ CloseClicked(i) PROVE ClicksInv'
  BY <1>1, GotoClicks, CloseClickedClicks
<1>2. ASSUME UNCHANGED <<host, asked>> PROVE ClicksInv'
  BY <1>2 DEF ClicksInv
<1>3. ASSUME NEW i \in DOMAIN ui.strip, NEW j \in DOMAIN ui.strip, Reorder(i, j) PROVE ClicksInv'
  BY <1>2, <1>3 DEF Reorder, Local
<1>4. ASSUME NEW i \in DOMAIN ui.strip, NEW p \in PanesOf(ui.tabs), GoToAttention(i, p) PROVE ClicksInv'
  BY <1>2, <1>4 DEF GoToAttention, Local
<1>5. ASSUME NEW p \in PanesOf(ui.tabs), ClickPane(p) PROVE ClicksInv'
  BY <1>2, <1>5 DEF ClickPane, Local
<1>6. CASE CloseTab \/ ClosePane
  BY <1>6, CloseTabClicks, ClosePaneClicks
<1>7. CASE OtherTab \/ (\E name \in Names : Rename(name)) \/ \E step \in {"next", "prev"} : MoveFocus(step)
  BY <1>7, OtherRequestsClicks
<1>8. ASSUME NEW r \in Others, Other(r) PROVE ClicksInv'
  BY <1>8, OtherClicks
<1>9. CASE Serve \/ Read
  BY <1>9, ServeClicks, ReadClicks
<1>10. CASE UNCHANGED vars
  BY <1>2, <1>10 DEF vars
<1> QED BY <1>1, <1>3, <1>4, <1>5, <1>6, <1>7, <1>8, <1>9, <1>10 DEF Next

(* What was asked by clicking, done to the tabs it is right of.            *)
LEMMA GotoActs ==
  ASSUME NEW h, HostSound(h), NEW r, r.op = "goto-tab", r.index \in DOMAIN h.tabs, h.tabs[r.index].id = r.meant,
         NEW b \in BOOLEAN
  PROVE  Done(h, r, b).tabs[Done(h, r, b).active].id = r.meant
<1>1. IsHost(h)
  BY DEF HostSound
<1>2. Len(h.tabs) \in Nat /\ DOMAIN h.tabs = 1 .. Len(h.tabs)
  BY <1>1, SeqDomain DEF IsHost, IsTabs
<1>3. r.index <= Len(h.tabs)
  BY <1>2
<1> DEFINE d == Done(h, r, b)
<1>4. /\ d.tabs = TabsAfter(h.tabs, h.active, h.next, Resolved(h, r.target), r)
      /\ d.active = ActiveAfter(Len(h.tabs), h.active, r)
  BY <1>1, DoneFields
<1> HIDE DEF d
<1>5. d.tabs = h.tabs /\ d.active = r.index
  BY <1>3, <1>4 DEF TabsAfter, ActiveAfter
<1> QED BY <1>5 DEF d

LEMMA CloseTabActs ==
  ASSUME NEW h, HostSound(h), NEW r, r.op = "close-tab", Len(h.tabs) # 1, h.tabs[h.active].id = r.meant,
         NEW b \in BOOLEAN
  PROVE  r.meant \notin ToSet(Ids(Done(h, r, b).tabs)) /\ Len(Done(h, r, b).tabs) = Len(h.tabs) - 1
<1>1. IsHost(h) /\ TabsDiffer(h.tabs, h.next) /\ IsSeq(h.tabs) /\ h.active \in 1 .. Len(h.tabs)
  BY DEF HostSound, IsHost, IsTabs
<1>2. Len(h.tabs) \in Nat /\ DOMAIN h.tabs = 1 .. Len(h.tabs)
  BY <1>1, SeqDomain
<1> DEFINE tabs == Done(h, r, b).tabs
<1>3. tabs = TabsAfter(h.tabs, h.active, h.next, Resolved(h, r.target), r)
  BY <1>1, DoneFields
<1> HIDE DEF tabs
<1>4. tabs = RemoveAt(h.tabs, h.active)
  BY <1>3 DEF TabsAfter
<1>5. /\ Len(tabs) = Len(h.tabs) - 1 /\ DOMAIN tabs = 1 .. (Len(h.tabs) - 1)
      /\ \A j \in 1 .. (Len(h.tabs) - 1) : tabs[j] = h.tabs[IF j < h.active THEN j ELSE j + 1]
  BY <1>1, <1>4, SeqRemoved
<1>6. ASSUME NEW j \in DOMAIN tabs PROVE tabs[j].id # r.meant
  <2> DEFINE k == IF j < h.active THEN j ELSE j + 1
  <2>1. k \in DOMAIN h.tabs /\ k # h.active /\ h.active \in DOMAIN h.tabs
    BY <1>1, <1>2, <1>5
  <2>2. tabs[j] = h.tabs[k]
    BY <1>5
  <2> HIDE DEF k
  <2> QED BY <1>1, <2>1, <2>2 DEF TabsDiffer
<1>7. r.meant \notin ToSet(Ids(tabs))
  <2>1. DOMAIN Ids(tabs) = DOMAIN tabs /\ \A j \in DOMAIN tabs : Ids(tabs)[j] = tabs[j].id
    BY DEF Ids
  <2> QED BY <1>6, <2>1 DEF ToSet
<1> QED BY <1>5, <1>7 DEF tabs

LEMMA ClosePaneActs ==
  ASSUME NEW h, HostSound(h), NEW r, r.op = "close-pane", "number" \notin DOMAIN r.target, r.target.pane = r.meant,
         NEW b \in BOOLEAN
  PROVE  PanesOf(h.tabs) \ PanesOf(Done(h, r, b).tabs) \subseteq {r.meant}
<1> DEFINE p == Resolved(h, r.target)
<1>1. Done(h, r, b) = IF p = 0 THEN h ELSE PaneClosed(h, p)
  BY DEF Done
<1>2. CASE p = 0
  <2>1. Done(h, r, b) = h
    BY <1>1, <1>2
  <2> QED BY <2>1
<1>3. CASE p # 0
  <2>1. p \in PanesOf(h.tabs) /\ p = r.meant
    BY <1>3, ResolvedPane DEF HostSound
  <2>2. Done(h, r, b) = PaneClosed(h, p)
    BY <1>1, <1>3
  <2> HIDE DEF p
  <2>3. PanesOf(h.tabs) \ PanesOf(PaneClosed(h, p).tabs) \subseteq {p}
    BY <2>1, PaneClosedSound
  <2> QED BY <2>1, <2>2, <2>3
<1> QED BY <1>2, <1>3

LEMMA ServeActs ==
  ASSUME TabsInv, ClicksInv, Serve, "sound" \in DOMAIN asked[1], asked[1].sound
  PROVE  LET r == asked[1]
         IN  CASE r.op = "goto-tab"   -> host'.tabs[host'.active].id = r.meant
               [] r.op = "close-tab"  -> r.meant \notin ToSet(Ids(host'.tabs)) /\ Len(host'.tabs) = Len(host.tabs) - 1
               [] r.op = "close-pane" -> PanesOf(host.tabs) \ PanesOf(host'.tabs) \subseteq {r.meant}
<1> DEFINE r == asked[1]
<1>1. PICK b \in BOOLEAN : host' = Done(host, r, b)
  BY DEF Serve
<1>2. HostSound(host) /\ asked # <<>> /\ IsSeq(asked)
  BY DEF ClicksInv, Serve, TabsInv, Typing, RequestsKnown
<1>3. Right(host, r)
  <2>1. 1 \in 1 .. Len(asked) /\ 1 - 1 = 0
    BY <1>2, SeqDomain
  <2>2. Right(Handled(host, asked)[1 - 1], asked[1])
    BY <2>1 DEF ClicksInv, RightAll
  <2>3. Handled(host, asked)[0] = host
    BY <1>2, HandledSpelled
  <2> QED BY <2>1, <2>2, <2>3
<1>4. Clicks(r)
  BY DEF Clicks
<1> HIDE DEF r
<1>5. CASE r.op = "goto-tab" /\ r.index \in DOMAIN host.tabs /\ host.tabs[r.index].id = r.meant
  <2>1. host'.tabs[host'.active].id = r.meant
    BY <1>1, <1>2, <1>5, GotoActs
  <2> QED BY <1>5, <2>1 DEF r
<1>6. CASE r.op = "close-tab" /\ Len(host.tabs) # 1 /\ host.tabs[host.active].id = r.meant
  <2>1. r.meant \notin ToSet(Ids(host'.tabs)) /\ Len(host'.tabs) = Len(host.tabs) - 1
    BY <1>1, <1>2, <1>6, CloseTabActs
  <2> QED BY <1>6, <2>1 DEF r
<1>7. CASE r.op = "close-pane" /\ "number" \notin DOMAIN r.target /\ r.target.pane = r.meant
  <2>1. PanesOf(host.tabs) \ PanesOf(host'.tabs) \subseteq {r.meant}
    BY <1>1, <1>2, <1>7, ClosePaneActs
  <2> QED BY <1>7, <2>1 DEF r
<1> QED BY <1>3, <1>4, <1>5, <1>6, <1>7 DEF Right

(* Only the host makes what is asked shorter.                              *)
Longer == Len(asked') \in Nat /\ Len(asked) \in Nat /\ Len(asked') >= Len(asked)

LEMMA AskedLonger ==
  ASSUME TabsInv, NEW s, IsSeq(s), Asks(s)
  PROVE  Longer
<1>1. asked' = asked \o Append(s, Refresh)
  BY DEF Asks, Ask
<1>2. IsSeq(asked) /\ IsSeq(Append(s, Refresh))
  BY SeqAppend DEF TabsInv, Typing, RequestsKnown
<1>3. Len(asked) \in Nat /\ Len(Append(s, Refresh)) \in Nat
  BY <1>2, SeqDomain
<1>4. Len(asked') = Len(asked) + Len(Append(s, Refresh))
  BY <1>1, <1>2, SeqJoin
<1> QED BY <1>3, <1>4 DEF Longer

LEMMA OnlyServe ==
  ASSUME TabsInv, Next, ~Serve
  PROVE  Longer
<1>1. \A x, y, z : IsSeq(<<x>>) /\ IsSeq(<<x, y>>) /\ IsSeq(<<x, y, z>>)
  <2> TAKE x, y, z
  <2>1. <<x>> \in Seq({x})
    OBVIOUS
  <2>2. <<x, y>> \in Seq({x, y})
    OBVIOUS
  <2>3. <<x, y, z>> \in Seq({x, y, z})
    OBVIOUS
  <2> QED BY <2>1, <2>2, <2>3, Zenon DEF IsSeq
<1>2. ASSUME NEW x, Asks(<<x>>) PROVE Longer
  BY <1>1, <1>2, AskedLonger
<1>3. ASSUME NEW x, NEW y, Asks(<<x, y>>) PROVE Longer
  BY <1>1, <1>3, AskedLonger
<1>4. ASSUME NEW x, NEW y, NEW z, Asks(<<x, y, z>>) PROVE Longer
  BY <1>1, <1>4, AskedLonger
<1>5. IsSeq(asked) /\ Len(asked) \in Nat /\ DOMAIN asked = 1 .. Len(asked)
  BY SeqDomain DEF TabsInv, Typing, RequestsKnown
<1>6. ASSUME asked' = asked PROVE Longer
  BY <1>5, <1>6 DEF Longer
<1>7. ASSUME NEW i \in DOMAIN ui.strip, ClickTab(i) \/ GotoTab(i) \/ CloseClicked(i) PROVE Longer
  BY <1>2, <1>4, <1>7 DEF ClickTab, GotoTab, CloseClicked
<1>8. CASE CloseTab \/ OtherTab \/ ClosePane
  BY <1>2, <1>8 DEF CloseTab, OtherTab, ClosePane
<1>9. ASSUME NEW name \in Names, Rename(name) PROVE Longer
  BY <1>3, <1>9 DEF Rename
<1>10. ASSUME NEW step \in {"next", "prev"}, MoveFocus(step) PROVE Longer
  BY <1>2, <1>10 DEF MoveFocus
<1>11. ASSUME NEW i, NEW j, Reorder(i, j) PROVE Longer
  BY <1>6, <1>11 DEF Reorder, Local
<1>12. ASSUME NEW i, NEW p, GoToAttention(i, p) PROVE Longer
  BY <1>6, <1>12 DEF GoToAttention, Local
<1>13. ASSUME NEW p, ClickPane(p) PROVE Longer
  BY <1>6, <1>13 DEF ClickPane, Local
<1>14. ASSUME NEW r \in Others, Other(r) PROVE Longer
  <2>1. asked' = [i \in 1 .. Len(asked) |->
                    IF asked[i].op \in {"goto-tab", "close-tab"} THEN [asked[i] EXCEPT !.sound = FALSE] ELSE asked[i]]
    BY <1>5, <1>14 DEF Other
  <2>2. DOMAIN asked' = 1 .. Len(asked) /\ asked' = [i \in 1 .. Len(asked) |-> asked'[i]]
    BY <2>1
  <2>3. Len(asked') = Len(asked)
    BY <1>5, <2>2, SeqFrom
  <2> QED BY <1>5, <2>3 DEF Longer
<1>15. CASE Read
  <2>1. asked' = asked \/ asked' = Append(asked, Refresh)
    BY <1>15 DEF Read
  <2>2. ASSUME asked' = Append(asked, Refresh) PROVE Longer
    <3>1. Len(asked') = Len(asked) + 1
      BY <1>5, <2>2, SeqAppend
    <3> QED BY <1>5, <3>1 DEF Longer
  <2> QED BY <1>6, <2>1, <2>2
<1> QED BY <1>7, <1>8, <1>9, <1>10, <1>11, <1>12, <1>13, <1>14, <1>15 DEF Next

(* Of what is asked and not yet done (Predicted, the requests on their way *)
(* through the bridge to handle_invoke_action), each click that was sound  *)
(* is right of the tabs there will be when its turn comes: whatever came   *)
(* before it, whichever panes had sessions, and however many wait.         *)
THEOREM ClicksInvariant == Spec => [](TabsInv /\ ClicksInv)
<1>1. Init => TabsInv /\ ClicksInv
  BY StartsInStep, StartsSound
<1>2. TabsInv /\ ClicksInv /\ [Next]_vars => TabsInv' /\ ClicksInv'
  BY StepKeepsInStep, StepKeepsClicks
<1> QED BY <1>1, <1>2, PTL DEF Spec

(* handle_invoke_action acts on the tab or the pane that was clicked       *)
(* (TabAction::SwitchTo, Close, close_pane), if the click was sound.       *)
THEOREM ActsOnClickedHolds == Spec => ActsOnClicked
<1> DEFINE Acts ==
      asked # <<>> /\ asked' = Tail(asked) /\ "sound" \in DOMAIN asked[1] /\ asked[1].sound =>
        LET r == asked[1]
        IN  CASE r.op = "goto-tab"   -> host'.tabs[host'.active].id = r.meant
              [] r.op = "close-tab"  -> r.meant \notin ToSet(Ids(host'.tabs)) /\ Len(host'.tabs) = Len(host.tabs) - 1
              [] r.op = "close-pane" -> PanesOf(host.tabs) \ PanesOf(host'.tabs) \subseteq {r.meant}
<1>1. TabsInv /\ ClicksInv /\ [Next]_vars => [Acts]_vars
  <2> SUFFICES ASSUME TabsInv, ClicksInv, Next, asked # <<>>, asked' = Tail(asked) PROVE Serve
    BY ServeActs
  <2>1. Len(asked') = Len(asked) - 1 /\ Len(asked) \in Nat
    BY SeqTail, SeqDomain DEF TabsInv, Typing, RequestsKnown
  <2>2. ~Longer
    BY <2>1 DEF Longer
  <2> QED BY <2>2, OnlyServe
<1> QED BY <1>1, ClicksInvariant, PTL DEF Spec, ActsOnClicked

-----------------------------------------------------------------------------
(* The strip: what is where on the x axis.                                 *)

LEMMA GreaterOf ==
  ASSUME NEW a \in Int, NEW b \in Int
  PROVE  Max({a, b}) = IF a >= b THEN a ELSE b
BY DEF Max

LEMMA LesserOf ==
  ASSUME NEW a \in Int, NEW b \in Int
  PROVE  Min({a, b}) = IF a <= b THEN a ELSE b
BY DEF Min

LEMMA OnlyOf ==
  ASSUME NEW S, NEW i \in Int, S = {i}
  PROVE  Max(S) = i /\ Min(S) = i
BY DEF Max, Min

Tab == [id : Nat, label : Nat]

StripTyped(s) == s.tabs \in Seq(Tab) /\ s.scroll \in Int /\ s.window \in Nat /\ s.name \in Nat

LEMMA WidthIn ==
  ASSUME NEW label \in Nat
  PROVE  Strip!TabWidth(label) \in 80 .. 420
<1>1. Min({420, label + 56}) \in Int /\ Min({420, label + 56}) <= 420
  BY LesserOf
<1>2. Max({80, Min({420, label + 56})}) \in 80 .. 420
  <2> DEFINE m == Min({420, label + 56})
  <2> HIDE DEF m
  <2>1. m \in Int /\ m <= 420
    BY <1>1 DEF m
  <2>2. Max({80, m}) = IF 80 >= m THEN 80 ELSE m
    BY <2>1, GreaterOf
  <2> QED BY <2>1, <2>2 DEF m
<1>3. Strip!TabWidth(label) = Max({80, Min({420, label + 56})})
  BY DEF Strip!TabWidth, Strip!Within, Strip!MinTab, Strip!Max, Strip!Min, Max, Min
<1> QED BY <1>2, <1>3

(* The edges are a recursive function over the tabs.                       *)
EdgeOf(e, tabs, n) ==
  e = [i \in 1 .. n |-> IF i = 1 THEN 0 ELSE e[i - 1] + Strip!TabWidth(tabs[i - 1].label) + 1]

LEMMA EdgesExist ==
  ASSUME NEW tabs, NEW n \in Nat
  PROVE  \E e : EdgeOf(e, tabs, n)
<1> DEFINE T == {m \in Nat : \E e : EdgeOf(e, tabs, m)}
           W(i) == Strip!TabWidth(tabs[i].label)
<1>1. 0 \in T
  <2>1. EdgeOf(<<>>, tabs, 0)
    BY DEF EdgeOf
  <2> QED BY <2>1
<1>2. ASSUME NEW m \in T PROVE m + 1 \in T
  <2>1. PICK e : EdgeOf(e, tabs, m)
    OBVIOUS
  <2> DEFINE g == [i \in 1 .. m + 1 |-> IF i <= m THEN e[i] ELSE IF i = 1 THEN 0 ELSE e[m] + W(m) + 1]
  <2>2. m \in Nat
    OBVIOUS
  <2>3. ASSUME NEW i \in 1 .. m + 1 PROVE g[i] = IF i = 1 THEN 0 ELSE g[i - 1] + W(i - 1) + 1
    <3>1. CASE i <= m
      <4>1. g[i] = e[i] /\ (i # 1 => g[i-1] = e[i-1])
        BY <3>1, <2>2
      <4>2. i \in 1 .. m
        BY <3>1, <2>2
      <4>3. e[i] = IF i = 1 THEN 0 ELSE e[i-1] + W(i-1) + 1
        BY <2>1, <4>2 DEF EdgeOf
      <4> QED BY <4>1, <4>3
    <3>2. CASE i > m
      <4>1. i = m + 1 /\ i - 1 = m
        BY <3>2, <2>2
      <4>2. g[i] = IF i = 1 THEN 0 ELSE e[m] + W(m) + 1
        BY <3>2, <2>2
      <4>3. CASE i = 1
        BY <4>2, <4>3
      <4>4. CASE i # 1
        <5>1. m \in 1 .. m + 1 /\ m <= m
          BY <4>1, <4>4, <2>2
        <5>2. g[m] = e[m]
          BY <5>1
        <5> HIDE DEF g, W
        <5>3. g[i - 1] + W(i - 1) + 1 = e[m] + W(m) + 1
          BY <5>2, <4>1
        <5> QED BY <4>2, <4>4, <5>3
      <4> QED BY <4>3, <4>4
    <3> QED BY <3>1, <3>2, <2>2
  <2>4. EdgeOf(g, tabs, m + 1)
    BY <2>3 DEF EdgeOf
  <2>5. \E h : EdgeOf(h, tabs, m + 1)
    <3> HIDE DEF g
    <3> QED BY <2>4
  <2> QED BY <2>2, <2>5
<1>3. T = Nat
  <2>1. T \in SUBSET Nat
    OBVIOUS
  <2> HIDE DEF T
  <2> QED BY <1>1, <1>2, <2>1, SetInduction
<1> QED BY <1>3

LEMMA EdgesAre ==
  ASSUME NEW s, StripTyped(s)
  PROVE  LET e == Strip!Edges(s)
             n == Len(s.tabs)
         IN  /\ e[1] = 0
             /\ \A i \in 1 .. n : e[i + 1] = e[i] + Strip!TabWidth(s.tabs[i].label) + 1
<1> DEFINE n == Len(s.tabs)
           e == CHOOSE f : EdgeOf(f, s.tabs, n + 1)
<1>1. n \in Nat
  BY DEF StripTyped
<1>2. EdgeOf(e, s.tabs, n + 1)
  <2>1. n + 1 \in Nat
    BY <1>1
  <2> HIDE DEF n
  <2>2. \E f : EdgeOf(f, s.tabs, n + 1)
    BY <2>1, EdgesExist
  <2> QED BY <2>2
<1>3. Strip!Edges(s) = e
  BY DEF Strip!Edges, EdgeOf
<1> HIDE DEF e
<1>4. ASSUME NEW i \in 1 .. n + 1 PROVE e[i] = IF i = 1 THEN 0 ELSE e[i - 1] + Strip!TabWidth(s.tabs[i - 1].label) + 1
  BY <1>2 DEF EdgeOf
<1>5. e[1] = 0
  BY <1>1, <1>4
<1>6. ASSUME NEW i \in 1 .. n PROVE e[i + 1] = e[i] + Strip!TabWidth(s.tabs[i].label) + 1
  <2>1. i + 1 \in 1 .. n + 1 /\ i + 1 # 1 /\ (i + 1) - 1 = i
    BY <1>1
  <2> QED BY <2>1, <1>4
<1> QED BY <1>3, <1>5, <1>6

LEMMA EdgesGrow ==
  ASSUME NEW s, StripTyped(s)
  PROVE  LET e == Strip!Edges(s)
             n == Len(s.tabs)
             W(i) == Strip!TabWidth(s.tabs[i].label)
         IN  /\ \A i \in 1 .. n + 1 : e[i] \in Nat
             /\ \A i \in 1 .. n : W(i) \in 80 .. 420
             /\ \A i \in 1 .. n : \A j \in i + 1 .. n + 1 : e[j] >= e[i] + W(i) + 1
<1> DEFINE e == Strip!Edges(s)
           n == Len(s.tabs)
           W(i) == Strip!TabWidth(s.tabs[i].label)
           T == {m \in Nat : /\ \A i \in 1 .. n + 1 : i <= m + 1 => e[i] \in Nat
                             /\ \A i \in 1 .. n : \A j \in i + 1 .. n + 1 : j <= m + 1 => e[j] >= e[i] + W(i) + 1}
<1>1. n \in Nat /\ \A i \in 1 .. n : s.tabs[i].label \in Nat
  <2>1. s.tabs \in Seq(Tab)
    BY DEF StripTyped
  <2>2. \A i \in 1 .. Len(s.tabs) : s.tabs[i] \in Tab
    BY <2>1
  <2> QED BY <2>1, <2>2 DEF Tab
<1>2. \A i \in 1 .. n : W(i) \in 80 .. 420
  BY <1>1, WidthIn
<1>3. e[1] = 0 /\ \A i \in 1 .. n : e[i + 1] = e[i] + W(i) + 1
  BY EdgesAre
<1> HIDE DEF e, n, W
<1>4. 0 \in T
  BY <1>1, <1>3
<1>5. ASSUME NEW m \in T PROVE m + 1 \in T
  <2>1. CASE m + 2 > n + 1
    BY <2>1, <1>1
  <2>2. CASE m + 2 <= n + 1
    <3>1. m \in Nat /\ m + 1 \in 1 .. n /\ (m + 1) + 1 = m + 2
      BY <2>2, <1>1
    <3>2. e[m + 1] \in Nat /\ e[m + 2] = e[m + 1] + W(m + 1) + 1 /\ W(m + 1) \in 80 .. 420
      <4>1. e[m + 2] = e[m + 1] + W(m + 1) + 1
        BY <3>1, <1>3
      <4>2. W(m + 1) \in 80 .. 420
        BY <3>1, <1>2
      <4>3. m + 1 \in 1 .. n + 1 /\ m + 1 <= m + 1
        BY <3>1, <1>1
      <4> QED BY <4>1, <4>2, <4>3
    <3>3. ASSUME NEW i \in 1 .. n + 1, i <= m + 2 PROVE e[i] \in Nat
      <4>1. CASE i = m + 2
        BY <4>1, <3>2
      <4>2. CASE i # m + 2
        BY <4>2, <3>1, <3>3, <1>1
      <4> QED BY <4>1, <4>2
    <3>4. ASSUME NEW i \in 1 .. n, NEW j \in i + 1 .. n + 1, j <= m + 2 PROVE e[j] >= e[i] + W(i) + 1
      <4>1. CASE j # m + 2
        BY <4>1, <3>1, <3>4, <1>1
      <4>2. CASE j = m + 2 /\ i = m + 1
        BY <4>2, <3>2
      <4>3. CASE j = m + 2 /\ i # m + 1
        <5>1. i <= m /\ m + 1 \in i + 1 .. n + 1
          BY <4>3, <3>1, <1>1
        <5>2. e[m + 1] >= e[i] + W(i) + 1
          BY <5>1
        <5>3. e[i] \in Nat /\ W(i) \in 80 .. 420
          BY <5>1, <3>1, <1>1, <1>2
        <5>4. e[j] = e[m + 1] + W(m + 1) + 1
          BY <4>3, <3>2
        <5> DEFINE a == e[i]
                   b == W(i)
                   c == e[m + 1]
                   d == W(m + 1)
        <5>5. c >= a + b + 1 /\ a \in Nat /\ b \in Nat /\ c \in Nat /\ d \in Nat /\ e[j] = c + d + 1
          BY <5>2, <5>3, <5>4, <3>2
        <5> HIDE DEF a, b, c, d
        <5>6. e[j] >= a + b + 1
          BY <5>5
        <5> QED BY <5>6 DEF a, b
      <4> QED BY <4>1, <4>2, <4>3
    <3> QED BY <3>1, <3>3, <3>4
  <2> QED BY <2>1, <2>2, <1>1
<1>6. T = Nat
  <2>1. T \in SUBSET Nat
    OBVIOUS
  <2> HIDE DEF T
  <2> QED BY <1>4, <1>5, <2>1, SetInduction
<1>7. n \in T
  BY <1>1, <1>6
<1>8. \A i \in 1 .. n + 1 : i <= n + 1
  BY <1>1
<1>9. \A i \in 1 .. n : \A j \in i + 1 .. n + 1 : j <= n + 1
  BY <1>1
<1>10. /\ \A i \in 1 .. n + 1 : e[i] \in Nat
       /\ \A i \in 1 .. n : \A j \in i + 1 .. n + 1 : e[j] >= e[i] + W(i) + 1
  BY <1>7, <1>8, <1>9
<1> QED BY <1>2, <1>10 DEF e, n, W

(* The lengths a strip is laid out with are integers.                      *)
LEMMA LengthsTyped ==
  ASSUME NEW s, StripTyped(s)
  PROVE  LET n == Len(s.tabs)
         IN  /\ Strip!ButtonsLeft(s) \in Nat /\ Strip!ButtonsLeft(s) = IF s.window >= 132 THEN s.window - 132 ELSE 0
             /\ Strip!Left(s) \in Nat
             /\ Strip!Total(s) = Strip!Edges(s)[n + 1] + 32 /\ Strip!Total(s) \in Nat
             /\ Strip!ContentLeft(s) = IF Strip!Overflows(s) THEN Strip!Left(s) + 20 ELSE Strip!Left(s)
             /\ Strip!ContentRight(s) = s.window - 132 - (IF Strip!Overflows(s) THEN 20 ELSE 0)
             /\ Strip!ContentLeft(s) \in Int /\ Strip!ContentRight(s) \in Int
<1>1. s.window \in Nat /\ s.name \in Nat /\ Len(s.tabs) \in Nat
  BY DEF StripTyped
<1>2. Strip!ButtonsLeft(s) = IF s.window >= 132 THEN s.window - 132 ELSE 0
  <2>1. Strip!ButtonsLeft(s) = Max({s.window - 132, 0})
    BY <1>1 DEF Strip!ButtonsLeft, Strip!Button, Strip!Max, Max
  <2>2. Max({s.window - 132, 0}) = IF s.window - 132 >= 0 THEN s.window - 132 ELSE 0
    BY <1>1, GreaterOf
  <2> QED BY <1>1, <2>1, <2>2
<1>3. Strip!Badge(s) \in Nat
  <2> DEFINE a == Strip!ButtonsLeft(s) - 32 - 10 - 80
             b == Max({a, 88})
             c == Min({b, 480})
             d == Min({s.name + 24, c})
  <2>1. a \in Int
    BY <1>1, <1>2
  <2> HIDE DEF a
  <2>2. b \in Int
    BY <2>1, GreaterOf
  <2> HIDE DEF b
  <2>3. c \in Int
    BY <2>2, LesserOf
  <2> HIDE DEF c
  <2>4. d \in Int
    BY <2>3, <1>1, LesserOf
  <2> HIDE DEF d
  <2>5. Max({88, d}) \in Nat
    BY <2>4, GreaterOf
  <2>6. Strip!Badge(s) = IF s.name = 0 THEN 0 ELSE Max({88, d})
    BY DEF Strip!Badge, Strip!Within, Strip!Add, Strip!MinTab, Strip!Max, Strip!Min, Max, Min, a, b, c, d
  <2> QED BY <2>5, <2>6
<1>4. Strip!Left(s) \in Nat
  BY <1>3 DEF Strip!Left
<1>5. Strip!Edges(s)[Len(s.tabs) + 1] \in Nat
  <2>1. Len(s.tabs) + 1 \in 1 .. Len(s.tabs) + 1
    BY <1>1
  <2> QED BY <2>1, EdgesGrow
<1>6. Strip!Total(s) = Strip!Edges(s)[Len(s.tabs) + 1] + 32 /\ Strip!Total(s) \in Nat
  BY <1>5 DEF Strip!Total, Strip!Add
<1>7. /\ Strip!ContentLeft(s) = IF Strip!Overflows(s) THEN Strip!Left(s) + 20 ELSE Strip!Left(s)
      /\ Strip!ContentRight(s) = s.window - 132 - (IF Strip!Overflows(s) THEN 20 ELSE 0)
  BY <1>1 DEF Strip!ContentLeft, Strip!ContentRight, Strip!Arrow, Strip!Button
<1>8. Strip!ContentLeft(s) \in Int /\ Strip!ContentRight(s) \in Int
  BY <1>1, <1>4, <1>7
<1>9. Strip!ButtonsLeft(s) \in Nat
  BY <1>1, <1>2
<1> QED BY <1>2, <1>4, <1>6, <1>7, <1>8, <1>9

(* What is drawn beside each other.                                        *)
LEMMA TabsBeside ==
  ASSUME NEW s, StripTyped(s), NEW x \in Int
  PROVE  /\ \A i, j \in Strip!On(s, x) : i = j
         /\ Strip!OnClose(s, x) \subseteq Strip!On(s, x)
         /\ Strip!On(s, x) \subseteq 1 .. Len(s.tabs)
         /\ Strip!In(x, Strip!Start(s, Len(s.tabs) + 1), Strip!Add) => Strip!On(s, x) = {}
<1> DEFINE n == Len(s.tabs)
           e == Strip!Edges(s)
           W(i) == Strip!TabWidth(s.tabs[i].label)
           o == Strip!ContentLeft(s) - s.scroll
           y == x - o
<1>1. n \in Nat /\ DOMAIN s.tabs = 1 .. n /\ o \in Int /\ y \in Int /\ n + 1 \in 1 .. n + 1
  BY LengthsTyped, SMTT(30) DEF StripTyped
<1>2. /\ \A i \in 1 .. n + 1 : e[i] \in Nat
      /\ \A i \in 1 .. n : W(i) \in 80 .. 420
      /\ \A i \in 1 .. n : \A j \in i + 1 .. n + 1 : e[j] >= e[i] + W(i) + 1
  BY EdgesGrow
<1>3. \A i : Strip!Start(s, i) = o + e[i] /\ Strip!End(s, i) = o + e[i] + W(i)
  BY DEF Strip!Start, Strip!End
<1>11. y = x - o
  OBVIOUS
<1> HIDE DEF n, e, W, o, y
<1>12. ASSUME NEW i \in 1 .. n PROVE e[i] \in Int /\ W(i) \in Int /\ W(i) >= 80
  <2>1. i \in 1 .. n + 1
    BY <1>1
  <2>2. e[i] \in Nat /\ W(i) \in 80 .. 420
    BY <2>1, <1>2
  <2> QED BY <2>2
<1>4. ASSUME NEW i \in 1 .. n
      PROVE  /\ Strip!In(x, Strip!Start(s, i), W(i)) <=> y >= e[i] /\ y < e[i] + W(i)
             /\ Strip!In(x, Strip!End(s, i) - 22, 16) <=> y >= e[i] + W(i) - 22 /\ y < e[i] + W(i) - 6
  <2> DEFINE a == e[i]
             b == W(i)
  <2>2. Strip!Start(s, i) = o + a /\ Strip!End(s, i) = o + a + b
    BY <1>3
  <2>3. o \in Int /\ a \in Int /\ b \in Int
    BY <1>1, <1>12
  <2> HIDE DEF a, b
  <2>4. /\ x >= o + a /\ x < o + a + b <=> x - o >= a /\ x - o < a + b
        /\ x >= o + a + b - 22 /\ x < o + a + b - 22 + 16 <=> x - o >= a + b - 22 /\ x - o < a + b - 6
    BY <2>3
  <2>6. ASSUME NEW u, u = o + a PROVE Strip!In(x, u, b) <=> x - o >= a /\ x - o < a + b
    BY <2>4, <2>6 DEF Strip!In
  <2>7. ASSUME NEW u, u = o + a + b PROVE Strip!In(x, u - 22, 16) <=> x - o >= a + b - 22 /\ x - o < a + b - 6
    <3>1. x >= u - 22 <=> x - o >= a + b - 22
      BY <2>3, <2>7
    <3>2. x < u - 22 + 16 <=> x - o < a + b - 6
      BY <2>3, <2>7
    <3> QED BY <3>1, <3>2 DEF Strip!In
  <2> DEFINE p == Strip!Start(s, i)
             q == Strip!End(s, i)
  <2>8. p = o + a /\ q = o + a + b
    BY <2>2
  <2> HIDE DEF p, q
  <2>5. /\ Strip!In(x, p, b) <=> x - o >= a /\ x - o < a + b
        /\ Strip!In(x, q - 22, 16) <=> x - o >= a + b - 22 /\ x - o < a + b - 6
    BY <2>6, <2>7, <2>8
  <2> QED BY <2>5, <1>11 DEF a, b, p, q
<1>5. Strip!On(s, x) = {i \in 1 .. n : y >= e[i] /\ y < e[i] + W(i)}
  BY <1>1, <1>4 DEF Strip!On, W
<1>6. Strip!OnClose(s, x) = {i \in 1 .. n : y >= e[i] + W(i) - 22 /\ y < e[i] + W(i) - 6}
  BY <1>1, <1>4 DEF Strip!OnClose
<1>7. ASSUME NEW i \in Strip!On(s, x), NEW j \in Strip!On(s, x), i < j PROVE FALSE
  <2>1. i \in 1 .. n /\ j \in i + 1 .. n + 1 /\ j \in 1 .. n + 1
    BY <1>1, <1>5, <1>7
  <2>2. e[j] >= e[i] + W(i) + 1 /\ e[j] \in Nat
    BY <1>2, <2>1
  <2>3. y < e[i] + W(i) /\ y >= e[j]
    BY <1>5
  <2> DEFINE a == e[i]
             b == W(i)
             c == e[j]
  <2>4. a \in Int /\ b \in Int
    BY <1>12, <2>1
  <2>5. c \in Int /\ c >= a + b + 1 /\ y \in Int /\ y < a + b /\ y >= c
    BY <1>1, <2>2, <2>3
  <2> HIDE DEF a, b, c
  <2> QED BY <2>4, <2>5
<1>8. \A i, j \in Strip!On(s, x) : i = j
  <2> SUFFICES ASSUME NEW i \in Strip!On(s, x), NEW j \in Strip!On(s, x) PROVE i = j
    OBVIOUS
  <2>1. i \in Nat /\ j \in Nat
    BY <1>1, <1>5
  <2>2. ~(i < j) /\ ~(j < i)
    BY <1>7
  <2> QED BY <2>1, <2>2
<1>9. Strip!OnClose(s, x) \subseteq Strip!On(s, x)
  <2> SUFFICES ASSUME NEW i \in Strip!OnClose(s, x) PROVE i \in Strip!On(s, x)
    OBVIOUS
  <2>1. i \in 1 .. n
    BY <1>6
  <2>2. y >= e[i] + W(i) - 22 /\ y < e[i] + W(i) - 6
    BY <1>6
  <2>3. y >= e[i] /\ y < e[i] + W(i)
    <3> DEFINE a == e[i]
               b == W(i)
    <3>1. a \in Int /\ b \in Int /\ b >= 80
      BY <1>12, <2>1
    <3>3. y \in Int /\ y >= a + b - 22 /\ y < a + b - 6
      BY <1>1, <2>2
    <3> HIDE DEF a, b
    <3>2. y >= a /\ y < a + b
      BY <3>1, <3>3
    <3> QED BY <3>2 DEF a, b
  <2> QED BY <2>1, <2>3, <1>5
<1>10. ASSUME Strip!In(x, Strip!Start(s, n + 1), Strip!Add), NEW i \in Strip!On(s, x) PROVE FALSE
  <2>1. x >= o + e[n + 1]
    BY <1>3, <1>10 DEF Strip!In
  <2>2. i \in 1 .. n /\ n + 1 \in i + 1 .. n + 1 /\ y < e[i] + W(i)
    BY <1>1, <1>5
  <2>3. e[n + 1] >= e[i] + W(i) + 1 /\ e[n + 1] \in Nat
    BY <1>1, <1>2, <2>2
  <2> DEFINE a == e[i]
             b == W(i)
             c == e[n + 1]
  <2>4. a \in Int /\ b \in Int
    BY <1>12, <2>2
  <2>5. c \in Int /\ c >= a + b + 1 /\ y < a + b /\ x >= o + c
    BY <2>1, <2>2, <2>3
  <2>6. o \in Int /\ y = x - o
    BY <1>1, <1>11
  <2> HIDE DEF a, b, c
  <2> QED BY <2>4, <2>5, <2>6
<1> QED BY <1>5, <1>8, <1>9, <1>10 DEF n

(* What is hit is what is on top.                                          *)
LEMMA HitIsSeen ==
  ASSUME NEW s, StripTyped(s), NEW x \in Int, s.window >= Strip!Left(s) + 2 * Strip!Arrow + 3 * Strip!Button
  PROVE  Strip!Hit(s, x) = Strip!Seen(s, x)
<1> DEFINE left  == Strip!Overflows(s) /\ Strip!In(x, Strip!Left(s), Strip!Arrow)
           right == Strip!Overflows(s) /\ Strip!In(x, s.window - 3 * Strip!Button - Strip!Arrow, Strip!Arrow)
           add   == Strip!In(x, Strip!Start(s, Len(s.tabs) + 1), Strip!Add)
           on    == Strip!On(s, x)
           close == Strip!OnClose(s, x)
           keys  == Strip!OnButton(s, x)
           layers == Strip!Layers(s, x)
           named  == IF left THEN "left" ELSE IF right THEN "right"
                    ELSE IF keys # {} THEN Strip!WindowButtons[Min(keys)]
                    ELSE IF add THEN "add" ELSE IF close # {} THEN "close" ELSE IF on # {} THEN "tab" ELSE "none"
           top   == Max({0} \cup {l \in 1 .. 6 : layers[l] # {}})
<1>1. Strip!Hit(s, x) = [part |-> named,
        tab |-> IF named = "close" THEN Min(close) ELSE IF named = "tab" THEN Min(on) ELSE 0]
  BY DEF Strip!Hit, Strip!Min, Min
<1>2. Strip!Seen(s, x) =
        IF top = 0 THEN [part |-> "none", tab |-> 0]
        ELSE IF top = 6 THEN [part |-> Strip!WindowButtons[Max(layers[6])], tab |-> 0]
        ELSE [part |-> Strip!Parts[top], tab |-> Max(layers[top])]
  BY DEF Strip!Seen, Strip!Max, Max
<1>3. /\ layers[1] = on /\ layers[2] = close /\ layers[3] = (IF add THEN {0} ELSE {})
      /\ layers[4] = (IF left THEN {0} ELSE {}) /\ layers[5] = (IF right THEN {0} ELSE {}) /\ layers[6] = keys
  BY DEF Strip!Layers
<1>4. /\ Strip!Parts[1] = "tab" /\ Strip!Parts[2] = "close" /\ Strip!Parts[3] = "add"
      /\ Strip!Parts[4] = "left" /\ Strip!Parts[5] = "right"
  BY DEF Strip!Parts
<1>5. /\ \A i, j \in on : i = j
      /\ close \subseteq on /\ on \subseteq 1 .. Len(s.tabs) /\ Len(s.tabs) \in Nat
      /\ add => on = {}
  BY TabsBeside DEF StripTyped
<1>6. /\ keys \subseteq 1 .. 3 /\ \A i, j \in keys : i = j
      /\ left => keys = {} /\ ~right
      /\ right => keys = {}
  <2>1. s.window \in Nat /\ Strip!Left(s) \in Nat /\ s.window >= Strip!Left(s) + 172
    BY LengthsTyped DEF StripTyped, Strip!Arrow, Strip!Button
  <2>2. Strip!ButtonsLeft(s) = s.window - 132
    BY <2>1, LengthsTyped
  <2>3. keys = {i \in 1 .. 3 : x >= s.window - 132 + (i - 1) * 44 /\ x < s.window - 132 + (i - 1) * 44 + 44}
    BY <2>2 DEF Strip!OnButton, Strip!In, Strip!Button
  <2>4. left => x >= Strip!Left(s) /\ x < Strip!Left(s) + 20
    BY DEF Strip!In, Strip!Arrow
  <2>5. right => x >= s.window - 152 /\ x < s.window - 132
    BY <2>1 DEF Strip!In, Strip!Arrow, Strip!Button
  <2> DEFINE w == s.window - 132
  <2>6. w \in Int /\ w >= Strip!Left(s) + 40
    BY <2>1
  <2>7. keys \subseteq 1 .. 3 /\ \A i \in keys : x >= w /\ x >= w + (i - 1) * 44 /\ x < w + (i - 1) * 44 + 44
    <3>1. \A i \in 1 .. 3 : (i - 1) * 44 >= 0
      OBVIOUS
    <3> QED BY <2>1, <2>3, <3>1
  <2>8. right => x >= w - 20 /\ x < w
    BY <2>1, <2>5
  <2> HIDE DEF w, keys, left, right
  <2>9. \A i, j \in keys : i = j
    BY <2>6, <2>7
  <2>10. left => keys = {} /\ ~right
    BY <2>1, <2>4, <2>6, <2>7, <2>8
  <2>11. right => keys = {}
    BY <2>6, <2>7, <2>8
  <2> QED BY <2>7, <2>9, <2>10, <2>11
<1>7. \A t \in 1 .. 6 : layers[t] # {} /\ (\A l \in t + 1 .. 6 : layers[l] = {}) => top = t
  <2> HIDE DEF layers
  <2> QED BY DEF Max
<1>8. (\A l \in 1 .. 6 : layers[l] = {}) => top = 0
  <2> HIDE DEF layers
  <2> QED BY DEF Max
<1> HIDE DEF left, right, add, on, close, keys, layers, top
<1>9. CASE left
  <2>1. layers[4] = {0} /\ layers[5] = {} /\ layers[6] = {}
    BY <1>3, <1>6, <1>9
  <2>2. top = 4
    BY <2>1, <1>7
  <2>3. Max(layers[4]) = 0
    BY <2>1, OnlyOf
  <2>4. named = "left"
    BY <1>9
  <2> QED BY <1>1, <1>2, <1>4, <2>2, <2>3, <2>4
<1>10. CASE ~left /\ right
  <2>1. layers[5] = {0} /\ layers[6] = {}
    BY <1>3, <1>6, <1>10
  <2>2. top = 5
    BY <2>1, <1>7
  <2>3. Max(layers[5]) = 0
    BY <2>1, OnlyOf
  <2>4. named = "right"
    BY <1>10
  <2> QED BY <1>1, <1>2, <1>4, <2>2, <2>3, <2>4
<1>11. CASE ~left /\ ~right /\ keys # {}
  <2>1. layers[6] = keys /\ top = 6
    BY <1>3, <1>7, <1>11
  <2>2. PICK i \in 1 .. 3 : keys = {i}
    BY <1>6, <1>11
  <2>3. Max(keys) = i /\ Min(keys) = i
    BY <2>2, OnlyOf
  <2>4. named = Strip!WindowButtons[i]
    BY <1>11, <2>3
  <2>5. Strip!WindowButtons[i] \notin {"close", "tab"}
    BY DEF Strip!WindowButtons
  <2>6. Strip!Seen(s, x) = [part |-> Strip!WindowButtons[i], tab |-> 0]
    BY <1>2, <2>1, <2>3
  <2>7. Strip!Hit(s, x) = [part |-> Strip!WindowButtons[i], tab |-> 0]
    BY <1>1, <2>4, <2>5
  <2> QED BY <2>6, <2>7
<1>12. CASE ~left /\ ~right /\ keys = {} /\ add
  <2>1. layers[3] = {0} /\ layers[4] = {} /\ layers[5] = {} /\ layers[6] = {}
    BY <1>3, <1>12
  <2>2. top = 3
    BY <2>1, <1>7
  <2>3. Max(layers[3]) = 0
    BY <2>1, OnlyOf
  <2>4. named = "add"
    BY <1>12
  <2> QED BY <1>1, <1>2, <1>4, <2>2, <2>3, <2>4
<1>13. CASE ~left /\ ~right /\ keys = {} /\ ~add /\ close # {}
  <2>1. layers[2] = close /\ layers[3] = {} /\ layers[4] = {} /\ layers[5] = {} /\ layers[6] = {}
    BY <1>3, <1>13
  <2>2. top = 2
    BY <2>1, <1>7, <1>13
  <2>6. close \subseteq 1 .. Len(s.tabs) /\ \A i, j \in close : i = j
    BY <1>5
  <2>3. PICK i \in 1 .. Len(s.tabs) : close = {i}
    BY <2>6, <1>13
  <2>4. Max(close) = i /\ Min(close) = i
    BY <2>3, OnlyOf
  <2>5. named = "close"
    BY <1>13
  <2> QED BY <1>1, <1>2, <1>4, <2>1, <2>2, <2>4, <2>5
<1>14. CASE ~left /\ ~right /\ keys = {} /\ ~add /\ close = {} /\ on # {}
  <2>1. layers[1] = on /\ layers[2] = {} /\ layers[3] = {} /\ layers[4] = {} /\ layers[5] = {} /\ layers[6] = {}
    BY <1>3, <1>14
  <2>2. top = 1
    BY <2>1, <1>7, <1>14
  <2>3. PICK i \in 1 .. Len(s.tabs) : on = {i}
    BY <1>5, <1>14
  <2>4. Max(on) = i /\ Min(on) = i
    BY <2>3, OnlyOf
  <2>5. named = "tab"
    BY <1>14
  <2> QED BY <1>1, <1>2, <1>4, <2>1, <2>2, <2>4, <2>5
<1>15. CASE ~left /\ ~right /\ keys = {} /\ ~add /\ close = {} /\ on = {}
  <2>1. layers[1] = {} /\ layers[2] = {} /\ layers[3] = {} /\ layers[4] = {} /\ layers[5] = {} /\ layers[6] = {}
    BY <1>3, <1>15
  <2>2. top = 0
    BY <2>1, <1>8
  <2>3. named = "none"
    BY <1>15
  <2> QED BY <1>1, <1>2, <2>2, <2>3
<1> QED BY <1>9, <1>10, <1>11, <1>12, <1>13, <1>14, <1>15

(* Every button comes between the arrows: a press of an arrow moves by     *)
(* less than there is between them.                                        *)
OffsetsTo(most) == {Min({60 * m, most}) : m \in 0 .. (most \div 60) + 1}

LEMMA OffsetBetween ==
  ASSUME NEW most \in Nat, NEW low \in Int, NEW high \in Nat, low <= most, high - low >= 59
  PROVE  \E o \in OffsetsTo(most) : o \in Int /\ low <= o /\ o <= high
<1> DEFINE q == most \div 60
<1>1. q \in Nat /\ 60 * q <= most /\ most < 60 * q + 60
  OBVIOUS
<1> HIDE DEF q
<1>2. CASE low <= 0
  <2>1. Min({60 * 0, most}) = 0
    BY LesserOf
  <2>2. 0 \in 0 .. q + 1
    BY <1>1
  <2>3. 0 \in OffsetsTo(most)
    BY <2>1, <2>2 DEF OffsetsTo, q
  <2> QED BY <1>2, <2>3
<1>3. CASE low > 0
  <2> DEFINE m == (low + 59) \div 60
  <2>1. m \in Nat /\ 60 * m <= low + 59 /\ low + 59 < 60 * m + 60
    BY <1>3
  <2> HIDE DEF m
  <2>2. m \in 0 .. q + 1
    BY <1>1, <2>1
  <2> DEFINE o == Min({60 * m, most})
  <2>3. o = IF 60 * m <= most THEN 60 * m ELSE most
    BY <2>1, LesserOf
  <2>4. o \in OffsetsTo(most)
    BY <2>2 DEF OffsetsTo, q
  <2> HIDE DEF o
  <2>5. o \in Int /\ low <= o /\ o <= high
    BY <1>3, <2>1, <2>3
  <2> QED BY <2>4, <2>5
<1> QED BY <1>2, <1>3

LEMMA OffsetLast ==
  ASSUME NEW most \in Nat
  PROVE  most \in OffsetsTo(most)
<1> DEFINE q == most \div 60
           m == q + 1
<1>1. q \in Nat /\ most < 60 * q + 60
  OBVIOUS
<1> HIDE DEF q
<1>2. m \in 0 .. q + 1 /\ 60 * m > most /\ 60 * m \in Int
  BY <1>1
<1> HIDE DEF m
<1>3. Min({60 * m, most}) = most
  BY <1>2, LesserOf
<1> QED BY <1>2, <1>3 DEF OffsetsTo, q

StripRecord == [tabs : Seq(Tab), active : Nat, scroll : Int, window : Nat, name : Nat]

LEMMA StripIsTyped ==
  ASSUME NEW s \in StripRecord
  PROVE  StripTyped(s)
BY DEF StripRecord, StripTyped

(* Scrolling moves what is drawn and changes no length.                    *)
LEMMA ScrolledAlike ==
  ASSUME NEW s, NEW u, u.tabs = s.tabs, u.window = s.window, u.name = s.name
  PROVE  /\ Strip!Edges(u) = Strip!Edges(s)
         /\ Strip!ContentLeft(u) = Strip!ContentLeft(s)
<1>1. Strip!Edges(u) = Strip!Edges(s)
  BY DEF Strip!Edges
<1>2. Strip!Total(u) = Strip!Total(s)
  BY <1>1 DEF Strip!Total
<1>3. Strip!ButtonsLeft(u) = Strip!ButtonsLeft(s)
  BY DEF Strip!ButtonsLeft
<1>4. Strip!Badge(u) = Strip!Badge(s)
  BY <1>3 DEF Strip!Badge
<1>5. Strip!Left(u) = Strip!Left(s)
  BY <1>4 DEF Strip!Left
<1>6. Strip!Overflows(u) <=> Strip!Overflows(s)
  BY <1>2, <1>5 DEF Strip!Overflows
<1> QED BY <1>1, <1>5, <1>6 DEF Strip!ContentLeft

LEMMA ButtonsReached ==
  ASSUME strip \in StripRecord
  PROVE  Strip!TabsReachable
<1> DEFINE still == [strip EXCEPT !.scroll = 0]
           n     == Len(strip.tabs)
           e     == Strip!Edges(strip)
           W(i)  == Strip!TabWidth(strip.tabs[i].label)
           left  == Strip!ContentLeft(strip)
           right == Strip!ContentRight(strip)
           most  == Strip!MaxScroll(strip)
           total == Strip!Total(strip)
           shown(a, b) == \E o \in OffsetsTo(most) : a - o >= left /\ b - o <= right
<1> SUFFICES ASSUME right - left >= 80
             PROVE  /\ \A i \in DOMAIN strip.tabs : shown(Strip!End(still, i) - 22, Strip!End(still, i) - 6)
                    /\ shown(Strip!Start(still, n + 1), Strip!Start(still, n + 1) + 32)
  BY DEF Strip!TabsReachable, OffsetsTo, Strip!Min, Min, Strip!MinTab, Strip!Add
<1>1. StripTyped(strip)
  BY StripIsTyped
<1>2. /\ still.tabs = strip.tabs /\ still.window = strip.window /\ still.name = strip.name /\ still.scroll = 0
      /\ n \in Nat /\ DOMAIN strip.tabs = 1 .. n
  BY DEF StripRecord
<1> HIDE DEF still
<1>3. Strip!Edges(still) = e /\ Strip!ContentLeft(still) = left
  BY <1>2, ScrolledAlike
<1>4. left \in Int /\ right \in Int /\ total = e[n + 1] + 32 /\ total \in Nat
  BY <1>1, LengthsTyped
<1>5. \A i : Strip!Start(still, i) = left - 0 + e[i] /\ Strip!End(still, i) = left - 0 + e[i] + W(i)
  BY <1>2, <1>3 DEF Strip!Start, Strip!End
<1>6. /\ \A i \in 1 .. n + 1 : e[i] \in Nat
      /\ \A i \in 1 .. n : W(i) \in 80 .. 420
      /\ \A i \in 1 .. n : \A j \in i + 1 .. n + 1 : e[j] >= e[i] + W(i) + 1
  BY <1>1, EdgesGrow
<1>7. most = (IF total - (right - left) >= 0 THEN total - (right - left) ELSE 0) /\ most \in Nat
  <2>1. most = Max({total - (right - left), 0})
    BY DEF Strip!MaxScroll, Strip!Max, Max
  <2> HIDE DEF total, right, left, most
  <2>2. total - (right - left) \in Int
    BY <1>4
  <2> QED BY <2>1, <2>2, GreaterOf
<1> HIDE DEF n, e, W, left, right, most, total
<1>8. ASSUME NEW i \in 1 .. n
      PROVE  shown(Strip!End(still, i) - 22, Strip!End(still, i) - 6)
  <2>1. i \in 1 .. n + 1 /\ n + 1 \in i + 1 .. n + 1 /\ n + 1 \in 1 .. n + 1
    BY <1>2
  <2>2. e[i] \in Nat /\ W(i) \in 80 .. 420 /\ e[n + 1] >= e[i] + W(i) + 1 /\ e[n + 1] \in Nat
    BY <1>6, <2>1
  <2> DEFINE a == e[i]
             b == W(i)
             c == e[n + 1]
             z == Strip!End(still, i)
             high == a + b - 22
             low == a + b - 6 - (right - left)
  <2>3. a \in Nat /\ b \in Nat /\ b >= 80 /\ c \in Nat /\ c >= a + b + 1
    BY <2>2
  <2>4. z = left + a + b /\ total = c + 32
    BY <1>4, <1>5, <2>2
  <2> HIDE DEF a, b, c, z
  <2>5. high \in Nat /\ low \in Int /\ high - low >= 59
    BY <1>4, <2>3
  <2>6. low <= most
    BY <1>4, <1>7, <2>3, <2>4
  <2> HIDE DEF high, low
  <2>7. PICK o \in OffsetsTo(most) : o \in Int /\ low <= o /\ o <= high
    BY <1>7, <2>5, <2>6, OffsetBetween
  <2>9. z - 22 - o >= left /\ z - 6 - o <= right
    BY <1>4, <2>3, <2>4, <2>7 DEF high, low
  <2> QED BY <2>9 DEF z
<1>9. shown(Strip!Start(still, n + 1), Strip!Start(still, n + 1) + 32)
  <2>1. n + 1 \in 1 .. n + 1
    BY <1>2
  <2> DEFINE c == e[n + 1]
             z == Strip!Start(still, n + 1)
  <2>2. c \in Nat /\ z = left + c /\ total = c + 32
    BY <1>4, <1>5, <1>6, <2>1
  <2> HIDE DEF c, z
  <2>5. most \in OffsetsTo(most)
    BY <1>7, OffsetLast
  <2>3. ASSUME total - (right - left) >= 0 PROVE \E o \in OffsetsTo(most) : z - o >= left /\ (z + 32) - o <= right
    <3>1. most = total - (right - left)
      BY <1>7, <2>3
    <3>2. z - most >= left /\ (z + 32) - most <= right
      BY <1>4, <2>2, <3>1
    <3> QED BY <2>5, <3>2
  <2>4. ASSUME ~(total - (right - left) >= 0) PROVE \E o \in OffsetsTo(most) : z - o >= left /\ (z + 32) - o <= right
    <3>1. most = 0
      BY <1>7, <2>4
    <3>2. z - most >= left /\ (z + 32) - most <= right
      BY <1>4, <2>2, <2>4, <3>1
    <3> QED BY <2>5, <3>2
  <2>6. \E o \in OffsetsTo(most) : z - o >= left /\ (z + 32) - o <= right
    BY <2>3, <2>4
  <2> USE DEF z
  <2>7. shown(z, z + 32)
    BY ONLY <2>6
  <2> QED BY ONLY <2>7
<1> QED BY <1>2, <1>8, <1>9

-----------------------------------------------------------------------------
(* A tab is taken out of a sequence and put in elsewhere.                  *)
LEMMA SeqPut ==
  ASSUME NEW S, NEW s \in Seq(S), NEW i \in 1 .. (Len(s) + 1), NEW v \in S
  PROVE  /\ InsertAt(s, i, v) \in Seq(S) /\ Len(InsertAt(s, i, v)) = Len(s) + 1
         /\ \A j \in 1 .. (Len(s) + 1) : InsertAt(s, i, v)[j] = IF j < i THEN s[j] ELSE IF j = i THEN v ELSE s[j - 1]
<1> DEFINE before == SubSeq(s, 1, i - 1)
           after == SubSeq(s, i, Len(s))
           one == before \o <<v>>
<1>1. /\ before \in Seq(S) /\ Len(before) = i - 1 /\ \A j \in 1 .. (i - 1) : before[j] = s[j]
      /\ after \in Seq(S) /\ Len(after) = Len(s) + 1 - i /\ \A j \in 1 .. (Len(s) + 1 - i) : after[j] = s[i + j - 1]
      /\ i \in Nat /\ Len(s) \in Nat
  OBVIOUS
<1>2. InsertAt(s, i, v) = one \o after
  BY DEF InsertAt
<1> HIDE DEF before, after
<1>3. /\ one \in Seq(S) /\ Len(one) = i
      /\ \A j \in 1 .. i : one[j] = IF j <= i - 1 THEN before[j] ELSE v
  <2>1. /\ <<v>> \in Seq(S) /\ Len(<<v>>) = 1 /\ <<v>>[1] = v
    OBVIOUS
  <2>2. /\ one \in Seq(S) /\ Len(one) = (i - 1) + 1
        /\ \A j \in 1 .. (i - 1) + 1 : one[j] = IF j <= i - 1 THEN before[j] ELSE <<v>>[j - (i - 1)]
    BY <1>1, <2>1, ConcatProperties
  <2>3. (i - 1) + 1 = i /\ \A j \in 1 .. i : ~(j <= i - 1) => j - (i - 1) = 1
    BY <1>1
  <2> HIDE DEF one
  <2> QED BY <2>1, <2>2, <2>3
<1> HIDE DEF one
<1>4. /\ one \o after \in Seq(S) /\ Len(one \o after) = Len(s) + 1
      /\ \A j \in 1 .. (Len(s) + 1) : (one \o after)[j] = IF j <= i THEN one[j] ELSE after[j - i]
  <2>1. /\ one \o after \in Seq(S) /\ Len(one \o after) = Len(one) + Len(after)
        /\ \A j \in 1 .. Len(one) + Len(after) : (one \o after)[j] = IF j <= Len(one) THEN one[j] ELSE after[j - Len(one)]
    BY <1>1, <1>3, ConcatProperties
  <2>2. Len(one) = i /\ Len(after) = Len(s) + 1 - i /\ i + (Len(s) + 1 - i) = Len(s) + 1
    BY <1>1, <1>3
  <2> QED BY <2>1, <2>2
<1>5. ASSUME NEW j \in 1 .. (Len(s) + 1)
      PROVE  (one \o after)[j] = IF j < i THEN s[j] ELSE IF j = i THEN v ELSE s[j - 1]
  <2>1. CASE j < i
    <3>1. j \in 1 .. (i - 1) /\ j <= i - 1 /\ j \in 1 .. i /\ j <= i
      BY <1>1, <2>1
    <3> QED BY <1>1, <1>3, <1>4, <2>1, <3>1
  <2>2. CASE j = i
    <3>1. ~(j <= i - 1) /\ j \in 1 .. i /\ j <= i /\ ~(j < i)
      BY <1>1, <2>2
    <3> QED BY <1>3, <1>4, <2>2, <3>1
  <2>3. CASE j > i
    <3> DEFINE m == j - i
    <3>1. m \in 1 .. (Len(s) + 1 - i) /\ i + m - 1 = j - 1 /\ ~(j <= i) /\ ~(j < i) /\ j # i
      BY <1>1, <2>3
    <3> HIDE DEF m
    <3>2. after[m] = s[i + m - 1]
      BY <1>1, <3>1
    <3>3. (one \o after)[j] = after[m]
      BY <1>4, <3>1 DEF m
    <3> QED BY <3>1, <3>2, <3>3
  <2>4. j < i \/ j = i \/ j > i
    BY <1>1
  <2> QED BY <2>1, <2>2, <2>3, <2>4
<1> QED BY <1>2, <1>4, <1>5

LEMMA SeqPutTaken ==
  ASSUME NEW S, NEW s \in Seq(S), NEW i \in 1 .. (Len(s) + 1), NEW v \in S
  PROVE  RemoveAt(InsertAt(s, i, v), i) = s
<1> DEFINE t == InsertAt(s, i, v)
           u == RemoveAt(t, i)
<1>1. /\ t \in Seq(S) /\ Len(t) = Len(s) + 1 /\ Len(s) \in Nat
      /\ \A j \in 1 .. (Len(s) + 1) : t[j] = IF j < i THEN s[j] ELSE IF j = i THEN v ELSE s[j - 1]
  BY SeqPut
<1> HIDE DEF t
<1>2. /\ u \in Seq(S) /\ Len(u) = Len(t) - 1
      /\ \A j \in 1 .. (Len(t) - 1) : u[j] = t[IF j < i THEN j ELSE j + 1]
  BY <1>1, SeqTaken
<1> HIDE DEF u
<1>3. Len(u) = Len(s)
  BY <1>1, <1>2
<1>4. ASSUME NEW j \in 1 .. Len(u) PROVE u[j] = s[j]
  <2>1. j \in 1 .. (Len(t) - 1) /\ j \in 1 .. (Len(s) + 1) /\ j + 1 \in 1 .. (Len(s) + 1) /\ (j + 1) - 1 = j /\ i \in Nat /\ j \in Nat
    BY <1>1, <1>3
  <2>2. CASE j < i
    <3>1. u[j] = t[j] /\ t[j] = s[j]
      BY <1>1, <1>2, <2>1, <2>2
    <3> QED BY <3>1
  <2>3. CASE ~(j < i)
    <3>1. u[j] = t[j + 1]
      BY <1>2, <2>1, <2>3
    <3>2. ~(j + 1 < i) /\ j + 1 # i
      BY <2>1, <2>3
    <3>3. t[j + 1] = s[(j + 1) - 1]
      BY <1>1, <2>1, <3>2
    <3> QED BY <2>1, <3>1, <3>3
  <2> QED BY <2>2, <2>3
<1>5. u = s
  BY <1>2, <1>3, <1>4, SeqEqual
<1> QED BY <1>5 DEF u, t

-----------------------------------------------------------------------------
(* A strip stays one, and what is held is in it.                           *)

Held == [button : {"none", "minimize", "maximize", "close-window"}, tab : Nat, id : Nat, from : Int, active : BOOLEAN]

Apart(tabs) == \A i, j \in DOMAIN tabs : tabs[i].id = tabs[j].id => i = j

IsStrip(s) == s \in StripRecord /\ s.active \in DOMAIN s.tabs /\ Apart(s.tabs)

Holds(h, s) ==
  /\ h.tab # 0 => h.tab \in DOMAIN s.tabs /\ s.tabs[h.tab].id = h.id
  /\ h.active => h.tab # 0

StripSound == IsStrip(strip) /\ held \in Held /\ Holds(held, strip)

LEMMA LaidOutIs ==
  ASSUME NEW s, IsStrip(s)
  PROVE  LET u == Strip!LaidOut(s) IN IsStrip(u) /\ u.tabs = s.tabs /\ u.active = s.active
<1> DEFINE m == Strip!MaxScroll(s)
           c == IF Strip!Overflows(s) THEN Strip!Within(s.scroll, 0, m) ELSE 0
<1>1. StripTyped(s)
  BY StripIsTyped DEF IsStrip
<1>2. m \in Int
  <2>1. Strip!Total(s) \in Int /\ Strip!ContentRight(s) \in Int /\ Strip!ContentLeft(s) \in Int
    BY <1>1, LengthsTyped
  <2>2. m = Max({Strip!Total(s) - (Strip!ContentRight(s) - Strip!ContentLeft(s)), 0})
    BY DEF Strip!MaxScroll, Strip!Max, Max
  <2> DEFINE d == Strip!Total(s) - (Strip!ContentRight(s) - Strip!ContentLeft(s))
  <2>3. d \in Int
    BY <2>1
  <2> HIDE DEF d, m
  <2> QED BY <2>2, <2>3, GreaterOf DEF d
<1> HIDE DEF m
<1>3. c \in Int
  <2> DEFINE low == Min({m, s.scroll})
  <2>1. s.scroll \in Int
    BY <1>1 DEF StripTyped
  <2>2. low \in Int
    BY <1>2, <2>1, LesserOf
  <2>3. Strip!Within(s.scroll, 0, m) = Max({0, low})
    BY ZenonT(30) DEF Strip!Within, Strip!Max, Strip!Min, Max, Min
  <2> HIDE DEF low
  <2>4. Max({0, low}) \in Int
    BY <2>2, GreaterOf
  <2> QED BY <2>3, <2>4
<1>4. Strip!LaidOut(s) = [s EXCEPT !.scroll = c]
  BY DEF Strip!LaidOut, m
<1> HIDE DEF c
<1> QED BY <1>3, <1>4 DEF IsStrip, StripRecord

LEMMA StripSet ==
  ASSUME NEW s, IsStrip(s)
  PROVE  /\ \A i \in DOMAIN s.tabs : IsStrip([s EXCEPT !.active = i])
         /\ \A x \in Int : IsStrip([s EXCEPT !.scroll = x])
         /\ \A w \in Nat : IsStrip([s EXCEPT !.window = w])
<1>1. ASSUME NEW i \in DOMAIN s.tabs PROVE IsStrip([s EXCEPT !.active = i])
  <2>1. i \in Nat
    BY DEF IsStrip, StripRecord
  <2> QED BY <2>1 DEF IsStrip, StripRecord
<1>2. ASSUME NEW x \in Int PROVE IsStrip([s EXCEPT !.scroll = x])
  BY DEF IsStrip, StripRecord
<1>3. ASSUME NEW w \in Nat PROVE IsStrip([s EXCEPT !.window = w])
  BY DEF IsStrip, StripRecord
<1> QED BY <1>1, <1>2, <1>3

LEMMA RetitledIs ==
  ASSUME NEW s, IsStrip(s), NEW i \in DOMAIN s.tabs, NEW label \in Nat
  PROVE  LET u == [s EXCEPT !.tabs[i].label = label]
         IN  /\ IsStrip(u) /\ DOMAIN u.tabs = DOMAIN s.tabs /\ u.active = s.active
             /\ \A j \in DOMAIN s.tabs : u.tabs[j].id = s.tabs[j].id
<1> DEFINE t == [s.tabs EXCEPT ![i] = [s.tabs[i] EXCEPT !.label = label]]
           u == [s EXCEPT !.tabs = t]
<1>1. s.tabs \in Seq(Tab) /\ DOMAIN s.tabs = 1 .. Len(s.tabs) /\ \A j \in DOMAIN s.tabs : s.tabs[j] \in Tab
  BY DEF IsStrip, StripRecord
<1>2. [s.tabs[i] EXCEPT !.label = label] \in Tab /\ [s.tabs[i] EXCEPT !.label = label].id = s.tabs[i].id
  BY <1>1 DEF Tab
<1>3. t \in Seq(Tab) /\ DOMAIN t = DOMAIN s.tabs
  BY <1>1, <1>2
<1>4. \A j \in DOMAIN s.tabs : t[j].id = s.tabs[j].id
  BY <1>1, <1>2
<1> HIDE DEF t
<1>5. u \in StripRecord /\ u.tabs = t /\ u.active = s.active
  BY <1>3 DEF IsStrip, StripRecord
<1>6. [s EXCEPT !.tabs[i].label = label] = u
  BY <1>1 DEF t
<1> HIDE DEF u
<1>7. Apart(t)
  BY <1>3, <1>4 DEF Apart, IsStrip
<1> QED BY <1>3, <1>4, <1>5, <1>6, <1>7 DEF IsStrip

LEMMA HitIs ==
  ASSUME NEW s, StripTyped(s), NEW x \in Int
  PROVE  LET hit == Strip!Hit(s, x)
         IN  /\ hit.part = "tab" => hit.tab \in DOMAIN s.tabs
             /\ hit.part \in ToSet(Strip!WindowButtons) => hit.part \in {"minimize", "maximize", "close-window"}
<1> DEFINE on   == Strip!On(s, x)
           keys == Strip!OnButton(s, x)
           hit  == Strip!Hit(s, x)
<1>1. ASSUME keys # {} PROVE Strip!WindowButtons[Min(keys)] # "tab"
  <2>1. Strip!ButtonsLeft(s) \in Nat
    BY LengthsTyped
  <2> DEFINE w == Strip!ButtonsLeft(s)
  <2>2. keys = {i \in 1 .. 3 : x >= w + (i - 1) * 44 /\ x < w + (i - 1) * 44 + 44}
    BY DEF Strip!OnButton, Strip!In, Strip!Button
  <2> HIDE DEF w, keys
  <2>3. keys \subseteq 1 .. 3 /\ \A i, j \in keys : i = j
    BY <2>1, <2>2 DEF w
  <2>4. PICK i \in 1 .. 3 : keys = {i}
    BY <1>1, <2>3
  <2>5. Min(keys) = i
    BY <2>4, OnlyOf
  <2> QED BY <2>5 DEF Strip!WindowButtons
<1>2. ASSUME hit.part = "tab" PROVE hit.tab \in DOMAIN s.tabs
  <2> DEFINE named == IF Strip!Overflows(s) /\ Strip!In(x, Strip!Left(s), Strip!Arrow) THEN "left"
                      ELSE IF Strip!Overflows(s) /\ Strip!In(x, s.window - 3 * Strip!Button - Strip!Arrow, Strip!Arrow) THEN "right"
                      ELSE IF keys # {} THEN Strip!WindowButtons[Min(keys)]
                      ELSE IF Strip!In(x, Strip!Start(s, Len(s.tabs) + 1), Strip!Add) THEN "add"
                      ELSE IF Strip!OnClose(s, x) # {} THEN "close" ELSE IF on # {} THEN "tab" ELSE "none"
  <2>1. hit = [part |-> named, tab |-> IF named = "close" THEN Min(Strip!OnClose(s, x)) ELSE IF named = "tab" THEN Min(on) ELSE 0]
    BY DEF Strip!Hit, Strip!Min, Min
  <2>2. named = "tab" => on # {}
    BY <1>1
  <2> HIDE DEF named, hit
  <2>3. on # {} /\ hit.tab = Min(on)
    BY <1>2, <2>1, <2>2
  <2>4. \A i, j \in on : i = j
    BY TabsBeside
  <2>5. on \subseteq 1 .. Len(s.tabs) /\ Len(s.tabs) \in Nat /\ DOMAIN s.tabs = 1 .. Len(s.tabs)
    BY TabsBeside DEF StripTyped
  <2> HIDE DEF on
  <2>6. PICK i \in 1 .. Len(s.tabs) : on = {i}
    BY <2>3, <2>4, <2>5
  <2>7. Min(on) = i
    BY <2>6, OnlyOf
  <2> QED BY <2>3, <2>5, <2>7
<1>3. ASSUME hit.part \in ToSet(Strip!WindowButtons) PROVE hit.part \in {"minimize", "maximize", "close-window"}
  BY <1>3 DEF Strip!WindowButtons, ToSet
<1> QED BY <1>2, <1>3

-----------------------------------------------------------------------------
(* A tab that is dropped: where the tab now at j was.                      *)
Before(from, to, j) == IF j = to THEN from ELSE LET k == IF j < to THEN j ELSE j - 1
                                               IN  IF k < from THEN k ELSE k + 1

LEMMA BeforeIs ==
  ASSUME NEW n \in Nat, NEW from \in 1 .. n, NEW to \in 1 .. n
  PROVE  /\ \A j \in 1 .. n : Before(from, to, j) \in 1 .. n
         /\ \A j, k \in 1 .. n : Before(from, to, j) = Before(from, to, k) => j = k
BY DEF Before

LEMMA ReorderedTabs ==
  ASSUME NEW S, NEW s \in Seq(S), NEW from \in 1 .. Len(s), NEW to \in 1 .. Len(s)
  PROVE  LET t == InsertAt(RemoveAt(s, from), to, s[from])
         IN  /\ t \in Seq(S) /\ Len(t) = Len(s) /\ RemoveAt(t, to) = RemoveAt(s, from)
             /\ \A j \in 1 .. Len(s) : t[j] = s[Before(from, to, j)]
<1> DEFINE r == RemoveAt(s, from)
           v == s[from]
           t == InsertAt(r, to, v)
           n == Len(s)
<1>1. n \in Nat /\ v \in S /\ from \in 1 .. n /\ to \in 1 .. n
  OBVIOUS
<1>2. /\ r \in Seq(S) /\ Len(r) = n - 1
      /\ \A j \in 1 .. (n - 1) : r[j] = s[IF j < from THEN j ELSE j + 1]
  BY SeqTaken
<1> HIDE DEF r, v, n
<1>3. Len(r) + 1 = n /\ to \in 1 .. (Len(r) + 1)
  BY <1>1, <1>2
<1>4. /\ t \in Seq(S) /\ Len(t) = Len(r) + 1
      /\ \A j \in 1 .. (Len(r) + 1) : t[j] = IF j < to THEN r[j] ELSE IF j = to THEN v ELSE r[j - 1]
  <2>1. r \in Seq(S) /\ to \in 1 .. (Len(r) + 1) /\ v \in S
    BY <1>1, <1>2, <1>3
  <2>2. /\ InsertAt(r, to, v) \in Seq(S) /\ Len(InsertAt(r, to, v)) = Len(r) + 1
        /\ \A j \in 1 .. (Len(r) + 1) : InsertAt(r, to, v)[j] = IF j < to THEN r[j] ELSE IF j = to THEN v ELSE r[j - 1]
    BY ONLY <2>1, SeqPut
  <2> QED BY <2>2
<1>5. RemoveAt(t, to) = r
  BY <1>1, <1>2, <1>3, SeqPutTaken
<1> HIDE DEF t
<1>6. ASSUME NEW j \in 1 .. n PROVE t[j] = s[Before(from, to, j)]
  <2>1. t[j] = IF j < to THEN r[j] ELSE IF j = to THEN v ELSE r[j - 1]
    BY <1>3, <1>4
  <2>2. CASE j = to
    <3>1. t[j] = v /\ Before(from, to, j) = from
      BY <1>1, <2>1, <2>2 DEF Before
    <3> QED BY <3>1 DEF v
  <2>3. CASE j # to
    <3> DEFINE k == IF j < to THEN j ELSE j - 1
    <3>1. t[j] = r[k]
      BY <2>1, <2>3
    <3>2. k \in 1 .. (n - 1)
      BY <1>1, <2>3
    <3>3. Before(from, to, j) = IF k < from THEN k ELSE k + 1
      BY <2>3 DEF Before
    <3> HIDE DEF k
    <3> QED BY <1>2, <3>1, <3>2, <3>3
  <2> QED BY <2>2, <2>3
<1> QED BY <1>3, <1>4, <1>5, <1>6 DEF r, t, n, v

LEMMA ReorderedIs ==
  ASSUME NEW s, IsStrip(s), NEW from \in DOMAIN s.tabs, NEW to \in DOMAIN s.tabs
  PROVE  LET u == Strip!Reordered(s, from, to)
         IN  /\ IsStrip(u) /\ DOMAIN u.tabs = DOMAIN s.tabs
             /\ u.tabs[to] = s.tabs[from] /\ u.tabs[u.active] = s.tabs[s.active]
             /\ RemoveAt(u.tabs, to) = RemoveAt(s.tabs, from)
<1> DEFINE n == Len(s.tabs)
           t == InsertAt(RemoveAt(s.tabs, from), to, s.tabs[from])
           a == s.active
           b == CASE a = from -> to
                  [] from < a /\ to >= a -> a - 1
                  [] from > a /\ to <= a -> a + 1
                  [] OTHER -> a
           u == Strip!Reordered(s, from, to)
<1>1. /\ s.tabs \in Seq(Tab) /\ n \in Nat /\ DOMAIN s.tabs = 1 .. n /\ a \in 1 .. n /\ from \in 1 .. n /\ to \in 1 .. n
      /\ s \in StripRecord
  BY DEF IsStrip, StripRecord
<1>2. /\ t \in Seq(Tab) /\ Len(t) = n /\ RemoveAt(t, to) = RemoveAt(s.tabs, from)
      /\ \A j \in 1 .. n : t[j] = s.tabs[Before(from, to, j)]
  <2> DEFINE p == s.tabs
  <2>1. p \in Seq(Tab) /\ from \in 1 .. Len(p) /\ to \in 1 .. Len(p)
    BY <1>1
  <2> HIDE DEF p
  <2>2. LET q == InsertAt(RemoveAt(p, from), to, p[from])
        IN  /\ q \in Seq(Tab) /\ Len(q) = Len(p) /\ RemoveAt(q, to) = RemoveAt(p, from)
            /\ \A j \in 1 .. Len(p) : q[j] = p[Before(from, to, j)]
    BY <2>1, ReorderedTabs, ZenonT(30)
  <2> QED BY <2>2 DEF p
<1>3. b \in 1 .. n /\ Before(from, to, b) = a /\ Before(from, to, to) = from
  <2> HIDE DEF n, a
  <2>1. CASE a = from
    BY <1>1, <2>1 DEF Before
  <2>2. CASE a # from /\ from < a /\ to >= a
    <3>1. b = a - 1
      BY <2>2, <1>1
    <3> QED BY <1>1, <2>2, <3>1 DEF Before
  <2>3. CASE a # from /\ from > a /\ to <= a
    <3>1. b = a + 1
      BY <2>3, <1>1
    <3> QED BY <1>1, <2>3, <3>1 DEF Before
  <2>4. CASE a # from /\ ~(from < a /\ to >= a) /\ ~(from > a /\ to <= a)
    <3>1. b = a
      BY <2>4, <1>1
    <3> QED BY <1>1, <2>4, <3>1 DEF Before
  <2> QED BY <2>1, <2>2, <2>3, <2>4
<1>4. u = [s EXCEPT !.tabs = t, !.active = b]
  BY DEF Strip!Reordered, Strip!InsertAt, Strip!RemoveAt, InsertAt, RemoveAt
<1> HIDE DEF n, t, b, u
<1>5. u \in StripRecord /\ u.tabs = t /\ u.active = b
  <2>1. s \in [tabs : Seq(Tab), active : Nat, scroll : Int, window : Nat, name : Nat] /\ b \in Nat
    BY <1>1, <1>3 DEF StripRecord
  <2>2. t \in Seq(Tab)
    BY <1>2
  <2> QED BY <2>1, <2>2, <1>4 DEF StripRecord
<1>6. DOMAIN t = 1 .. n
  BY <1>2
<1>7. Apart(t)
  <2> SUFFICES ASSUME NEW i \in 1 .. n, NEW j \in 1 .. n, t[i].id = t[j].id PROVE i = j
    BY <1>6 DEF Apart
  <2>1. Before(from, to, i) \in 1 .. n /\ Before(from, to, j) \in 1 .. n
    BY <1>1, BeforeIs
  <2>2. s.tabs[Before(from, to, i)].id = s.tabs[Before(from, to, j)].id
    BY <1>2
  <2>3. Before(from, to, i) = Before(from, to, j)
    BY <1>1, <2>1, <2>2 DEF Apart, IsStrip
  <2> QED BY <1>1, <2>3, BeforeIs
<1>8. t[to] = s.tabs[from] /\ t[b] = s.tabs[a]
  BY <1>1, <1>2, <1>3
<1> QED BY <1>1, <1>2, <1>3, <1>5, <1>6, <1>7, <1>8 DEF IsStrip, u

LEMMA DropIs ==
  ASSUME NEW s, IsStrip(s), NEW x
  PROVE  Strip!DropAt(s, x) \in DOMAIN s.tabs
<1> DEFINE right == {i \in DOMAIN s.tabs : 2 * x < Strip!Start(s, i) + Strip!End(s, i)}
<1>1. DOMAIN s.tabs = 1 .. Len(s.tabs) /\ Len(s.tabs) \in Nat /\ s.active \in 1 .. Len(s.tabs)
  BY DEF IsStrip, StripRecord
<1>2. Strip!DropAt(s, x) = IF right = {} THEN Len(s.tabs) ELSE Min(right)
  BY DEF Strip!DropAt, Strip!Min, Min
<1>3. right \subseteq 1 .. Len(s.tabs)
  BY <1>1
<1> HIDE DEF right
<1>4. ASSUME right # {} PROVE Min(right) \in 1 .. Len(s.tabs)
  <2>1. right \in SUBSET Nat
    BY <1>3
  <2>2. \E i \in right : \A j \in right : i <= j
    BY <1>4, <2>1, Least
  <2>3. Min(right) \in right
    BY <2>2 DEF Min
  <2> QED BY <1>3, <2>3
<1>5. Len(s.tabs) \in 1 .. Len(s.tabs)
  BY <1>1
<1> QED BY <1>1, <1>2, <1>4, <1>5

-----------------------------------------------------------------------------
(* Each step of the strip.                                                 *)

LEMMA NothingHeld == Strip!Nothing \in Held /\ \A s : Holds(Strip!Nothing, s)
BY DEF Strip!Nothing, Held, Holds

LEMMA PressSound == StripSound /\ Strip!Press => StripSound'
<1> SUFFICES ASSUME StripSound, NEW x \in Places,
                    LET hit == Strip!Hit(strip, x)
                    IN  /\ strip' = CASE hit.part = "left"  -> Strip!LaidOut([strip EXCEPT !.scroll = Max({@ - 60, 0})])
                                      [] hit.part = "right" -> Strip!LaidOut([strip EXCEPT !.scroll = @ + 60])
                                      [] hit.part = "tab"   -> [strip EXCEPT !.active = hit.tab]
                                      [] OTHER -> strip
                        /\ held' = CASE hit.part \in ToSet(Strip!WindowButtons) -> [held EXCEPT !.button = hit.part]
                                     [] hit.part = "tab" ->
                                          [held EXCEPT !.tab = hit.tab, !.id = strip.tabs[hit.tab].id, !.from = x, !.active = FALSE]
                                     [] OTHER -> held
             PROVE  StripSound'
  BY DEF Strip!Press, Strip!Max, Max, Strip!ToSet, ToSet
<1> DEFINE hit == Strip!Hit(strip, x)
<1>1. x \in Int /\ IsStrip(strip) /\ held \in Held /\ Holds(held, strip) /\ StripTyped(strip) /\ strip.scroll \in Int
  BY StripAssumption, StripIsTyped DEF StripSound, IsStrip, StripRecord
<1>2. /\ hit.part = "tab" => hit.tab \in DOMAIN strip.tabs
      /\ hit.part \in ToSet(Strip!WindowButtons) => hit.part \in {"minimize", "maximize", "close-window"}
  BY <1>1, HitIs
<1>3. \A i \in DOMAIN strip.tabs : i \in Nat \ {0} /\ strip.tabs[i].id \in Nat
  <2>1. strip.tabs \in Seq(Tab)
    BY <1>1 DEF IsStrip, StripRecord
  <2>2. \A i \in DOMAIN strip.tabs : i \in Nat \ {0} /\ strip.tabs[i] \in Tab
    BY <2>1
  <2> QED BY <2>2 DEF Tab
<1>6. /\ hit.part = "left" => strip' = Strip!LaidOut([strip EXCEPT !.scroll = Max({@ - 60, 0})])
      /\ hit.part = "right" => strip' = Strip!LaidOut([strip EXCEPT !.scroll = @ + 60])
      /\ hit.part = "tab" => strip' = [strip EXCEPT !.active = hit.tab]
      /\ hit.part \notin {"left", "right", "tab"} => strip' = strip
  OBVIOUS
<1> HIDE DEF hit
<1>4. CASE hit.part = "tab"
  <2>1. strip' = [strip EXCEPT !.active = hit.tab]
    BY <1>4, <1>6
  <2>2. held' = [held EXCEPT !.tab = hit.tab, !.id = strip.tabs[hit.tab].id, !.from = x, !.active = FALSE]
    <3>1. hit.part \notin ToSet(Strip!WindowButtons)
      BY <1>2, <1>4
    <3> QED BY <1>4, <3>1 DEF hit
  <2>3. IsStrip(strip') /\ strip'.tabs = strip.tabs
    BY <1>1, <1>2, <1>4, <2>1, StripSet DEF IsStrip, StripRecord
  <2>4. held' \in Held /\ held'.tab = hit.tab /\ held'.id = strip.tabs[hit.tab].id /\ held'.active = FALSE
    BY <1>1, <1>2, <1>3, <1>4, <2>2 DEF Held
  <2> QED BY <1>2, <1>4, <2>3, <2>4 DEF StripSound, Holds
<1>5. CASE hit.part # "tab"
  <2>1. IsStrip(strip') /\ strip'.tabs = strip.tabs
    <3>1. CASE hit.part = "left"
      <4> DEFINE c == Max({strip.scroll - 60, 0})
                 u == [strip EXCEPT !.scroll = c]
      <4>1. c \in Int
        <5> DEFINE d == strip.scroll - 60
        <5>1. d \in Int
          BY <1>1
        <5> HIDE DEF d
        <5>2. Max({d, 0}) = IF d >= 0 THEN d ELSE 0
          BY <5>1, GreaterOf
        <5>3. Max({d, 0}) \in Int
          BY <5>1, <5>2
        <5> QED BY <5>3 DEF d
      <4>2. strip' = Strip!LaidOut(u)
        BY <1>6, <3>1
      <4> HIDE DEF c
      <4>3. IsStrip(u) /\ u.tabs = strip.tabs
        BY <1>1, <4>1, StripSet DEF IsStrip, StripRecord
      <4> HIDE DEF u
      <4> QED BY <4>2, <4>3, LaidOutIs
    <3>2. CASE hit.part = "right"
      <4> DEFINE c == strip.scroll + 60
                 u == [strip EXCEPT !.scroll = c]
      <4>1. c \in Int
        BY <1>1
      <4>2. strip' = Strip!LaidOut(u)
        BY <1>6, <3>2
      <4> HIDE DEF c
      <4>3. IsStrip(u) /\ u.tabs = strip.tabs
        BY <1>1, <4>1, StripSet DEF IsStrip, StripRecord
      <4> HIDE DEF u
      <4> QED BY <4>2, <4>3, LaidOutIs
    <3>3. CASE hit.part \notin {"left", "right"}
      <4>1. strip' = strip
        BY <1>5, <1>6, <3>3
      <4> QED BY <1>1, <4>1
    <3> QED BY <3>1, <3>2, <3>3
  <2>2. held' = held \/ (hit.part \in {"minimize", "maximize", "close-window"} /\ held' = [held EXCEPT !.button = hit.part])
    BY <1>2, <1>5 DEF hit
  <2>3. held' \in Held /\ held'.tab = held.tab /\ held'.id = held.id /\ held'.active = held.active
    BY <1>1, <2>2, ZenonT(30) DEF Held
  <2>4. Holds(held', strip')
    BY <1>1, <2>1, <2>3 DEF Holds
  <2> QED BY <2>1, <2>3, <2>4 DEF StripSound
<1> QED BY <1>4, <1>5

LEMMA MoveSound == StripSound /\ Strip!Move => StripSound'
<1> SUFFICES ASSUME StripSound, NEW x \in Places, held.tab # 0, strip' = strip,
                    held' = [held EXCEPT !.active = held.active \/ x - held.from > 5 \/ held.from - x > 5]
             PROVE  StripSound'
  BY DEF Strip!Move
<1> DEFINE dragged == held.active \/ x - held.from > 5 \/ held.from - x > 5
<1>1. dragged \in BOOLEAN /\ held' = [held EXCEPT !.active = dragged]
  OBVIOUS
<1> HIDE DEF dragged
<1>2. held' \in Held /\ held'.tab = held.tab /\ held'.id = held.id
  BY <1>1 DEF StripSound, Held
<1> QED BY <1>2 DEF StripSound, Holds

LEMMA ReleaseSound == StripSound /\ Strip!Release => StripSound'
<1> SUFFICES ASSUME StripSound, NEW x \in Places, NEW acts \in BOOLEAN,
                    held' = IF acts THEN [held EXCEPT !.button = "none"] ELSE Strip!Nothing,
                    strip' = IF ~acts /\ held.active /\ Strip!DropAt(strip, x) # held.tab
                               THEN Strip!LaidOut(Strip!Reordered(strip, held.tab, Strip!DropAt(strip, x))) ELSE strip
             PROVE  StripSound'
  BY DEF Strip!Release
<1>1. IsStrip(strip) /\ held \in Held /\ Holds(held, strip)
  BY DEF StripSound
<1>2. CASE acts
  <2>1. strip' = strip /\ held' = [held EXCEPT !.button = "none"]
    BY <1>2
  <2>2. held' \in Held /\ held'.tab = held.tab /\ held'.id = held.id /\ held'.active = held.active
    BY <1>1, <2>1 DEF Held
  <2> QED BY <1>1, <2>1, <2>2 DEF StripSound, Holds
<1>3. CASE ~acts
  <2>1. held' = Strip!Nothing
    BY <1>3
  <2>2. IsStrip(strip')
    <3>1. CASE held.active /\ Strip!DropAt(strip, x) # held.tab
      <4> DEFINE to == Strip!DropAt(strip, x)
                 u == Strip!Reordered(strip, held.tab, to)
      <4>1. held.tab \in DOMAIN strip.tabs /\ to \in DOMAIN strip.tabs
        BY <1>1, <3>1, DropIs DEF Holds
      <4> HIDE DEF to
      <4>2. IsStrip(u)
        BY <1>1, <4>1, ReorderedIs
      <4> HIDE DEF u
      <4>3. strip' = Strip!LaidOut(u)
        BY <1>3, <3>1 DEF u, to
      <4> QED BY <4>2, <4>3, LaidOutIs
    <3>2. CASE ~(held.active /\ Strip!DropAt(strip, x) # held.tab)
      BY <1>1, <3>2
    <3> QED BY <3>1, <3>2
  <2> QED BY <2>1, <2>2, NothingHeld DEF StripSound
<1> QED BY <1>2, <1>3

LEMMA StripsAre ==
  ASSUME NEW window \in Nat, NEW s \in Strip!Strips(window), s.active <= Len(s.tabs)
  PROVE  IsStrip(s)
<1>1. PICK n \in 1 .. MaxTabs, active \in 1 .. MaxTabs, label \in Labels, name \in Widths :
        s = [tabs |-> [i \in 1 .. n |-> [id |-> i, label |-> label]], active |-> active, scroll |-> 0,
             window |-> window, name |-> name]
  BY DEF Strip!Strips
<1> DEFINE tabs == [i \in 1 .. n |-> [id |-> i, label |-> label]]
<1>2. n \in Nat /\ active \in 1 .. MaxTabs /\ MaxTabs \in Nat /\ label \in Nat /\ name \in Nat
  BY StripAssumption, UiTabsAssumption
<1>3. \A i \in 1 .. n : [id |-> i, label |-> label] \in Tab
  BY <1>2 DEF Tab
<1>4. tabs \in Seq(Tab) /\ Len(tabs) = n /\ DOMAIN tabs = 1 .. n /\ \A i \in 1 .. n : tabs[i].id = i
  BY <1>2, <1>3
<1> HIDE DEF tabs
<1>5. s = [tabs |-> tabs, active |-> active, scroll |-> 0, window |-> window, name |-> name]
  BY <1>1 DEF tabs
<1>6. s \in StripRecord /\ s.tabs = tabs /\ s.active = active
  BY <1>2, <1>4, <1>5 DEF StripRecord
<1>7. Apart(tabs)
  BY <1>4 DEF Apart
<1> QED BY <1>2, <1>4, <1>6, <1>7 DEF IsStrip

LEMMA StripStarts == Strip!StripInit => StripSound
<1> SUFFICES ASSUME Strip!StripInit PROVE StripSound
  OBVIOUS
<1>1. PICK window \in Windows : strip \in Strip!Strips(window) /\ strip.active <= Len(strip.tabs)
  BY DEF Strip!StripInit
<1>2. IsStrip(strip)
  BY <1>1, StripsAre, StripAssumption
<1> QED BY <1>2, NothingHeld DEF Strip!StripInit, StripSound

LEMMA StripStepSound == StripSound /\ Strip!StripNext => StripSound'
<1> SUFFICES ASSUME StripSound, Strip!StripNext PROVE StripSound'
  OBVIOUS
<1>1. CASE Strip!Press
  BY <1>1, PressSound
<1>2. CASE Strip!Move
  BY <1>2, MoveSound
<1>3. CASE Strip!Release
  BY <1>3, ReleaseSound
<1>4. CASE Strip!Activate
  <2>1. PICK i \in DOMAIN strip.tabs : strip' = [strip EXCEPT !.active = i] /\ held' = held
    BY <1>4 DEF Strip!Activate
  <2>2. IsStrip(strip') /\ strip'.tabs = strip.tabs
    BY <2>1, StripSet DEF StripSound, IsStrip, StripRecord
  <2> QED BY <2>1, <2>2 DEF StripSound, Holds
<1>5. CASE Strip!Retitle
  <2>1. PICK i \in DOMAIN strip.tabs, label \in Labels :
          strip' = Strip!LaidOut([strip EXCEPT !.tabs[i].label = label]) /\ held' = held
    BY <1>5 DEF Strip!Retitle
  <2> DEFINE u == [strip EXCEPT !.tabs[i].label = label]
  <2>2. label \in Nat /\ IsStrip(strip)
    BY StripAssumption DEF StripSound
  <2>3. /\ IsStrip(u) /\ DOMAIN u.tabs = DOMAIN strip.tabs
        /\ \A j \in DOMAIN strip.tabs : u.tabs[j].id = strip.tabs[j].id
    BY <2>2, RetitledIs
  <2>4. strip' = Strip!LaidOut(u)
    BY <2>1
  <2> HIDE DEF u
  <2>5. IsStrip(strip') /\ strip'.tabs = u.tabs
    BY <2>3, <2>4, LaidOutIs
  <2> QED BY <2>1, <2>3, <2>5 DEF StripSound, Holds
<1>6. CASE Strip!Resize
  <2>1. PICK w \in Windows : strip' = Strip!LaidOut([strip EXCEPT !.window = w]) /\ held' = held
    BY <1>6 DEF Strip!Resize
  <2> DEFINE u == [strip EXCEPT !.window = w]
  <2>2. w \in Nat /\ IsStrip(strip)
    BY StripAssumption DEF StripSound
  <2>3. IsStrip(u) /\ u.tabs = strip.tabs
    BY <2>2, StripSet DEF IsStrip, StripRecord
  <2>4. strip' = Strip!LaidOut(u)
    BY <2>1
  <2> HIDE DEF u
  <2>5. IsStrip(strip') /\ strip'.tabs = u.tabs
    BY <2>3, <2>4, LaidOutIs
  <2> QED BY <2>1, <2>3, <2>5 DEF StripSound, Holds
<1>7. CASE Strip!Renew
  <2>1. strip.window \in Nat
    BY DEF StripSound, IsStrip, StripRecord
  <2>2. strip' \in Strip!Strips(strip.window) /\ strip'.active <= Len(strip'.tabs) /\ held' = Strip!Nothing
    BY <1>7 DEF Strip!Renew
  <2> DEFINE u == strip'
  <2>4. u \in Strip!Strips(strip.window) /\ u.active <= Len(u.tabs)
    BY <2>2
  <2> HIDE DEF u
  <2>3. IsStrip(u)
    BY <2>1, <2>4, StripsAre
  <2> QED BY <2>2, <2>3, NothingHeld DEF StripSound, u
<1> QED BY <1>1, <1>2, <1>3, <1>4, <1>5, <1>6, <1>7 DEF Strip!StripNext

(* A release moves the tab that is held.                                   *)
LEMMA ReleaseMovesHeld ==
  StripSound /\ Strip!Release /\ strip'.tabs # strip.tabs =>
    LET others(s) == RemoveAt(s.tabs, CHOOSE i \in DOMAIN s.tabs : s.tabs[i].id = held.id)
    IN  /\ others(strip') = others(strip)
        /\ strip'.tabs[strip'.active].id = strip.tabs[strip.active].id
<1> SUFFICES ASSUME StripSound, strip'.tabs # strip.tabs, NEW x \in Places, held.active,
                    strip' = Strip!LaidOut(Strip!Reordered(strip, held.tab, Strip!DropAt(strip, x)))
             PROVE  LET others(s) == RemoveAt(s.tabs, CHOOSE i \in DOMAIN s.tabs : s.tabs[i].id = held.id)
                    IN  /\ others(strip') = others(strip)
                        /\ strip'.tabs[strip'.active].id = strip.tabs[strip.active].id
  BY DEF Strip!Release
<1> DEFINE from == held.tab
           to == Strip!DropAt(strip, x)
           u == Strip!Reordered(strip, from, to)
           at(s) == CHOOSE i \in DOMAIN s.tabs : s.tabs[i].id = held.id
<1>1. IsStrip(strip) /\ from \in DOMAIN strip.tabs /\ to \in DOMAIN strip.tabs /\ strip.tabs[from].id = held.id
  BY DropIs DEF StripSound, Holds
<1> HIDE DEF from, to
<1>2. /\ IsStrip(u) /\ DOMAIN u.tabs = DOMAIN strip.tabs
      /\ u.tabs[to] = strip.tabs[from] /\ u.tabs[u.active] = strip.tabs[strip.active]
      /\ RemoveAt(u.tabs, to) = RemoveAt(strip.tabs, from)
  BY <1>1, ReorderedIs
<1> HIDE DEF u
<1>3. strip' = Strip!LaidOut(u)
  BY DEF u, from, to
<1>4. strip'.tabs = u.tabs /\ strip'.active = u.active
  BY <1>2, <1>3, LaidOutIs
<1>5. at(strip) = from
  <2>1. \A i \in DOMAIN strip.tabs : strip.tabs[i].id = held.id => i = from
    BY <1>1 DEF IsStrip, Apart
  <2> QED BY <1>1, <2>1
<1>6. at(u) = to
  <2>1. u.tabs[to].id = held.id
    BY <1>1, <1>2
  <2>2. \A i \in DOMAIN u.tabs : u.tabs[i].id = held.id => i = to
    BY <1>1, <1>2, <2>1 DEF IsStrip, Apart
  <2> QED BY <1>1, <1>2, <2>1, <2>2
<1>7. RemoveAt(strip'.tabs, at(strip')) = RemoveAt(strip.tabs, at(strip))
  BY <1>2, <1>4, <1>5, <1>6
<1>8. strip'.tabs[strip'.active].id = strip.tabs[strip.active].id
  BY <1>2, <1>4
<1> QED BY <1>7, <1>8

-----------------------------------------------------------------------------
(* The entry that is selected stays in view.                               *)

IsPalette(u) ==
  \E S : u \in [shown : S, mode : S, action : S, matches : Nat, selected : Nat, scroll : Nat]

InView(matches, selected, scroll) ==
  /\ IF matches = 0 THEN selected = 0 ELSE selected < matches
  /\ scroll <= selected /\ selected < scroll + MaxVisible
  /\ scroll = 0 \/ scroll + MaxVisible <= matches

PaletteSound(u) == IsPalette(u) /\ InView(u.matches, u.selected, u.scroll)

LEMMA RefilteredSound ==
  ASSUME NEW u, IsPalette(u), NEW n \in Nat
  PROVE  PaletteSound(Refiltered(u, n))
<1> DEFINE v == Refiltered(u, n)
<1>1. IsPalette(v) /\ v.matches = n /\ v.selected = 0 /\ v.scroll = 0
  BY DEF Refiltered, IsPalette
<1> HIDE DEF v
<1>2. InView(n, 0, 0)
  BY ActionsAssumption DEF InView
<1> QED BY <1>1, <1>2 DEF PaletteSound, v

LEMMA PaletteSet ==
  ASSUME NEW u, PaletteSound(u), NEW x, NEW y
  PROVE  /\ PaletteSound([u EXCEPT !.mode = x])
         /\ PaletteSound([u EXCEPT !.shown = x])
         /\ IsPalette([u EXCEPT !.mode = x, !.action = y])
<1>1. PICK S : u \in [shown : S, mode : S, action : S, matches : Nat, selected : Nat, scroll : Nat]
  BY DEF PaletteSound, IsPalette
<1> DEFINE T == S \cup {x, y}
           Like(v) == /\ v \in [shown : T, mode : T, action : T, matches : Nat, selected : Nat, scroll : Nat]
                      /\ v.matches = u.matches /\ v.selected = u.selected /\ v.scroll = u.scroll
<1>2. Like([u EXCEPT !.mode = x])
  BY <1>1
<1>3. Like([u EXCEPT !.shown = x])
  BY <1>1
<1>4. Like([u EXCEPT !.mode = x, !.action = y])
  BY <1>1
<1>5. \A v : Like(v) => PaletteSound(v)
  BY DEF PaletteSound, IsPalette
<1> QED BY <1>2, <1>3, <1>4, <1>5 DEF PaletteSound

LEMMA MovedSound ==
  ASSUME NEW u, PaletteSound(u), u.matches > 0, NEW back \in BOOLEAN, NEW places \in 1 .. 2
  PROVE  PaletteSound(Moved(u, back, places))
<1>1. PICK S : u \in [shown : S, mode : S, action : S, matches : Nat, selected : Nat, scroll : Nat]
  BY DEF PaletteSound, IsPalette
<1> DEFINE up == Max({u.selected - places, 0})
           down == Min({u.selected + places, u.matches - 1})
           to == IF back THEN up ELSE down
           v == [u EXCEPT !.selected = to]
<1>2. /\ u.matches \in Nat /\ u.selected \in Nat /\ u.scroll \in Nat /\ InView(u.matches, u.selected, u.scroll)
      /\ MaxVisible \in Nat \ {0} /\ places \in Nat
  BY <1>1, ActionsAssumption DEF PaletteSound
<1>3. up = IF u.selected - places >= 0 THEN u.selected - places ELSE 0
  <2> DEFINE d == u.selected - places
  <2>1. d \in Int
    BY <1>2
  <2> HIDE DEF d
  <2>2. Max({d, 0}) = IF d >= 0 THEN d ELSE 0
    BY <2>1, GreaterOf
  <2> QED BY <2>2 DEF d
<1>4. down = IF u.selected + places <= u.matches - 1 THEN u.selected + places ELSE u.matches - 1
  <2> DEFINE d == u.selected + places
             e == u.matches - 1
  <2>1. d \in Int /\ e \in Int
    BY <1>2
  <2> HIDE DEF d, e
  <2>2. Min({d, e}) = IF d <= e THEN d ELSE e
    BY <2>1, LesserOf
  <2> QED BY <2>2 DEF d, e
<1> HIDE DEF up, down
<1>5. to \in Nat /\ to < u.matches
  BY <1>2, <1>3, <1>4 DEF InView
<1>6. Moved(u, back, places) = EnsuredVisible(v)
  BY DEF Moved, up, down
<1> HIDE DEF to
<1>7. /\ v \in [shown : S, mode : S, action : S, matches : Nat, selected : Nat, scroll : Nat]
      /\ v.matches = u.matches /\ v.selected = to /\ v.scroll = u.scroll
  BY <1>1, <1>5
<1> HIDE DEF v
<1>8. ASSUME NEW c \in Nat, InView(u.matches, to, c) PROVE PaletteSound([v EXCEPT !.scroll = c])
  BY <1>7, <1>8 DEF PaletteSound, IsPalette
<1>9. CASE to < u.scroll
  <2>1. EnsuredVisible(v) = [v EXCEPT !.scroll = to]
    BY <1>7, <1>9 DEF EnsuredVisible
  <2>2. InView(u.matches, to, to)
    BY <1>2, <1>5, <1>9 DEF InView
  <2> QED BY <1>5, <1>6, <1>8, <2>1, <2>2
<1>10. CASE ~(to < u.scroll) /\ to >= u.scroll + MaxVisible
  <2> DEFINE c == to + 1 - MaxVisible
  <2>1. EnsuredVisible(v) = [v EXCEPT !.scroll = c]
    BY <1>7, <1>10 DEF EnsuredVisible
  <2>2. c \in Nat /\ InView(u.matches, to, c)
    BY <1>2, <1>5, <1>10 DEF InView
  <2> HIDE DEF c
  <2> QED BY <1>6, <1>8, <2>1, <2>2
<1>11. CASE ~(to < u.scroll) /\ ~(to >= u.scroll + MaxVisible)
  <2>1. EnsuredVisible(v) = v
    BY <1>7, <1>11 DEF EnsuredVisible
  <2>2. InView(u.matches, to, u.scroll)
    BY <1>2, <1>5, <1>11 DEF InView
  <2>3. PaletteSound(v)
    BY <1>7, <2>2 DEF PaletteSound, IsPalette
  <2> QED BY <1>6, <2>1, <2>3
<1> QED BY <1>9, <1>10, <1>11

LEMMA QuestionSound ==
  ASSUME NEW u, PaletteSound(u), NEW action
  PROVE  PaletteSound(Question(u, action)) /\ PaletteSound(Toggled(u)) /\ PaletteSound(Hidden(u))
<1>1. \A a : PaletteSound(Offered(u, a))
  <2>1. Cardinality(Profiles) \in Nat
    BY ActionsAssumption, FS_CardinalityType
  <2> QED BY <2>1, PaletteSet, RefilteredSound DEF Offered
<1>2. \A a : PaletteSound(Prompted(u, a))
  BY PaletteSet, RefilteredSound DEF Prompted
<1>3. PaletteSound(Hidden(u))
  BY PaletteSet DEF Hidden
<1>4. PaletteSound(Toggled(u))
  <2>1. IsPalette([u EXCEPT !.mode = "list"]) /\ Items \in Nat
    BY PaletteSet, ActionsAssumption DEF PaletteSound
  <2> QED BY <1>3, <2>1, RefilteredSound DEF Toggled
<1>5. \E a : Question(u, action) \in {Offered(u, a), Prompted(u, a)}
  BY DEF Question
<1>6. PaletteSound(Question(u, action))
  BY <1>1, <1>2, <1>5
<1> QED BY <1>3, <1>4, <1>6

LEMMA PerformSound ==
  ASSUME NEW u, PaletteSound(u), NEW action, NEW args, Perform(u, action, args)
  PROVE  PaletteSound(palette')
<1> DEFINE put == IF args.null /\ Asked(u, action) THEN Question(u, action) ELSE u
           v == IF action = "toggle-command-palette" THEN Toggled(u) ELSE put
<1>1. PICK s : palette' = [v EXCEPT !.shown = s.shown]
  BY DEF Perform
<1>2. PaletteSound(v)
  BY QuestionSound
<1> HIDE DEF v
<1> QED BY <1>1, <1>2, PaletteSet

LEMMA AskStarts == AskInit => PaletteSound(palette)
<1> SUFFICES ASSUME AskInit PROVE PaletteSound(palette)
  OBVIOUS
<1>1. PICK shown : palette = [shown |-> shown, mode |-> "closed", action |-> "none", matches |-> 0, selected |-> 0, scroll |-> 0]
  BY DEF AskInit
<1>2. palette \in [shown : {shown, "closed", "none"}, mode : {shown, "closed", "none"}, action : {shown, "closed", "none"},
                   matches : Nat, selected : Nat, scroll : Nat]
  BY <1>1
<1>3. InView(0, 0, 0)
  BY ActionsAssumption DEF InView
<1> QED BY <1>1, <1>2, <1>3 DEF PaletteSound, IsPalette

LEMMA AskStepSound == PaletteSound(palette) /\ AskNext => PaletteSound(palette')
<1> SUFFICES ASSUME PaletteSound(palette), AskNext PROVE PaletteSound(palette')
  OBVIOUS
<1> DEFINE hidden == Hidden(palette)
<1>1. PaletteSound(hidden)
  BY QuestionSound
<1>2. CASE PressBound
  BY <1>2, PerformSound DEF PressBound
<1> HIDE DEF hidden
<1>3. CASE ChooseEntry
  <2>1. PICK a : Perform(hidden, a, Null)
    BY <1>3 DEF ChooseEntry, hidden
  <2> QED BY <1>1, <2>1, PerformSound
<1>4. CASE AnswerPrompt
  <2>1. PICK args : Perform(hidden, palette.action, args)
    BY <1>4 DEF AnswerPrompt, hidden
  <2> QED BY <1>1, <2>1, PerformSound
<1>5. CASE PickProfile
  <2>1. PICK args : Perform(hidden, palette.action, args)
    BY <1>5 DEF PickProfile, hidden
  <2> QED BY <1>1, <2>1, PerformSound
<1>6. CASE Dismiss
  BY <1>1, <1>6 DEF Dismiss, Edit, hidden
<1>7. CASE TypeQuery
  <2>1. PICK n \in 0 .. Items : palette' = Refiltered(palette, n)
    BY <1>7 DEF TypeQuery, Edit
  <2>2. n \in Nat
    BY ActionsAssumption
  <2> QED BY <2>1, <2>2, RefilteredSound DEF PaletteSound
<1>8. CASE MoveSelection
  BY <1>8, MovedSound DEF MoveSelection, Edit
<1> QED BY <1>2, <1>3, <1>4, <1>5, <1>6, <1>7, <1>8 DEF AskNext

LEMMA SoundDrawn == PaletteSound(palette) => SelectionDrawn
<1> SUFFICES ASSUME PaletteSound(palette), palette.matches > 0
             PROVE  /\ palette.selected < palette.matches
                    /\ palette.scroll <= palette.selected /\ palette.selected < palette.scroll + MaxVisible
                    /\ palette.scroll + Min({MaxVisible, palette.matches}) <= palette.matches
  BY DEF SelectionDrawn
<1> DEFINE n == palette.matches
<1>1. /\ n \in Nat /\ palette.selected \in Nat /\ palette.scroll \in Nat /\ MaxVisible \in Nat
      /\ InView(n, palette.selected, palette.scroll)
  BY ActionsAssumption DEF PaletteSound, IsPalette
<1> HIDE DEF n
<1>2. Min({MaxVisible, n}) = IF MaxVisible <= n THEN MaxVisible ELSE n
  BY <1>1, LesserOf
<1>3. palette.scroll + Min({MaxVisible, n}) <= n
  BY <1>1, <1>2 DEF InView
<1>4. n > 0
  BY DEF n
<1> QED BY <1>1, <1>3, <1>4 DEF InView, n

-----------------------------------------------------------------------------
(* The two parts, and what is drawn of them.                               *)
DrawnInv == StripSound /\ (part = "actions" => PaletteSound(palette))

LEMMA StripSeen == StripSound => Strip!PressesSeen /\ Strip!TabsReachable
<1> SUFFICES ASSUME StripSound PROVE Strip!PressesSeen /\ Strip!TabsReachable
  OBVIOUS
<1>1. strip \in StripRecord /\ StripTyped(strip)
  BY StripIsTyped DEF StripSound, IsStrip
<1>2. Strip!PressesSeen
  BY <1>1, HitIsSeen, StripAssumption DEF Strip!PressesSeen
<1> QED BY <1>1, <1>2, ButtonsReached

(* The invariant that a strip keeps its tabs apart and holds one of them,  *)
(* and that a palette keeps what is selected in view.                      *)
THEOREM DrawnInvariant == TabsSpec => []DrawnInv
<1>1. TabsInit => DrawnInv
  BY StripStarts, AskStarts DEF TabsInit, DrawnInv
<1>2. DrawnInv /\ [TabsNext]_<<part, vars, askVars, drawn>> => DrawnInv'
  <2> SUFFICES ASSUME DrawnInv, [TabsNext]_<<part, vars, askVars, drawn>> PROVE DrawnInv'
    OBVIOUS
  <2>1. CASE UNCHANGED <<part, askVars, drawn>>
    BY <2>1 DEF DrawnInv, askVars, drawn, StripSound
  <2>2. CASE part = "actions" /\ AskNext /\ UNCHANGED <<part, drawn>>
    BY <2>2, AskStepSound DEF DrawnInv, drawn, StripSound
  <2>3. CASE part = "strip" /\ Strip!StripNext /\ UNCHANGED part
    BY <2>3, StripStepSound DEF DrawnInv
  <2> QED BY <2>1, <2>2, <2>3 DEF TabsNext
<1> QED BY <1>1, <1>2, PTL DEF TabsSpec

(* What is clicked or taken is what is drawn: on_mouse_down of the strip   *)
(* finds what paint put on top there, every close button and the + button  *)
(* come between the arrows, and the entry Enter takes of the palette is in *)
(* view.                                                                   *)
THEOREM HitAsDrawnHolds == TabsSpec => []HitAsDrawn
<1>1. DrawnInv => HitAsDrawn
  BY SoundDrawn, StripSeen DEF DrawnInv, HitAsDrawn
<1> QED BY <1>1, DrawnInvariant, PTL

(* A release in the strip (on_mouse_up and reorder) moves at most the tab  *)
(* that was pressed last; the others keep their order, and the active tab  *)
(* stays the same one.                                                     *)
THEOREM OneTabMovesHolds == TabsSpec => OneTabMoves
<1>1. DrawnInv /\ [TabsNext]_<<part, vars, askVars, drawn>> =>
        [Strip!Release /\ strip'.tabs # strip.tabs =>
           LET others(s) == RemoveAt(s.tabs, CHOOSE i \in DOMAIN s.tabs : s.tabs[i].id = held.id)
           IN  /\ others(strip') = others(strip)
               /\ strip'.tabs[strip'.active].id = strip.tabs[strip.active].id]_<<strip, held, moves>>
  BY ReleaseMovesHeld DEF DrawnInv
<1>2. OneTabMoves <=>
        [][Strip!Release /\ strip'.tabs # strip.tabs =>
             LET others(s) == RemoveAt(s.tabs, CHOOSE i \in DOMAIN s.tabs : s.tabs[i].id = held.id)
             IN  /\ others(strip') = others(strip)
                 /\ strip'.tabs[strip'.active].id = strip.tabs[strip.active].id]_<<strip, held, moves>>
  BY DEF OneTabMoves, Strip!OneTabMoves, Strip!RemoveAt, RemoveAt, Strip!stripVars
<1> QED BY <1>1, <1>2, DrawnInvariant, PTL DEF TabsSpec

-----------------------------------------------------------------------------
(* What is asked for is done.                                              *)

Fit(b) ==
  \/ b.action \in Runnable /\ b.args = Null
  \/ b.action = "goto-tab" /\ \E v : b.args = Object([index |-> Text(v)])

AllFit(map) == \A k \in DOMAIN map : Fit(map[k])

LEMMA ChordFits ==
  ASSUME NEW mods, NEW actions, \A k \in DOMAIN actions : actions[k] \in Runnable
  PROVE  AllFit(Chord(mods, actions))
BY DEF AllFit, Fit, Chord, Simple

LEMMA TogetherFits ==
  ASSUME NEW maps, \A f \in maps : AllFit(f)
  PROVE  AllFit(Together(maps))
<1> SUFFICES ASSUME NEW k \in UNION {DOMAIN f : f \in maps} PROVE Fit((CHOOSE f \in maps : k \in DOMAIN f)[k])
  BY DEF AllFit, Together
<1> DEFINE g == CHOOSE f \in maps : k \in DOMAIN f
<1>1. g \in maps /\ k \in DOMAIN g
  OBVIOUS
<1> HIDE DEF g
<1>2. Fit(g[k])
  BY <1>1 DEF AllFit
<1> QED BY <1>2 DEF g

LEMMA OverlaidFits ==
  ASSUME NEW base, NEW over, AllFit(base), \A k \in DOMAIN over : over[k] \in Bindable
  PROVE  AllFit(Overlaid(base, over))
<1>1. AllFit(GotoKeys)
  BY DEF AllFit, Fit, GotoKeys
<1>2. \A b \in Bindable : b = Removed \/ Fit(b)
  <2> SUFFICES ASSUME NEW b \in Bindable, b # Removed PROVE Fit(b)
    OBVIOUS
  <2>1. CASE b \in {Simple(a) : a \in Runnable \cup {"removed"}}
    BY <2>1 DEF Removed, Simple, Fit
  <2>2. CASE b \in {GotoKeys[spec] : spec \in DOMAIN GotoKeys}
    BY <1>1, <2>2 DEF AllFit
  <2> QED BY <2>1, <2>2 DEF Bindable
<1> QED BY <1>2 DEF AllFit, Overlaid

(* The presets name actions that can be run.                               *)
LEMMA PresetFits ==
  ASSUME NEW name
  PROVE  AllFit(Preset(name))
<1> DEFINE R == Runnable
<1>1. /\ {"new-tab", "close-pane", "toggle-command-palette", "copy", "paste", "select-all", "mark-mode", "find", "prev-tab",
          "next-tab", "split-right", "split-down", "find-next", "toggle-fullscreen"} \subseteq R
      /\ {"focus-pane-up", "focus-pane-down", "focus-pane-left", "focus-pane-right", "find-prev", "scrollback-page-up",
          "scrollback-page-down", "scrollback-top", "scrollback-bottom", "focus-next-pane", "zoom-pane", "close-workspace",
          "pass-through-next-key", "switch-selection-endpoint", "rename-pane", "enter-scrollback-mode"} \subseteq R
      /\ {"clear-buffer", "scrollback-line-up", "scrollback-line-down", "resize-pane-down", "resize-pane-up",
          "resize-pane-right", "resize-pane-left"} \subseteq R
  BY DEF Runnable, Registered, LifecycleActions, TabActions, PaneActions, FocusActions, SwapActions, TileActions, ResizeActions,
         SessionActions, SelectionActions, ScrollActions, UiActions
<1> HIDE DEF R
<1>2. \A mods, r : (\A k \in DOMAIN r : r[k] \in R) => AllFit(Chord(mods, r))
  BY ChordFits DEF R
<1>3. AllFit(TmuxKeys)
  <2>1. AllFit(Chord("Ctrl+Shift", [T |-> "new-tab", W |-> "close-pane", Space |-> "toggle-command-palette",
                                    C |-> "copy", V |-> "paste", A |-> "select-all", M |-> "mark-mode", F |-> "find",
                                    Tab |-> "prev-tab"]))
    <3> DEFINE r == [T |-> "new-tab", W |-> "close-pane", Space |-> "toggle-command-palette", C |-> "copy",
                     V |-> "paste", A |-> "select-all", M |-> "mark-mode", F |-> "find", Tab |-> "prev-tab"]
    <3>1. r \in [T : R, W : R, Space : R, C : R, V : R, A : R, M : R, F : R, Tab : R]
      BY <1>1
    <3>2. AllFit(Chord("Ctrl+Shift", r))
      <4> HIDE DEF r
      <4>1. \A k \in DOMAIN r : r[k] \in R
        BY <3>1
      <4> QED BY <4>1, <1>2
    <3> QED BY <3>2
  <2>2. AllFit(Chord("Ctrl", [Tab |-> "next-tab"]))
    <3> DEFINE r == [Tab |-> "next-tab"]
    <3>1. r \in [Tab : R]
      BY <1>1
    <3>2. AllFit(Chord("Ctrl", r))
      <4> HIDE DEF r
      <4>1. \A k \in DOMAIN r : r[k] \in R
        BY <3>1
      <4> QED BY <4>1, <1>2
    <3> QED BY <3>2
  <2>3. AllFit(Chord("Alt+Shift", [D |-> "split-right", Minus |-> "split-down"]))
    <3> DEFINE r == [D |-> "split-right", Minus |-> "split-down"]
    <3>1. r \in [D : R, Minus : R]
      BY <1>1
    <3>2. AllFit(Chord("Alt+Shift", r))
      <4> HIDE DEF r
      <4>1. \A k \in DOMAIN r : r[k] \in R
        BY <3>1
      <4> QED BY <4>1, <1>2
    <3> QED BY <3>2
  <2>4. AllFit(Chord("", [F3 |-> "find-next", F11 |-> "toggle-fullscreen"]))
    <3> DEFINE r == [F3 |-> "find-next", F11 |-> "toggle-fullscreen"]
    <3>1. r \in [F3 : R, F11 : R]
      BY <1>1
    <3>2. AllFit(Chord("", r))
      <4> HIDE DEF r
      <4>1. \A k \in DOMAIN r : r[k] \in R
        BY <3>1
      <4> QED BY <4>1, <1>2
    <3> QED BY <3>2
  <2> QED BY <2>1, <2>2, <2>3, <2>4, TogetherFits DEF TmuxKeys
<1>4. AllFit(TmuxChords)
  <2>1. AllFit(Chord("prefix", [Up |-> "focus-pane-up", Down |-> "focus-pane-down", Left |-> "focus-pane-left",
                                Right |-> "focus-pane-right", Space |-> "mark-mode", A |-> "select-all",
                                F3 |-> "find-next", F4 |-> "find-prev", PageUp |-> "scrollback-page-up",
                                PageDown |-> "scrollback-page-down", Home |-> "scrollback-top",
                                End |-> "scrollback-bottom", o |-> "focus-next-pane", c |-> "new-tab",
                                x |-> "close-pane", z |-> "zoom-pane", n |-> "next-tab", p |-> "prev-tab",
                                d |-> "close-workspace", k |-> "pass-through-next-key",
                                s |-> "switch-selection-endpoint", f |-> "find", percent |-> "split-right",
                                quote |-> "split-down", comma |-> "rename-pane", bracket |-> "enter-scrollback-mode"]))
    <3> DEFINE r == [Up |-> "focus-pane-up", Down |-> "focus-pane-down", Left |-> "focus-pane-left",
                     Right |-> "focus-pane-right", Space |-> "mark-mode", A |-> "select-all", F3 |-> "find-next",
                     F4 |-> "find-prev", PageUp |-> "scrollback-page-up", PageDown |-> "scrollback-page-down",
                     Home |-> "scrollback-top", End |-> "scrollback-bottom", o |-> "focus-next-pane", c |-> "new-tab",
                     x |-> "close-pane", z |-> "zoom-pane", n |-> "next-tab", p |-> "prev-tab",
                     d |-> "close-workspace", k |-> "pass-through-next-key", s |-> "switch-selection-endpoint",
                     f |-> "find", percent |-> "split-right", quote |-> "split-down", comma |-> "rename-pane",
                     bracket |-> "enter-scrollback-mode"]
    <3>1. r \in [Up : R, Down : R, Left : R, Right : R, Space : R, A : R, F3 : R, F4 : R, PageUp : R, PageDown : R,
                 Home : R, End : R, o : R, c : R, x : R, z : R, n : R, p : R, d : R, k : R, s : R, f : R, percent : R,
                 quote : R, comma : R, bracket : R]
      BY <1>1
    <3>2. AllFit(Chord("prefix", r))
      <4> HIDE DEF r
      <4>1. \A k \in DOMAIN r : r[k] \in R
        BY <3>1
      <4> QED BY <4>1, <1>2
    <3> QED BY <3>2
  <2> QED BY <2>1 DEF TmuxChords
<1>5. AllFit(WindowsTerminalKeys)
  <2>1. AllFit(Chord("Ctrl+Shift", [T |-> "new-tab", W |-> "close-pane", Tab |-> "prev-tab", C |-> "copy",
                                    V |-> "paste", A |-> "select-all", M |-> "mark-mode", F |-> "find",
                                    K |-> "clear-buffer", P |-> "toggle-command-palette", Up |-> "scrollback-line-up",
                                    Down |-> "scrollback-line-down", PageUp |-> "scrollback-page-up",
                                    PageDown |-> "scrollback-page-down", Home |-> "scrollback-top",
                                    End |-> "scrollback-bottom"]))
    <3> DEFINE r == [T |-> "new-tab", W |-> "close-pane", Tab |-> "prev-tab", C |-> "copy", V |-> "paste",
                     A |-> "select-all", M |-> "mark-mode", F |-> "find", K |-> "clear-buffer",
                     P |-> "toggle-command-palette", Up |-> "scrollback-line-up", Down |-> "scrollback-line-down",
                     PageUp |-> "scrollback-page-up", PageDown |-> "scrollback-page-down", Home |-> "scrollback-top",
                     End |-> "scrollback-bottom"]
    <3>1. r \in [T : R, W : R, Tab : R, C : R, V : R, A : R, M : R, F : R, K : R, P : R, Up : R, Down : R, PageUp : R,
                 PageDown : R, Home : R, End : R]
      BY <1>1
    <3>2. AllFit(Chord("Ctrl+Shift", r))
      <4> HIDE DEF r
      <4>1. \A k \in DOMAIN r : r[k] \in R
        BY <3>1
      <4> QED BY <4>1, <1>2
    <3> QED BY <3>2
  <2>2. AllFit(Chord("Ctrl", [Tab |-> "next-tab", Insert |-> "copy"]))
    <3> DEFINE r == [Tab |-> "next-tab", Insert |-> "copy"]
    <3>1. r \in [Tab : R, Insert : R]
      BY <1>1
    <3>2. AllFit(Chord("Ctrl", r))
      <4> HIDE DEF r
      <4>1. \A k \in DOMAIN r : r[k] \in R
        BY <3>1
      <4> QED BY <4>1, <1>2
    <3> QED BY <3>2
  <2>3. AllFit(Chord("Shift", [Insert |-> "paste"]))
    <3> DEFINE r == [Insert |-> "paste"]
    <3>1. r \in [Insert : R]
      BY <1>1
    <3>2. AllFit(Chord("Shift", r))
      <4> HIDE DEF r
      <4>1. \A k \in DOMAIN r : r[k] \in R
        BY <3>1
      <4> QED BY <4>1, <1>2
    <3> QED BY <3>2
  <2>4. AllFit(Chord("Alt", [Down |-> "focus-pane-down", Up |-> "focus-pane-up", Left |-> "focus-pane-left",
                             Right |-> "focus-pane-right"]))
    <3> DEFINE r == [Down |-> "focus-pane-down", Up |-> "focus-pane-up", Left |-> "focus-pane-left",
                     Right |-> "focus-pane-right"]
    <3>1. r \in [Down : R, Up : R, Left : R, Right : R]
      BY <1>1
    <3>2. AllFit(Chord("Alt", r))
      <4> HIDE DEF r
      <4>1. \A k \in DOMAIN r : r[k] \in R
        BY <3>1
      <4> QED BY <4>1, <1>2
    <3> QED BY <3>2
  <2>5. AllFit(Chord("Alt+Shift", [Plus |-> "split-right", Minus |-> "split-down", K |-> "pass-through-next-key",
                                   Down |-> "resize-pane-down", Up |-> "resize-pane-up",
                                   Right |-> "resize-pane-right", Left |-> "resize-pane-left"]))
    <3> DEFINE r == [Plus |-> "split-right", Minus |-> "split-down", K |-> "pass-through-next-key",
                     Down |-> "resize-pane-down", Up |-> "resize-pane-up", Right |-> "resize-pane-right",
                     Left |-> "resize-pane-left"]
    <3>1. r \in [Plus : R, Minus : R, K : R, Down : R, Up : R, Right : R, Left : R]
      BY <1>1
    <3>2. AllFit(Chord("Alt+Shift", r))
      <4> HIDE DEF r
      <4>1. \A k \in DOMAIN r : r[k] \in R
        BY <3>1
      <4> QED BY <4>1, <1>2
    <3> QED BY <3>2
  <2>6. AllFit(Chord("", [F3 |-> "find-next", F11 |-> "toggle-fullscreen"]))
    <3> DEFINE r == [F3 |-> "find-next", F11 |-> "toggle-fullscreen"]
    <3>1. r \in [F3 : R, F11 : R]
      BY <1>1
    <3>2. AllFit(Chord("", r))
      <4> HIDE DEF r
      <4>1. \A k \in DOMAIN r : r[k] \in R
        BY <3>1
      <4> QED BY <4>1, <1>2
    <3> QED BY <3>2
  <2>7. AllFit(GotoKeys)
    BY DEF AllFit, Fit, GotoKeys
  <2> QED BY <2>1, <2>2, <2>3, <2>4, <2>5, <2>6, <2>7, TogetherFits DEF WindowsTerminalKeys
<1>6. AllFit(Together({TmuxKeys, TmuxChords}))
  BY <1>3, <1>4, TogetherFits
<1>7. AllFit(<<>>)
  BY DEF AllFit
<1> QED BY <1>5, <1>6, <1>7 DEF Preset

(* The bindings a UI starts with.                                          *)
LEMMA BindingsFit ==
  ASSUME NEW def \in Given
  PROVE  AllFit(Effective(def))
BY BindingsAssumption, PresetFits, OverlaidFits DEF Effective

(* An action and the arguments it may come with: from a binding, an entry, *)
(* an answer, a choice.                                                    *)
Named == {"find", "rename-workspace", "rename-tab", "rename-pane", "save-default-workspace"}

Profiled == {"new-tab", "change-profile"}

Fitted(action, args) ==
  \/ action \in Runnable /\ args = Null
  \/ action = "goto-tab" /\ \E v : args = Object([index |-> Text(v)])
  \/ action \in Named /\ \E n : args = Object([name |-> Text(n)])
  \/ action \in Profiled /\ \E p : args = Object([profile |-> Text(p)])

(* What the host says to a request of an action is no surprise.            *)
Expected(action, verdict) == verdict = "ok" \/ action \in Undone \/ MayBe(action, verdict)

(* Neither is an answer: it is from the workspace shown, or to a request   *)
(* that names no pane.                                                     *)
Met(action, a) ==
  \/ a.here /\ Expected(action, a.verdict)
  \/ ~a.here /\ action \in TabRequests

Plain == Runnable \ (LocalActions \cup Named \cup Profiled \cup {"goto-tab", "close-tab"})

LEMMA PlainValid ==
  ASSUME NEW action \in Plain
  PROVE  Valid(action, Null) \/ action \in Undone
<1>1. action \in Registered
  BY DEF Plain, Runnable, LocalActions
<1>2. CASE action \in {"open-workspace", "focus-pane"}
  BY <1>2 DEF Undone
<1>3. CASE action \notin {"open-workspace", "focus-pane"}
  <2>1. \A a \in DOMAIN ArgsOf(action) : ~ArgsOf(action)[a].required
    BY <1>3 DEF ArgsOf, Arg, Plain, Named, Profiled, ResizeActions
  <2> QED BY <1>1, <2>1 DEF Valid, Null
<1> QED BY <1>2, <1>3

LEMMA PlainDone ==
  ASSUME NEW action \in Plain
  PROVE  action \in Implemented \cup {"next-tab", "prev-tab", "save-workspace"} \cup Undone
BY DEF Plain, Runnable, LocalActions, Named, Profiled, Undone, Implemented, Registered, LifecycleActions, TabActions,
       PaneActions, FocusActions, SwapActions, TileActions, ResizeActions, SessionActions, SelectionActions,
       ScrollActions, UiActions

LEMMA PlainExpected ==
  ASSUME NEW action \in Plain, NEW open, NEW w, NEW pane, NEW fails
  PROVE  Expected(action, Verdict(open, [action |-> action, args |-> Null, pane |-> pane], w, fails))
<1>1. action \notin {"rename-workspace", "new-tab", "goto-tab", "rename-tab", "change-profile", "close-tab"}
  BY DEF Plain, Named, Profiled
<1>2. {"next-tab", "prev-tab"} \cap OnSession = {}
  BY DEF OnSession
<1> QED BY <1>1, <1>2, PlainValid, PlainDone DEF Verdict, Expected, MayBe

LEMMA RenamesExpected ==
  ASSUME NEW open, NEW w, NEW pane, NEW n, NEW fails, NEW action \in {"rename-workspace", "rename-tab", "rename-pane"}
  PROVE  Expected(action, Verdict(open, [action |-> action, args |-> Object([name |-> Text(n)]), pane |-> pane], w, fails))
<1>1. ASSUME action # "rename-tab" PROVE Valid(action, Object([name |-> Text(n)]))
  <2> DEFINE args == Object([name |-> Text(n)])
  <2>1. ArgsOf(action) = [name |-> Arg("string", TRUE)]
    BY <1>1 DEF ArgsOf, ResizeActions
  <2>2. DOMAIN args.of = {"name"} /\ args.of["name"].type = "string"
    BY DEF Object, Text
  <2>3. DOMAIN ArgsOf(action) = {"name"} /\ ArgsOf(action)["name"].type = "string"
    BY <2>1 DEF Arg
  <2>4. action \in Registered
    BY <1>1 DEF Registered, LifecycleActions, PaneActions
  <2> HIDE DEF args
  <2> QED BY <2>2, <2>3, <2>4 DEF Valid, args
<1>2. "rename-pane" \in Implemented
  BY DEF Implemented, PaneActions
<1>3. "rename-pane" \notin OnSession
  BY DEF OnSession
<1> QED BY <1>1, <1>2, <1>3 DEF Verdict, Expected, MayBe, Object, Text

LEMMA ProfiledExpected ==
  ASSUME NEW open, NEW w, NEW pane, NEW n, NEW fails, NEW action \in Profiled
  PROVE  Expected(action, Verdict(open, [action |-> action, args |-> Object([profile |-> Text(n)]), pane |-> pane], w, fails))
BY DEF Verdict, Expected, Profiled, Object, Text

(* What may be, one request after S.                                       *)
OneLater(S, m) == UNION {{Answered(s, m, w, fails) : w \in Addressed(s, m), fails \in BOOLEAN} : s \in S}

Begun(shown) == [open |-> workspaces, shown |-> shown, answers |-> <<>>]

AnsweredBy(f, shown, requests, k) ==
  f = [n \in 0 .. k |-> IF n = 0 THEN {Begun(shown)} ELSE OneLater(f[n - 1], requests[n])]

LEMMA AnswersAre ==
  ASSUME NEW shown, NEW requests, Len(requests) \in 0 .. 2
  PROVE  LET first == {Begun(shown)}
         IN  /\ Len(requests) = 0 => Answers(shown, requests) = first
             /\ Len(requests) = 1 => Answers(shown, requests) = OneLater(first, requests[1])
             /\ Len(requests) = 2 => Answers(shown, requests) = OneLater(OneLater(first, requests[1]), requests[2])
<1> DEFINE first == {Begun(shown)}
           k == Len(requests)
           f == [n \in 0 .. k |-> IF n = 0 THEN first
                                  ELSE IF n = 1 THEN OneLater(first, requests[1])
                                  ELSE OneLater(OneLater(first, requests[1]), requests[2])]
           g == CHOOSE x : AnsweredBy(x, shown, requests, k)
<1>1. Answers(shown, requests) = g[k]
  BY DEF Answers, AnsweredBy, OneLater, Begun
<1> HIDE DEF first, k
<1>2. k \in 0 .. 2
  BY DEF k
<1>3. AnsweredBy(f, shown, requests, k)
  <2>1. ASSUME NEW n \in 0 .. k PROVE f[n] = IF n = 0 THEN first ELSE OneLater(f[n - 1], requests[n])
    <3>1. CASE n = 0
      BY <3>1
    <3>2. CASE n = 1
      <4>1. 0 \in 0 .. k /\ n - 1 = 0
        BY <3>2, <1>2
      <4> QED BY <3>2, <4>1
    <3>3. CASE n = 2
      <4>1. 1 \in 0 .. k /\ n - 1 = 1
        BY <3>3, <1>2
      <4> QED BY <3>3, <4>1
    <3> QED BY <3>1, <3>2, <3>3, <1>2
  <2>2. f = [n \in 0 .. k |-> IF n = 0 THEN first ELSE OneLater(f[n - 1], requests[n])]
    <3> DEFINE h(n) == IF n = 0 THEN first ELSE OneLater(f[n - 1], requests[n])
               v(n) == IF n = 0 THEN first
                                  ELSE IF n = 1 THEN OneLater(first, requests[1])
                                  ELSE OneLater(OneLater(first, requests[1]), requests[2])
    <3>1. \A n \in 0 .. k : v(n) = h(n)
      BY <2>1
    <3>2. f = [n \in 0 .. k |-> v(n)]
      OBVIOUS
    <3> HIDE DEF h, v
    <3>3. [n \in 0 .. k |-> v(n)] = [n \in 0 .. k |-> h(n)]
      BY <3>1
    <3> QED BY <3>2, <3>3 DEF h
  <2> QED BY <2>2 DEF AnsweredBy, first
<1> HIDE DEF f
<1>4. AnsweredBy(g, shown, requests, k)
  BY <1>3
<1> HIDE DEF g
<1>5. \A n \in 0 .. k : g[n] = IF n = 0 THEN first ELSE OneLater(g[n - 1], requests[n])
  BY <1>4 DEF AnsweredBy, first
<1>6. /\ g[0] = first
      /\ k \in {1, 2} => g[1] = OneLater(first, requests[1])
      /\ k = 2 => g[2] = OneLater(g[1], requests[2])
  BY <1>5, <1>2
<1>7. /\ k = 0 => Answers(shown, requests) = first
      /\ k = 1 => Answers(shown, requests) = OneLater(first, requests[1])
      /\ k = 2 => Answers(shown, requests) = OneLater(OneLater(first, requests[1]), requests[2])
  BY <1>1, <1>6
<1> QED BY <1>7 DEF k, first

LEMMA AnswersOfNone ==
  ASSUME NEW shown
  PROVE  Answers(shown, <<>>) = {Begun(shown)}
<1> DEFINE q == <<>>
           B == {Begun(shown)}
<1>1. Len(q) = 0
  OBVIOUS
<1> HIDE DEF q
<1>2. ASSUME NEW p, Len(p) \in 0 .. 2 PROVE Len(p) = 0 => Answers(shown, p) = B
  BY <1>2, AnswersAre
<1> HIDE DEF B
<1>3. Answers(shown, q) = B
  BY <1>1, <1>2
<1> QED BY <1>3 DEF q, B

(* The workspace shown is open.                                            *)
Sane(s) == s.shown \in DOMAIN s.open /\ \A w \in DOMAIN s.open : s.open[w] \in Nat

LEMMA SaneAnswered ==
  ASSUME NEW s, Sane(s), NEW m, NEW w \in Addressed(s, m), NEW fails
  PROVE  Sane(Answered(s, m, w, fails))
<1> DEFINE t == Answered(s, m, w, fails)
           verdict == Verdict(s.open, m, w, fails)
           ok == verdict = "ok"
<1>1. w \in DOMAIN s.open
  BY DEF Addressed, Sane
<1>2. t.open = IF ok THEN Effect(s.open, m, w) ELSE s.open
  BY DEF Answered
<1>3. t.shown = IF ok /\ m.action = "rename-workspace" THEN m.args.of.name.v ELSE s.shown
  BY DEF Answered
<1>5. ok /\ m.action = "close-tab" => s.open[w] > 1
  BY DEF Verdict
<1> HIDE DEF t, verdict
<1> SUFFICES Sane(t)
  BY DEF t
<1>6. CASE ~ok
  BY <1>2, <1>3, <1>6 DEF Sane
<1>7. CASE ok /\ m.action = "rename-workspace"
  <2> DEFINE new == m.args.of.name.v
  <2>1. t.open = Renamed(s.open, w, new) /\ t.shown = new
    BY <1>2, <1>3, <1>7 DEF Effect
  <2> HIDE DEF new
  <2> QED BY <1>1, <2>1 DEF Renamed, Sane
<1>8. CASE ok /\ m.action # "rename-workspace"
  <2> DEFINE o == Effect(s.open, m, w)
  <2>1. DOMAIN o = DOMAIN s.open
    BY <1>8 DEF Effect
  <2>2. ASSUME NEW x \in DOMAIN s.open PROVE o[x] \in Nat
    BY <1>1, <1>5, <1>8 DEF Effect, Sane
  <2> HIDE DEF o
  <2>3. t.open = o /\ t.shown = s.shown
    BY <1>2, <1>3, <1>8 DEF o
  <2> QED BY <2>1, <2>2, <2>3 DEF Sane
<1> QED BY <1>6, <1>7, <1>8

RenameTo(n) == [action |-> "rename-workspace", args |-> Object([name |-> Text(n)]), pane |-> FALSE]

SaveIt == [action |-> "save-workspace", args |-> Object(<<>>), pane |-> FALSE]

LEMMA SaveExpected ==
  ASSUME NEW open, NEW w, NEW fails
  PROVE  Verdict(open, SaveIt, w, fails) \in {"ok", "failed"}
<1>1. Valid("save-workspace", Object(<<>>))
  BY DEF Valid, Object, ArgsOf, Arg, Registered, LifecycleActions
<1> QED BY <1>1 DEF Verdict, SaveIt

LEMMA TwoJoined ==
  ASSUME NEW a, NEW b
  PROVE  <<a>> \o <<b>> = <<a, b>>
<1> DEFINE S == {a, b}
           s == <<a>>
           t == <<b>>
           d == <<a, b>>
           r == s \o t
<1>1. /\ s \in Seq(S) /\ t \in Seq(S) /\ Len(s) = 1 /\ Len(t) = 1 /\ s[1] = a /\ t[1] = b
      /\ d \in Seq(S) /\ Len(d) = 2 /\ d[1] = a /\ d[2] = b
  OBVIOUS
<1> HIDE DEF S, s, t, d
<1>2. /\ r \in Seq(S) /\ Len(r) = Len(s) + Len(t)
      /\ \A i \in 1 .. Len(s) + Len(t) : r[i] = IF i <= Len(s) THEN s[i] ELSE t[i - Len(s)]
  BY <1>1, ConcatProperties
<1> HIDE DEF r
<1>3. Len(r) = 2 /\ r[1] = a /\ r[2] = b
  BY <1>1, <1>2
<1>4. r = d
  BY <1>1, <1>2, <1>3
<1> QED BY <1>4 DEF r, s, t, d

LEMMA RequestsExpected ==
  ASSUME NEW u, u.shown \in DOMAIN workspaces, NEW action, NEW args, Fitted(action, args),
         ~(args.null /\ Asked(u, action))
  PROVE  LET requests == Requests(u, action, args)
         IN  \/ requests = <<>>
             \/ \E m : /\ requests = <<m>> /\ (m.pane \/ action \in TabRequests)
                      /\ \A fails : Expected(action, Verdict(workspaces, m, u.shown, fails))
             \/ action = "save-default-workspace" /\ \E n : requests = <<RenameTo(n), SaveIt>>
<1> DEFINE requests == Requests(u, action, args)
           w == u.shown
           m(b, a, pane) == [action |-> b, args |-> a, pane |-> pane]
           Good == \E x : /\ requests = <<x>> /\ (x.pane \/ action \in TabRequests)
                          /\ \A fails : Expected(action, Verdict(workspaces, x, w, fails))
<1>0. {"goto-tab", "close-tab", "save-default-workspace"} \cap LocalActions = {}
  BY DEF LocalActions, PaneListActions, ScrollActions, SelectionActions
<1>1. CASE action = "goto-tab"
  <2> DEFINE a == Object([index |-> [type |-> "int", v |-> IndexOf(args)]])
  <2>1. requests = <<>> \/ (requests = <<m(action, a, FALSE)>> /\ IndexOf(args) < workspaces[w])
    BY <1>0, <1>1 DEF Requests, Sending
  <2>2. IndexOf(args) < workspaces[w] => \A fails : Verdict(workspaces, m(action, a, FALSE), w, fails) = "ok"
    BY <1>1 DEF Verdict, Object
  <2>3. action \in TabRequests
    BY <1>1 DEF TabRequests
  <2> HIDE DEF a, m, requests
  <2> QED BY <2>1, <2>2, <2>3 DEF Expected, requests
<1>2. CASE action = "close-tab"
  <2>1. requests = <<>> \/ (requests = <<m(action, Object(<<>>), FALSE)>> /\ workspaces[w] > 1)
    BY <1>0, <1>2 DEF Requests, Sending
  <2>2. workspaces[w] > 1 => \A fails : Verdict(workspaces, m(action, Object(<<>>), FALSE), w, fails) = "ok"
    BY <1>2 DEF Verdict
  <2>3. action \in TabRequests
    BY <1>2 DEF TabRequests
  <2> HIDE DEF m, requests
  <2> QED BY <2>1, <2>2, <2>3 DEF Expected, requests
<1>3. CASE action \in LocalActions
  <2>1. action \notin {"goto-tab", "close-tab", "save-default-workspace"}
    BY <1>3 DEF LocalActions, PaneListActions, ScrollActions, SelectionActions
  <2> QED BY <1>3, <2>1 DEF Requests
<1>4. ASSUME action \notin LocalActions, action \notin {"goto-tab", "close-tab", "save-default-workspace"}
      PROVE  \E pane : requests = <<m(action, args, pane)>> /\ m(action, args, pane).pane = pane
                        /\ (pane \/ action \in TabRequests)
  <2>1. requests = <<m(action, args, action \notin TabRequests)>>
    BY <1>4 DEF Requests, Sending
  <2>2. \A b, a, pane : m(b, a, pane).pane = pane
    OBVIOUS
  <2> HIDE DEF m, requests
  <2> QED BY <2>1, <2>2
<1>5. CASE action = "save-default-workspace"
  <2>1. action \notin Runnable
    BY <1>5 DEF Runnable, Registered, LifecycleActions, TabActions, PaneActions, FocusActions, SwapActions, TileActions,
                ResizeActions, SessionActions, SelectionActions, ScrollActions, UiActions, PaneListActions
  <2>2. PICK n : args = Object([name |-> Text(n)])
    BY <1>5, <2>1 DEF Fitted, Profiled
  <2>3. requests = <<m("rename-workspace", args, FALSE)>> \o <<m("save-workspace", Object(<<>>), FALSE)>>
    BY <1>0, <1>5 DEF Requests, Sending
  <2>4. requests = <<RenameTo(n), SaveIt>>
    <3> DEFINE a == m("rename-workspace", args, FALSE)
               b == m("save-workspace", Object(<<>>), FALSE)
    <3>1. a = RenameTo(n) /\ b = SaveIt
      BY <2>2 DEF RenameTo, SaveIt
    <3> HIDE DEF a, b
    <3>2. <<a>> \o <<b>> = <<a, b>>
      BY TwoJoined
    <3>3. requests = <<a>> \o <<b>>
      BY <2>3 DEF a, b
    <3> QED BY <3>1, <3>2, <3>3
  <2> QED BY <1>5, <2>4
<1>6. CASE action \in Plain
  <2>1. args = Null
    BY <1>6 DEF Fitted, Plain
  <2>2. PICK pane : requests = <<m(action, args, pane)>> /\ m(action, args, pane).pane = pane /\ (pane \/ action \in TabRequests)
    BY <1>4, <1>6 DEF Plain, Named
  <2>3. \A fails : Expected(action, Verdict(workspaces, m(action, Null, pane), w, fails))
    BY <1>6, PlainExpected
  <2> HIDE DEF requests, m, w
  <2>4. Good
    BY <2>1, <2>2, <2>3
  <2> QED BY <2>4 DEF requests, w
<1>7. ASSUME action \in {"rename-workspace", "rename-tab", "rename-pane"} \cup Profiled PROVE Good
  <2>1. args # Null
    BY <1>7 DEF Asked, Null, Profiled
  <2>2. action \notin LocalActions /\ action \notin {"goto-tab", "close-tab", "save-default-workspace"}
    BY <1>7 DEF LocalActions, PaneListActions, ScrollActions, SelectionActions, Profiled
  <2>3. PICK pane : requests = <<m(action, args, pane)>> /\ m(action, args, pane).pane = pane /\ (pane \/ action \in TabRequests)
    BY <1>4, <2>2
  <2>4. \E n : args = (IF action \in Profiled THEN Object([profile |-> Text(n)]) ELSE Object([name |-> Text(n)]))
    BY <1>7, <2>1, <2>2 DEF Fitted, Named, Profiled
  <2>5. ASSUME NEW fails PROVE Expected(action, Verdict(workspaces, m(action, args, pane), w, fails))
    <3>1. CASE action \in Profiled
      <4>1. PICK n : args = Object([profile |-> Text(n)])
        BY <2>4, <3>1
      <4> HIDE DEF w
      <4>2. Expected(action, Verdict(workspaces, m(action, Object([profile |-> Text(n)]), pane), w, fails))
        BY <3>1, ProfiledExpected
      <4> QED BY <4>1, <4>2
    <3>2. CASE action \notin Profiled
      <4>1. PICK n : args = Object([name |-> Text(n)])
        BY <2>4, <3>2
      <4> HIDE DEF w
      <4>2. Expected(action, Verdict(workspaces, m(action, Object([name |-> Text(n)]), pane), w, fails))
        BY <1>7, <3>2, RenamesExpected
      <4> QED BY <4>1, <4>2
    <3> QED BY <3>1, <3>2
  <2> HIDE DEF requests, m, w
  <2> QED BY <2>3, <2>5
<1>8. action \in Plain \cup LocalActions \cup Named \cup Profiled \cup {"goto-tab", "close-tab"}
  BY DEF Fitted, Plain
<1>9. "find" \in LocalActions
  BY DEF LocalActions, SelectionActions
<1> HIDE DEF m, requests, w
<1>10. CASE action \in Named
  BY <1>3, <1>5, <1>7, <1>9, <1>10 DEF Named, requests, w
<1> QED BY <1>1, <1>2, <1>3, <1>6, <1>7, <1>8, <1>10 DEF requests, w

LEMMA Appended ==
  ASSUME NEW a, NEW b
  PROVE  Append(<<a>>, b) = <<a, b>>
<1> DEFINE S == {a, b}
           s == <<a>>
           d == <<a, b>>
<1>1. s \in Seq(S) /\ Len(s) = 1 /\ s[1] = a /\ d \in Seq(S) /\ Len(d) = 2 /\ d[1] = a /\ d[2] = b /\ b \in S
  OBVIOUS
<1> HIDE DEF S, s, d
<1>2. Append(s, b) \in Seq(S) /\ Len(Append(s, b)) = 2 /\ Append(s, b)[1] = a /\ Append(s, b)[2] = b
  <2>1. Append(s, b) \in Seq(S) /\ Len(Append(s, b)) = Len(s) + 1 /\ Append(s, b)[Len(s) + 1] = b
    BY <1>1, AppendProperties
  <2>2. \A i \in 1 .. Len(s) : Append(s, b)[i] = s[i]
    BY <1>1, AppendProperties
  <2> QED BY <1>1, <2>1, <2>2
<1> DEFINE r == Append(s, b)
<1> HIDE DEF r
<1>3. r = d
  BY <1>1, <1>2 DEF r
<1> QED BY <1>3 DEF r, s, d

(* What the host says to the requests of an action is no surprise.         *)
LEMMA OnceAnswered ==
  ASSUME NEW s, Sane(s), NEW m, NEW t \in OneLater({s}, m)
  PROVE  /\ Sane(t)
         /\ \E verdict, here :
              /\ t.answers = Append(s.answers, [verdict |-> verdict, here |-> here])
              /\ here => \E fails : verdict = Verdict(s.open, m, s.shown, fails)
              /\ m.pane => here
              /\ here \in BOOLEAN
<1>1. PICK w \in Addressed(s, m), fails \in BOOLEAN : t = Answered(s, m, w, fails)
  BY DEF OneLater
<1>2. Sane(t)
  BY <1>1, SaneAnswered
<1> DEFINE verdict == Verdict(s.open, m, w, fails)
           here == w = s.shown
<1>3. t.answers = Append(s.answers, [verdict |-> verdict, here |-> here])
  BY <1>1 DEF Answered
<1>4. m.pane => here
  BY DEF Addressed
<1>5. here => verdict = Verdict(s.open, m, s.shown, fails)
  OBVIOUS
<1>6. here \in BOOLEAN
  OBVIOUS
<1> HIDE DEF verdict, here
<1> QED BY <1>2, <1>3, <1>4, <1>5, <1>6

LEMMA OnceMet ==
  ASSUME NEW action, NEW verdict, NEW here \in BOOLEAN, here => Expected(action, verdict), here \/ action \in TabRequests
  PROVE  Met(action, [verdict |-> verdict, here |-> here])
BY DEF Met

LEMMA AnswersExpected ==
  ASSUME NEW u, Sane(Begun(u.shown)), NEW action, NEW args, Fitted(action, args),
         ~(args.null /\ Asked(u, action)), NEW s \in Answers(u.shown, Requests(u, action, args))
  PROVE  Sane(s) /\ \A i \in DOMAIN s.answers : Met(action, s.answers[i])
<1> DEFINE b == Begun(u.shown)
           requests == Requests(u, action, args)
<1>1. Sane(b) /\ b.open = workspaces /\ b.shown = u.shown /\ b.answers = <<>>
  BY DEF Begun
<1>2. u.shown \in DOMAIN workspaces
  BY <1>1 DEF Sane
<1> HIDE DEF b
<1> DEFINE B == {b}
<1>9. \A q : /\ Len(q) = 0 => Answers(u.shown, q) = B
             /\ Len(q) = 1 => Answers(u.shown, q) = OneLater(B, q[1])
             /\ Len(q) = 2 => Answers(u.shown, q) = OneLater(OneLater(B, q[1]), q[2])
  <2>1. ASSUME NEW q, Len(q) \in 0 .. 2
        PROVE  /\ Len(q) = 0 => Answers(u.shown, q) = B
               /\ Len(q) = 1 => Answers(u.shown, q) = OneLater(B, q[1])
               /\ Len(q) = 2 => Answers(u.shown, q) = OneLater(OneLater(B, q[1]), q[2])
    BY <2>1, AnswersAre DEF b
  <2> HIDE DEF B
  <2> QED BY <2>1
<1> HIDE DEF B
<1>4. CASE requests = <<>>
  <2>1. Answers(u.shown, <<>>) = {b}
    BY AnswersOfNone DEF b
  <2>2. s = b
    BY <1>4, <2>1
  <2> QED BY <1>1, <2>2
<1>5. ASSUME NEW m, requests = <<m>>, m.pane \/ action \in TabRequests,
             \A fails : Expected(action, Verdict(workspaces, m, u.shown, fails))
      PROVE  Sane(s) /\ \A i \in DOMAIN s.answers : Met(action, s.answers[i])
  <2>1. Answers(u.shown, <<m>>) = OneLater({b}, m)
    <3> DEFINE q == <<m>>
    <3>1. Len(q) = 1 /\ q[1] = m
      OBVIOUS
    <3> HIDE DEF q
    <3>2. Answers(u.shown, q) = OneLater(B, m)
      BY <3>1, <1>9
    <3> QED BY <3>2 DEF q, B
  <2>2. s \in OneLater({b}, m)
    BY <1>5, <2>1
  <2>3. PICK verdict, here :
          /\ s.answers = Append(b.answers, [verdict |-> verdict, here |-> here])
          /\ here => \E fails : verdict = Verdict(b.open, m, b.shown, fails)
          /\ m.pane => here
          /\ here \in BOOLEAN
    BY <1>1, <2>2, OnceAnswered
  <2> DEFINE e == [verdict |-> verdict, here |-> here]
  <2>4. Met(action, e)
    BY <1>1, <1>5, <2>3, OnceMet
  <2>5. s.answers = Append(<<>>, e)
    BY <1>1, <2>3
  <2> HIDE DEF e
  <2>6. \A i \in DOMAIN Append(<<>>, e) : Append(<<>>, e)[i] = e
    OBVIOUS
  <2>7. Sane(s)
    BY <1>1, <2>2, OnceAnswered
  <2> QED BY <2>4, <2>5, <2>6, <2>7
<1>6. ASSUME action = "save-default-workspace", NEW n, requests = <<RenameTo(n), SaveIt>>
      PROVE  Sane(s) /\ \A i \in DOMAIN s.answers : Met(action, s.answers[i])
  <2> DEFINE m == RenameTo(n)
             k == SaveIt
  <2>1. \A fails : Expected(action, Verdict(b.open, m, b.shown, fails))
    <3>1. ASSUME NEW fails PROVE Expected(action, Verdict(b.open, m, b.shown, fails))
      <4> DEFINE v == Verdict(b.open, m, b.shown, fails)
      <4>1. Expected("rename-workspace", v)
        BY RenamesExpected DEF RenameTo
      <4> HIDE DEF m, v
      <4>2. "rename-workspace" \notin OnSession \cup {"save-workspace", "save-default-workspace"} \cup Undone
        BY DEF OnSession, Undone
      <4>3. Expected(action, v)
        BY <1>6, <4>1, <4>2 DEF Expected, MayBe
      <4> QED BY <4>3 DEF v
    <3> HIDE DEF m
    <3> QED BY <3>1
  <2>2. \A open, w, fails : Verdict(open, k, w, fails) \in {"ok", "failed"}
    BY SaveExpected
  <2>3. \A open, w, fails : Expected(action, Verdict(open, k, w, fails))
    <3> HIDE DEF k
    <3> QED BY <1>6, <2>2 DEF Expected, MayBe
  <2>4. action \in TabRequests
    BY <1>6 DEF TabRequests
  <2> HIDE DEF m, k
  <2>5. Answers(u.shown, <<m, k>>) = OneLater(OneLater({b}, m), k)
    <3> DEFINE q == <<m, k>>
    <3>1. Len(q) = 2 /\ q[1] = m /\ q[2] = k
      OBVIOUS
    <3> HIDE DEF q
    <3>2. Answers(u.shown, q) = OneLater(OneLater(B, m), k)
      BY <3>1, <1>9
    <3> QED BY <3>2 DEF q, B
  <2>6. s \in Answers(u.shown, <<m, k>>)
    BY <1>6 DEF m, k
  <2>7. PICK t \in OneLater({b}, m) : s \in OneLater({t}, k)
    BY <2>5, <2>6 DEF OneLater
  <2>8. Sane(t) /\ Sane(s)
    BY <1>1, <2>7, OnceAnswered
  <2>9. PICK verdict1, here1 :
          /\ t.answers = Append(b.answers, [verdict |-> verdict1, here |-> here1])
          /\ here1 => \E fails : verdict1 = Verdict(b.open, m, b.shown, fails)
          /\ m.pane => here1
          /\ here1 \in BOOLEAN
    BY <1>1, <2>7, OnceAnswered
  <2>10. PICK verdict2, here2 :
          /\ s.answers = Append(t.answers, [verdict |-> verdict2, here |-> here2])
          /\ here2 => \E fails : verdict2 = Verdict(t.open, k, t.shown, fails)
          /\ k.pane => here2
          /\ here2 \in BOOLEAN
    BY <2>7, <2>8, OnceAnswered
  <2> DEFINE d == [verdict |-> verdict1, here |-> here1]
             e == [verdict |-> verdict2, here |-> here2]
  <2>11. Met(action, d)
    BY <2>1, <2>4, <2>9, OnceMet
  <2>12. Met(action, e)
    BY <2>3, <2>4, <2>10, OnceMet
  <2>13. t.answers = Append(<<>>, d) /\ s.answers = Append(t.answers, e)
    BY <1>1, <2>9, <2>10
  <2> HIDE DEF d, e
  <2>14. Append(<<>>, d) = <<d>>
    OBVIOUS
  <2>15. Append(<<d>>, e) = <<d, e>>
    BY Appended
  <2>16. \A i \in DOMAIN <<d, e>> : (<<d, e>>)[i] \in {d, e}
    OBVIOUS
  <2> QED BY <2>8, <2>11, <2>12, <2>13, <2>14, <2>15, <2>16
<1> HIDE DEF requests
<1>7. \/ requests = <<>>
      \/ \E m : /\ requests = <<m>> /\ (m.pane \/ action \in TabRequests)
                /\ \A fails : Expected(action, Verdict(workspaces, m, u.shown, fails))
      \/ action = "save-default-workspace" /\ \E n : requests = <<RenameTo(n), SaveIt>>
  BY <1>2, RequestsExpected DEF requests
<1> QED BY <1>4, <1>5, <1>6, <1>7

(* What is asked for can be answered.                                      *)
Asking(u) ==
  /\ u.mode = "prompt" => u.action \in Named
  /\ u.mode = "profiles" => u.action \in Profiled

LEMMA PaletteFields ==
  ASSUME NEW u, PaletteSound(u), NEW x, NEW n
  PROVE  /\ LET v == [u EXCEPT !.shown = x] IN v.shown = x /\ v.mode = u.mode /\ v.action = u.action
         /\ Hidden(u).shown = u.shown /\ Hidden(u).mode = "closed" /\ Hidden(u).action = u.action
         /\ LET v == Refiltered(u, n) IN v.shown = u.shown /\ v.mode = u.mode /\ v.action = u.action
         /\ LET v == Moved(u, x, n) IN v.shown = u.shown /\ v.mode = u.mode /\ v.action = u.action
<1>1. PICK S : u \in [shown : S, mode : S, action : S, matches : Nat, selected : Nat, scroll : Nat]
  BY DEF PaletteSound, IsPalette
<1>2. LET v == [u EXCEPT !.shown = x] IN v.shown = x /\ v.mode = u.mode /\ v.action = u.action
  BY <1>1
<1>3. Hidden(u).shown = u.shown /\ Hidden(u).mode = "closed" /\ Hidden(u).action = u.action
  BY <1>1 DEF Hidden
<1>4. LET v == Refiltered(u, n) IN v.shown = u.shown /\ v.mode = u.mode /\ v.action = u.action
  BY <1>1 DEF Refiltered
<1>5. LET v == Moved(u, x, n) IN v.shown = u.shown /\ v.mode = u.mode /\ v.action = u.action
  BY <1>1 DEF Moved, EnsuredVisible
<1> QED BY <1>2, <1>3, <1>4, <1>5

LEMMA QuestionAsked ==
  ASSUME NEW u, PaletteSound(u), Asking(u), NEW action
  PROVE  /\ Toggled(u).shown = u.shown /\ Asking(Toggled(u))
         /\ Asked(u, action) => Question(u, action).shown = u.shown /\ Asking(Question(u, action))
<1>1. PICK S : u \in [shown : S, mode : S, action : S, matches : Nat, selected : Nat, scroll : Nat]
  BY DEF PaletteSound, IsPalette
<1>2. \A n : LET v == Refiltered([u EXCEPT !.mode = "list"], n) IN v.shown = u.shown /\ v.mode = "list"
  BY <1>1 DEF Refiltered
<1>4. Toggled(u).shown = u.shown /\ Asking(Toggled(u))
  <2>1. Hidden(u).shown = u.shown /\ Hidden(u).mode = "closed"
    BY PaletteFields
  <2> QED BY <1>2, <2>1 DEF Toggled, Asking
<1>5. \A a : Offered(u, a).shown = u.shown /\ Offered(u, a).mode = "profiles" /\ Offered(u, a).action = a
  <2> SUFFICES ASSUME NEW a PROVE Offered(u, a).shown = u.shown /\ Offered(u, a).mode = "profiles" /\ Offered(u, a).action = a
    OBVIOUS
  <2> DEFINE w == [u EXCEPT !.mode = "profiles", !.action = a]
  <2>1. w.shown = u.shown /\ w.mode = "profiles" /\ w.action = a
    BY <1>1
  <2> QED BY <1>1, <2>1 DEF Offered, Refiltered
<1>6. \A a : Prompted(u, a).shown = u.shown /\ Prompted(u, a).mode = "prompt" /\ Prompted(u, a).action = a
  <2> SUFFICES ASSUME NEW a PROVE Prompted(u, a).shown = u.shown /\ Prompted(u, a).mode = "prompt" /\ Prompted(u, a).action = a
    OBVIOUS
  <2> DEFINE w == [u EXCEPT !.mode = "prompt", !.action = a]
  <2>1. w.shown = u.shown /\ w.mode = "prompt" /\ w.action = a
    BY <1>1
  <2> QED BY <1>1, <2>1 DEF Prompted, Refiltered
<1>7. ASSUME Asked(u, action) PROVE Question(u, action).shown = u.shown /\ Asking(Question(u, action))
  <2>1. CASE action \in {"new-tab", "change-profile"}
    <3>1. Question(u, action) = Offered(u, action)
      BY <2>1 DEF Question
    <3> QED BY <1>5, <2>1, <3>1 DEF Asking, Profiled
  <2>2. CASE action = "save-workspace"
    <3>1. Question(u, action) = Prompted(u, "save-default-workspace")
      BY <2>2 DEF Question
    <3> QED BY <1>6, <2>2, <3>1 DEF Asking, Named
  <2>3. CASE action \in {"find", "rename-workspace", "rename-tab", "rename-pane"}
    <3>1. Question(u, action) = Prompted(u, action)
      BY <2>3 DEF Question
    <3> QED BY <1>6, <2>3, <3>1 DEF Asking, Named
  <2> QED BY <1>7, <2>1, <2>2, <2>3 DEF Asked
<1> QED BY <1>4, <1>7

AskHonest ==
  /\ AllFit(bindings)
  /\ Sane(Begun(palette.shown))
  /\ PaletteSound(palette) /\ Asking(palette)
  /\ EntriesDone

LEMMA PerformHonest ==
  ASSUME NEW u, PaletteSound(u), Asking(u), AllFit(bindings), Sane(Begun(u.shown)),
         NEW action, NEW args, Fitted(action, args), Perform(u, action, args)
  PROVE  AskHonest'
<1> DEFINE asks == args.null /\ Asked(u, action)
           put == IF asks THEN Question(u, action) ELSE u
           requests == IF asks THEN <<>> ELSE Requests(u, action, args)
           v == IF action = "toggle-command-palette" THEN Toggled(u) ELSE put
<1>1. PICK s \in Answers(u.shown, requests) :
        /\ \A w \in DOMAIN s.open : s.open[w] <= TabLimit
        /\ workspaces' = s.open
        /\ palette' = [v EXCEPT !.shown = s.shown]
        /\ last' = IF s.answers = <<>> THEN Unasked ELSE [action |-> action, answers |-> s.answers]
        /\ bindings' = bindings
  BY DEF Perform
<1>2. PaletteSound(v) /\ Asking(v)
  BY QuestionSound, QuestionAsked
<1>3. Sane(s) /\ \A i \in DOMAIN s.answers : Met(action, s.answers[i])
  <2>1. CASE ~asks
    BY <1>1, <2>1, AnswersExpected
  <2>2. CASE asks
    <3>1. Answers(u.shown, <<>>) = {Begun(u.shown)}
      BY AnswersOfNone
    <3>2. s = Begun(u.shown)
      BY <1>1, <2>2, <3>1
    <3>3. s.answers = <<>>
      BY <3>2 DEF Begun
    <3> QED BY <3>2, <3>3
  <2> QED BY <2>1, <2>2
<1> HIDE DEF v, requests
<1>4. PaletteSound(palette') /\ Asking(palette') /\ palette'.shown = s.shown
  <2>1. PaletteSound([v EXCEPT !.shown = s.shown])
    BY <1>2, PaletteSet
  <2>2. LET w == [v EXCEPT !.shown = s.shown] IN w.shown = s.shown /\ w.mode = v.mode /\ w.action = v.action
    BY <1>2, PaletteFields
  <2> QED BY <1>1, <1>2, <2>1, <2>2 DEF Asking
<1>5. Sane(Begun(palette.shown))'
  BY <1>1, <1>3, <1>4 DEF Sane, Begun
<1>6. EntriesDone'
  <2>1. CASE s.answers = <<>>
    BY <1>1, <2>1 DEF EntriesDone, Unasked
  <2>2. CASE s.answers # <<>>
    <3>1. last'.action = action /\ last'.answers = s.answers
      BY <1>1, <2>2
    <3> QED BY <1>3, <3>1 DEF EntriesDone, Met, Expected
  <2> QED BY <2>1, <2>2
<1>7. AllFit(bindings')
  BY <1>1
<1> QED BY <1>4, <1>5, <1>6, <1>7 DEF AskHonest, PaletteSound, Asking

LEMMA AskBegins ==
  ASSUME AskInit
  PROVE  AskHonest
<1>1. PICK def \in Given : bindings = Effective(def)
  BY DEF AskInit
<1>2. PICK shown \in DOMAIN workspaces :
        palette = [shown |-> shown, mode |-> "closed", action |-> "none", matches |-> 0, selected |-> 0, scroll |-> 0]
  BY DEF AskInit
<1>3. palette.shown = shown /\ Asking(palette)
  BY <1>2 DEF Asking
<1>4. Sane(Begun(palette.shown))
  <2>1. workspaces \in Open
    BY DEF AskInit
  <2> QED BY <1>3, <2>1, ActionsAssumption DEF Sane, Begun
<1>5. EntriesDone
  BY DEF AskInit, EntriesDone, Unasked
<1>6. AllFit(bindings)
  BY <1>1, BindingsFit
<1>7. PaletteSound(palette)
  BY AskStarts
<1> QED BY <1>3, <1>4, <1>5, <1>6, <1>7 DEF AskHonest

LEMMA AskStays == AskHonest /\ AskNext => AskHonest'
<1> SUFFICES ASSUME AskHonest, AskNext PROVE AskHonest'
  OBVIOUS
<1> DEFINE hidden == Hidden(palette)
<1>1. PaletteSound(hidden) /\ Asking(hidden) /\ hidden.shown = palette.shown
  BY QuestionSound, PaletteFields DEF AskHonest, Asking
<1>2. \A a \in Runnable : Fitted(a, Null)
  BY DEF Fitted
<1> HIDE DEF hidden
<1>3. CASE PressBound
  <2>1. PICK spec \in DOMAIN bindings :
          \/ Perform(palette, bindings[spec].action, bindings[spec].args)
          \/ bindings[spec].action \in Runnable /\ Perform(palette, bindings[spec].action, Null)
    BY <1>3 DEF PressBound
  <2>2. Fitted(bindings[spec].action, bindings[spec].args)
    BY DEF AskHonest, AllFit, Fit, Fitted
  <2> QED BY <1>2, <2>1, <2>2, PerformHonest DEF AskHonest
<1>4. CASE ChooseEntry
  <2>1. PICK a \in Runnable : Perform(hidden, a, Null)
    BY <1>4 DEF ChooseEntry, hidden
  <2> QED BY <1>1, <1>2, <2>1, PerformHonest DEF AskHonest
<1>5. CASE AnswerPrompt
  <2>1. PICK n : Perform(hidden, palette.action, Object([name |-> Text(n)]))
    BY <1>5 DEF AnswerPrompt, hidden
  <2>2. Fitted(palette.action, Object([name |-> Text(n)]))
    BY <1>5 DEF AnswerPrompt, AskHonest, Asking, Fitted
  <2> QED BY <1>1, <2>1, <2>2, PerformHonest DEF AskHonest
<1>6. CASE PickProfile
  <2>1. PICK n : Perform(hidden, palette.action, Object([profile |-> Text(n)]))
    BY <1>6 DEF PickProfile, hidden
  <2>2. Fitted(palette.action, Object([profile |-> Text(n)]))
    BY <1>6 DEF PickProfile, AskHonest, Asking, Fitted
  <2> QED BY <1>1, <2>1, <2>2, PerformHonest DEF AskHonest
<1>7. ASSUME NEW v, Edit(v), v.shown = palette.shown, v.mode = "closed" \/ (v.mode = palette.mode /\ v.action = palette.action),
             PaletteSound(palette')
      PROVE  AskHonest'
  BY <1>7 DEF Edit, AskHonest, Asking, AllFit, EntriesDone, PaletteSound, IsPalette, InView, Sane, Begun
<1>8. PaletteSound(palette')
  BY AskStepSound DEF AskHonest
<1>9. CASE Dismiss
  <2>1. Edit(hidden) /\ hidden.mode = "closed"
    BY <1>9, PaletteFields DEF Dismiss, hidden, AskHonest
  <2> QED BY <1>1, <1>7, <1>8, <2>1
<1>10. CASE TypeQuery
  <2>1. PICK n : Edit(Refiltered(palette, n))
    BY <1>10 DEF TypeQuery
  <2> QED BY <1>7, <1>8, <2>1, PaletteFields DEF AskHonest
<1>11. CASE MoveSelection
  <2>1. PICK back, n : Edit(Moved(palette, back, n))
    BY <1>11 DEF MoveSelection
  <2> QED BY <1>7, <1>8, <2>1, PaletteFields DEF AskHonest
<1> QED BY <1>3, <1>4, <1>5, <1>6, <1>9, <1>10, <1>11 DEF AskNext

(* What a bound key or an entry of the palette asks for is done to the     *)
(* workspace shown, with the arguments the host wants, but for the actions *)
(* that nobody does (Undone), names the host refuses, what fails for want  *)
(* of a session or a file (MayBe), and what, having no pane, goes to       *)
(* another workspace.                                                      *)
THEOREM EntriesMatchHolds == TabsSpec => []EntriesMatch
<1> DEFINE I == part = "actions" => AskHonest
<1>1. TabsInit => I
  BY AskBegins DEF TabsInit
<1>2. I /\ [TabsNext]_<<part, vars, askVars, drawn>> => I'
  <2> SUFFICES ASSUME I, [TabsNext]_<<part, vars, askVars, drawn>>, part' = "actions" PROVE AskHonest'
    OBVIOUS
  <2>1. CASE part = "actions" /\ AskNext
    BY <2>1, AskStays
  <2>2. CASE UNCHANGED <<part, askVars>>
    BY <2>2 DEF askVars, AskHonest, AllFit, Fit, EntriesDone, Asking, PaletteSound, IsPalette, InView, Sane, Begun
  <2> QED BY <2>1, <2>2 DEF TabsNext
<1>3. I => EntriesMatch
  BY DEF AskHonest, EntriesMatch
<1> QED BY <1>1, <1>2, <1>3, PTL DEF TabsSpec

===============================================================================
