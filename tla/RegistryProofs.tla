---------------------------- MODULE RegistryProofs ----------------------------
(***************************************************************************)
(* Theorems about Registry and about Launch, for any names, definitions,   *)
(* files, requests and bounds: what is saved is on disk and what names     *)
(* lead to, what panes run, and what becomes of a prompt.                  *)
(***************************************************************************)
EXTENDS MCRegistry, SequenceTheorems, WellFoundedInduction, TLAPS

-----------------------------------------------------------------------------
(* Sequences of whatever they hold.                                        *)

LEMMA SeqOfItems ==
  ASSUME NEW s, IsSeq(s)
  PROVE  s \in Seq({s[i] : i \in 1 .. Len(s)}) /\ DOMAIN s = 1 .. Len(s) /\ Len(s) \in Nat
BY DEF IsSeq

LEMMA ItemsOfSeq ==
  ASSUME NEW S, NEW s \in Seq(S)
  PROVE  IsSeq(s)
BY DEF IsSeq

LEMMA InOneSet ==
  ASSUME NEW a, IsSeq(a), NEW b, IsSeq(b)
  PROVE  \E S : a \in Seq(S) /\ b \in Seq(S)
<1> DEFINE A == {a[i] : i \in 1 .. Len(a)}
           B == {b[i] : i \in 1 .. Len(b)}
<1>1. a \in Seq(A) /\ b \in Seq(B)
  BY SeqOfItems
<1> HIDE DEF A, B
<1>2. a \in Seq(A \cup B) /\ b \in Seq(A \cup B)
  BY <1>1
<1> QED BY <1>2

LEMMA SeqJoined ==
  ASSUME NEW a, IsSeq(a), NEW b, IsSeq(b)
  PROVE  IsSeq(a \o b)
<1>1. PICK S : a \in Seq(S) /\ b \in Seq(S)
  BY InOneSet
<1>2. a \o b \in Seq(S)
  BY <1>1
<1> QED BY <1>2, ItemsOfSeq

LEMMA SeqAssociates ==
  ASSUME NEW a, IsSeq(a), NEW b, IsSeq(b), NEW c, IsSeq(c)
  PROVE  (a \o b) \o c = a \o (b \o c)
<1>1. PICK S : a \in Seq(S) /\ b \in Seq(S)
  BY InOneSet
<1>2. PICK T : b \in Seq(T) /\ c \in Seq(T)
  BY InOneSet
<1>3. a \in Seq(S \cup T) /\ b \in Seq(S \cup T) /\ c \in Seq(S \cup T)
  BY <1>1, <1>2
<1> QED BY <1>3, ConcatAssociative

LEMMA OneItem ==
  ASSUME NEW x
  PROVE  IsSeq(<<x>>)
<1>1. <<x>> \in Seq({x})
  OBVIOUS
<1> QED BY <1>1, ItemsOfSeq

LEMMA TwoItems ==
  ASSUME NEW x, NEW y
  PROVE  IsSeq(<<x, y>>)
<1>1. <<x, y>> \in Seq({x, y})
  OBVIOUS
<1> QED BY <1>1, ItemsOfSeq

LEMMA SeqMapped ==
  ASSUME NEW n \in Nat, NEW s, DOMAIN s = 1 .. n, s = [i \in 1 .. n |-> s[i]]
  PROVE  IsSeq(s) /\ Len(s) = n
<1>1. Len(s) = n
  OBVIOUS
<1> QED BY <1>1 DEF IsSeq

LEMMA SeqAppended ==
  ASSUME NEW s, IsSeq(s), NEW x
  PROVE  /\ IsSeq(Append(s, x)) /\ Len(Append(s, x)) = Len(s) + 1 /\ DOMAIN Append(s, x) = 1 .. Len(s) + 1
         /\ \A i \in 1 .. Len(s) : Append(s, x)[i] = s[i]
         /\ Append(s, x)[Len(s) + 1] = x
<1> DEFINE S0 == {s[i] : i \in 1 .. Len(s)}
<1>1. s \in Seq(S0) /\ Len(s) \in Nat
  BY SeqOfItems
<1> HIDE DEF S0
<1> DEFINE S == S0 \cup {x}
<1>2. s \in Seq(S) /\ x \in S
  BY <1>1
<1> HIDE DEF S
<1> DEFINE t == Append(s, x)
<1>3. /\ t \in Seq(S) /\ Len(t) = Len(s) + 1 /\ DOMAIN t = 1 .. Len(s) + 1
      /\ \A i \in 1 .. Len(s) : t[i] = s[i]
      /\ t[Len(s) + 1] = x
  BY <1>1, <1>2
<1> HIDE DEF t
<1>4. IsSeq(t)
  BY <1>3, ItemsOfSeq
<1>5. /\ IsSeq(t) /\ Len(t) = Len(s) + 1 /\ DOMAIN t = 1 .. Len(s) + 1
      /\ \A i \in 1 .. Len(s) : t[i] = s[i]
      /\ t[Len(s) + 1] = x
  BY <1>3, <1>4
<1> QED BY <1>5 DEF t

LEMMA SeqRemoved ==
  ASSUME NEW s, IsSeq(s), NEW i \in DOMAIN s
  PROVE  /\ IsSeq(RemoveAt(s, i)) /\ Len(RemoveAt(s, i)) = Len(s) - 1
         /\ DOMAIN RemoveAt(s, i) = 1 .. (Len(s) - 1)
         /\ \A j \in 1 .. (Len(s) - 1) : RemoveAt(s, i)[j] = s[IF j < i THEN j ELSE j + 1]
<1> DEFINE S == {s[j] : j \in 1 .. Len(s)}
           before == SubSeq(s, 1, i - 1)
           after == SubSeq(s, i + 1, Len(s))
<1>1. s \in Seq(S) /\ Len(s) \in Nat /\ i \in 1 .. Len(s)
  BY SeqOfItems
<1>2. /\ before \in Seq(S) /\ Len(before) = i - 1 /\ \A j \in 1 .. (i - 1) : before[j] = s[j]
      /\ after \in Seq(S) /\ Len(after) = Len(s) - i /\ \A j \in 1 .. (Len(s) - i) : after[j] = s[i + j]
  <2> HIDE DEF S
  <2> QED BY <1>1
<1>3. RemoveAt(s, i) = before \o after
  BY DEF RemoveAt
<1> HIDE DEF before, after, S
<1> DEFINE t == before \o after
<1>4. /\ t \in Seq(S) /\ Len(t) = Len(s) - 1
      /\ \A j \in 1 .. (Len(s) - 1) : t[j] = IF j < i THEN before[j] ELSE after[j - (i - 1)]
  <2>1. before \in Seq(S) /\ after \in Seq(S) /\ Len(before) = i - 1 /\ Len(after) = Len(s) - i
    BY <1>2
  <2>2. i \in Nat /\ Len(s) \in Nat
    BY <1>1
  <2> HIDE <1>1, <1>2
  <2>3. t \in Seq(S) /\ Len(t) = Len(before) + Len(after)
    BY <2>1
  <2>4. \A j \in 1 .. Len(before) + Len(after) : t[j] = IF j <= Len(before) THEN before[j] ELSE after[j - Len(before)]
    BY <2>1
  <2> HIDE DEF t
  <2>5. Len(before) + Len(after) = Len(s) - 1 /\ \A j \in 1 .. Len(s) - 1 : j <= i - 1 <=> j < i
    BY <2>1, <2>2
  <2> QED BY <2>1, <2>3, <2>4, <2>5
<1>5. ASSUME NEW j \in 1 .. (Len(s) - 1) PROVE t[j] = s[IF j < i THEN j ELSE j + 1]
  <2>1. CASE j < i
    BY <2>1, <1>1, <1>2, <1>4
  <2>2. CASE ~(j < i)
    <3>1. j - (i - 1) \in 1 .. (Len(s) - i) /\ i + (j - (i - 1)) = j + 1
      BY <2>2, <1>1
    <3> QED BY <2>2, <3>1, <1>2, <1>4
  <2> QED BY <2>1, <2>2
<1> HIDE DEF t
<1>6. DOMAIN t = 1 .. (Len(s) - 1)
  BY <1>4
<1>7. IsSeq(t)
  BY <1>4, ItemsOfSeq
<1>8. /\ IsSeq(t) /\ Len(t) = Len(s) - 1 /\ DOMAIN t = 1 .. (Len(s) - 1)
      /\ \A j \in 1 .. (Len(s) - 1) : t[j] = s[IF j < i THEN j ELSE j + 1]
  BY <1>4, <1>5, <1>6, <1>7
<1> QED BY <1>3, <1>8 DEF t

-----------------------------------------------------------------------------
(* Launch: a pane runs what its definition makes of it, in the workspace   *)
(* as it was opened or in none.                                            *)

Surroundings(ws) == {ws, Sessions!Bare}

PaneSound(pane, ws) ==
  /\ pane = [def |-> pane.def, ran |-> pane.ran, env |-> pane.env, driver |-> pane.driver, configured |-> pane.configured]
  /\ Sessions!Optional(pane.def)
  /\ pane.def # <<>> => Sessions!IsSession(pane.def[1])
  /\ \E w \in Surroundings(ws) : pane.ran = Sessions!Resolved(Sessions!SessionOf(pane), w)
  /\ \/ pane.configured = "cleared"
     \/ \E w \in Surroundings(ws) : pane.driver = Sessions!DriverOf(Sessions!SessionOf(pane), w)
  /\ pane.configured # "no" \/ pane.env = Sessions!EnvOf(pane.ran, pane.driver)
  /\ \E told : pane.env = Sessions!EnvOf(pane.ran, told)

PanesSound ==
  /\ Sessions!IsFile(file)
  /\ from # <<>> => Sessions!IsFile(from[1])
  /\ from = <<>> => panes = <<>>
  /\ Sessions!IsSeq(panes)
  /\ \A i \in DOMAIN panes : PaneSound(panes[i], from[1])

LEMMA EmptySession == Sessions!IsSession(Sessions!NoSession)
BY DEF Sessions!IsSession, Sessions!NoSession, Sessions!Optional

LEMMA SessionTyped ==
  ASSUME NEW pane, NEW ws, PaneSound(pane, ws)
  PROVE  Sessions!IsSession(Sessions!SessionOf(pane))
BY EmptySession DEF PaneSound, Sessions!SessionOf, Sessions!Or, Sessions!Optional

(* A definition keeps its shape when its profile or its driver is set.     *)
LEMMA SessionSet ==
  ASSUME NEW s, Sessions!IsSession(s), NEW x
  PROVE  /\ Sessions!IsSession([s EXCEPT !.profile = x])
         /\ Sessions!IsSession([s EXCEPT !.driver = x])
         /\ [s EXCEPT !.driver = x].driver = x
         /\ \A ws : Sessions!Resolved([s EXCEPT !.driver = x], ws) = Sessions!Resolved(s, ws)
<1> DEFINE d == [s EXCEPT !.driver = x]
           p == [s EXCEPT !.profile = x]
<1>1. DOMAIN s = {"profile", "args", "cwd", "env", "startup", "driver"}
  BY DEF Sessions!IsSession
<1>2. /\ d.profile = s.profile /\ d.args = s.args /\ d.cwd = s.cwd /\ d.env = s.env /\ d.startup = s.startup
      /\ d.driver = x
      /\ p.args = s.args /\ p.cwd = s.cwd /\ p.env = s.env /\ p.startup = s.startup
  BY <1>1
<1>3. /\ d = [profile |-> d.profile, args |-> d.args, cwd |-> d.cwd, env |-> d.env, startup |-> d.startup, driver |-> d.driver]
      /\ p = [profile |-> p.profile, args |-> p.args, cwd |-> p.cwd, env |-> p.env, startup |-> p.startup, driver |-> p.driver]
  BY <1>1 DEF Sessions!IsSession
<1> HIDE DEF d, p
<1>4. Sessions!IsSession(d) /\ Sessions!IsSession(p)
  BY <1>2, <1>3 DEF Sessions!IsSession
<1>5. ASSUME NEW ws PROVE Sessions!Resolved(d, ws) = Sessions!Resolved(s, ws)
  BY <1>2 DEF Sessions!Resolved, Sessions!Cwd, Sessions!Env
<1>6. /\ Sessions!IsSession(p) /\ Sessions!IsSession(d) /\ d.driver = x
      /\ \A ws : Sessions!Resolved(d, ws) = Sessions!Resolved(s, ws)
  BY <1>2, <1>4, <1>5
<1> QED BY <1>6 DEF d, p

LEMMA SpawnedSound ==
  ASSUME NEW s, Sessions!IsSession(s), NEW ws
  PROVE  PaneSound(Sessions!Spawned(s), ws)
BY DEF PaneSound, Surroundings, Sessions!Spawned, Sessions!Pane, Sessions!Optional, Sessions!SessionOf, Sessions!Or

LEMMA PopulatedSound ==
  ASSUME NEW f, Sessions!IsFile(f), NEW i \in DOMAIN f.panes
  PROVE  PaneSound(Sessions!Populated(f)[i], f)
<1>1. Sessions!Optional(f.panes[i]) /\ (f.panes[i] # <<>> => Sessions!IsSession(f.panes[i][1]))
  BY DEF Sessions!IsFile
<1> QED BY <1>1 DEF PaneSound, Surroundings, Sessions!Populated, Sessions!Pane, Sessions!SessionOf

(* A driver that was asked for names its profile: nothing is guessed.      *)
LEMMA AskedNamed ==
  ASSUME NEW driver, NEW request, NEW guess
  PROVE  Sessions!Driver(<<>>, <<Sessions!Asked(driver, request)>>, guess)
           = Sessions!Driver(<<>>, <<Sessions!Asked(driver, request)>>, <<>>)
<1> DEFINE asked == Sessions!Asked(driver, request)
<1>1. asked.profile # <<>>
  BY DEF Sessions!Asked, Sessions!FromEffective, Sessions!Or
<1> HIDE DEF asked
<1>2. Sessions!Merged(<<>>, <<asked>>).profile # <<>>
  BY <1>1 DEF Sessions!Merged, Sessions!Or
<1>3. Sessions!Driver(<<>>, <<asked>>, guess) = Sessions!Driver(<<>>, <<asked>>, <<>>)
  BY <1>2 DEF Sessions!Driver, Sessions!Or
<1> QED BY <1>3 DEF asked

PaneWith(p, x, y, z) == [[[p EXCEPT !.driver = x] EXCEPT !.def = y] EXCEPT !.configured = z]

LEMMA PaneSet ==
  ASSUME NEW p, p = [def |-> p.def, ran |-> p.ran, env |-> p.env, driver |-> p.driver, configured |-> p.configured],
         NEW x, NEW y, NEW z
  PROVE  PaneWith(p, x, y, z) = [def |-> y, ran |-> p.ran, env |-> p.env, driver |-> x, configured |-> z]
<1>1. PICK a, b, e, c, d : p = [def |-> a, ran |-> b, env |-> e, driver |-> c, configured |-> d]
  OBVIOUS
<1> DEFINE q == [def |-> a, ran |-> b, env |-> e, driver |-> x, configured |-> d]
           r == [def |-> y, ran |-> b, env |-> e, driver |-> x, configured |-> d]
<1>2. [p EXCEPT !.driver = x] = q
  BY <1>1
<1>3. [q EXCEPT !.def = y] = r
  OBVIOUS
<1>4. [r EXCEPT !.configured = z] = [def |-> y, ran |-> p.ran, env |-> p.env, driver |-> x, configured |-> z]
  BY <1>1
<1> HIDE DEF q, r
<1> QED BY <1>2, <1>3, <1>4 DEF PaneWith

LEMMA ConfiguredSound ==
  ASSUME NEW pane, NEW ws, PaneSound(pane, ws), NEW request, NEW asked,
         asked = IF request.clear THEN <<>> ELSE <<Sessions!Asked(pane.driver, request)>>,
         NEW s, s = [Sessions!Or(pane.def, <<Sessions!NoSession>>)[1] EXCEPT !.driver = asked],
         NEW new,
         new = [def |-> IF s = Sessions!NoSession THEN <<>> ELSE <<s>>, ran |-> pane.ran, env |-> pane.env,
                driver |-> Sessions!Driver(<<>>, asked, <<>>), configured |-> IF request.clear THEN "cleared" ELSE "set"]
  PROVE  PaneSound(new, ws)
<1>1. Sessions!IsSession(Sessions!SessionOf(pane)) /\ s = [Sessions!SessionOf(pane) EXCEPT !.driver = asked]
  BY SessionTyped DEF Sessions!SessionOf
<1>2. /\ Sessions!IsSession(s) /\ s.driver = asked
      /\ \A w : Sessions!Resolved(s, w) = Sessions!Resolved(Sessions!SessionOf(pane), w)
  <2> DEFINE old == Sessions!SessionOf(pane)
  <2>1. Sessions!IsSession(old)
    BY <1>1
  <2> HIDE DEF old
  <2>2. /\ Sessions!IsSession([old EXCEPT !.driver = asked]) /\ [old EXCEPT !.driver = asked].driver = asked
        /\ \A w : Sessions!Resolved([old EXCEPT !.driver = asked], w) = Sessions!Resolved(old, w)
    BY <2>1, SessionSet
  <2>3. s = [old EXCEPT !.driver = asked]
    BY <1>1 DEF old
  <2>4. /\ Sessions!IsSession(s) /\ s.driver = asked
        /\ \A w : Sessions!Resolved(s, w) = Sessions!Resolved(old, w)
    BY <2>2, <2>3
  <2> QED BY <2>4 DEF old
<1>3. Sessions!SessionOf(new) = s
  BY DEF Sessions!SessionOf, Sessions!Or
<1>4. \E w \in Surroundings(ws) : new.ran = Sessions!Resolved(Sessions!SessionOf(new), w)
  BY <1>2, <1>3 DEF PaneSound
<1>5. ASSUME new.configured # "cleared"
      PROVE  new.driver = Sessions!DriverOf(Sessions!SessionOf(new), Sessions!Bare)
  <2>1. asked = <<Sessions!Asked(pane.driver, request)>>
    BY <1>5
  <2>2. Sessions!Bare.defaults.driver = <<>>
    BY DEF Sessions!Bare, Sessions!NoDefaults
  <2> DEFINE guess == Sessions!Inferred(s, Sessions!Resolved(s, Sessions!Bare))
  <2>3. Sessions!DriverOf(s, Sessions!Bare) = Sessions!Driver(<<>>, asked, guess)
    BY <2>2, <1>2 DEF Sessions!DriverOf
  <2> HIDE DEF guess
  <2>4. Sessions!Driver(<<>>, asked, guess) = Sessions!Driver(<<>>, asked, <<>>)
    BY <2>1, AskedNamed
  <2> QED BY <2>3, <2>4, <1>3
<1>6. Sessions!Optional(new.def) /\ (new.def # <<>> => Sessions!IsSession(new.def[1]))
  BY <1>2 DEF Sessions!Optional
<1>7. new.configured # "no" /\ new.env = pane.env /\ new.ran = pane.ran
  OBVIOUS
<1> QED BY <1>4, <1>5, <1>6, <1>7 DEF PaneSound, Surroundings

LEMMA SessionsStart == Sessions!Init => PanesSound
<1> SUFFICES ASSUME Sessions!Init PROVE PanesSound
  OBVIOUS
<1>1. file \in Files /\ from = <<>> /\ panes = <<>>
  BY DEF Sessions!Init
<1>2. Sessions!IsSeq(<<>>)
  BY DEF Sessions!IsSeq
<1> QED BY <1>1, <1>2, SessionsAssumption DEF PanesSound

(* The panes of the next state are those of this one, moved or changed     *)
(* soundly, in the same workspace.                                         *)
LEMMA PanesChanged ==
  ASSUME PanesSound, UNCHANGED <<file, from>>, from # <<>>, panes' \in Seq({panes'[i] : i \in DOMAIN panes'}),
         \A i \in DOMAIN panes' : PaneSound(panes'[i], from[1])
  PROVE  PanesSound'
<1>1. Len(panes') \in Nat /\ panes' = [i \in 1 .. Len(panes') |-> panes'[i]]
  OBVIOUS
<1>2. Sessions!IsSeq(panes')
  BY <1>1 DEF Sessions!IsSeq
<1>3. UNCHANGED file /\ UNCHANGED from
  OBVIOUS
<1> QED BY <1>2, <1>3 DEF PanesSound

LEMMA SessionsStep == PanesSound /\ [Sessions!Next]_(Sessions!vars) => PanesSound'
<1> SUFFICES ASSUME PanesSound, [Sessions!Next]_(Sessions!vars) PROVE PanesSound'
  OBVIOUS
<1> DEFINE S == {panes[i] : i \in DOMAIN panes}
           T(new) == S \cup {new}
<1>0. panes \in Seq(S) /\ DOMAIN panes = 1 .. Len(panes)
  BY DEF PanesSound, Sessions!IsSeq
<1>1. CASE Sessions!Open \/ Sessions!Recreate
  <2>1. UNCHANGED file /\ from' = <<file>> /\ panes' = Sessions!Populated(file)
    BY <1>1 DEF Sessions!Open, Sessions!Recreate
  <2>2. DOMAIN panes' = DOMAIN file.panes
    BY <2>1 DEF Sessions!Populated
  <2>3. Len(panes') \in Nat /\ panes' = [i \in 1 .. Len(panes') |-> panes'[i]]
    <3>1. DOMAIN file.panes = 1 .. Len(file.panes) /\ Len(file.panes) \in Nat
      BY DEF PanesSound, Sessions!IsFile, Sessions!IsSeq
    <3>2. panes' = [i \in 1 .. Len(file.panes) |-> panes'[i]]
      BY <3>1, <2>1, <2>2 DEF Sessions!Populated
    <3>3. Len(panes') = Len(file.panes)
      BY <3>1, <3>2
    <3> QED BY <3>1, <3>2, <3>3
  <2>4. \A i \in DOMAIN panes' : PaneSound(panes'[i], from'[1])
    BY <2>1, <2>2, PopulatedSound DEF PanesSound
  <2>5. Sessions!IsSeq(panes')
    BY <2>3 DEF Sessions!IsSeq
  <2> QED BY <2>1, <2>4, <2>5 DEF PanesSound
<1>2. CASE Sessions!Close
  <2>1. Sessions!IsSeq(<<>>)
    BY DEF Sessions!IsSeq
  <2> QED BY <1>2, <2>1 DEF Sessions!Close, PanesSound
<1>3. ASSUME NEW s, Sessions!IsSession(s), Sessions!Add(s) PROVE PanesSound'
  <2> DEFINE new == Sessions!Spawned(s)
  <2>1. panes' = Append(panes, new) /\ UNCHANGED <<file, from>> /\ from # <<>>
    BY <1>3 DEF Sessions!Add
  <2>2. PaneSound(new, from[1])
    BY <1>3, SpawnedSound
  <2> HIDE DEF new
  <2>3. panes \in Seq(T(new))
    BY <1>0
  <2>4. /\ panes' \in Seq(T(new)) /\ Len(panes') = Len(panes) + 1
        /\ \A i \in DOMAIN panes' : panes'[i] = new \/ (i \in DOMAIN panes /\ panes'[i] = panes[i])
    BY <2>1, <2>3
  <2>5. \A i \in DOMAIN panes' : PaneSound(panes'[i], from[1])
    BY <2>2, <2>4 DEF PanesSound
  <2>6. panes' \in Seq({panes'[i] : i \in DOMAIN panes'})
    BY <2>4
  <2> QED BY <2>1, <2>5, <2>6, PanesChanged
<1>4. ASSUME NEW i \in DOMAIN panes, NEW new, PaneSound(new, from[1]),
             panes' = [panes EXCEPT ![i] = new], UNCHANGED <<file, from>>
      PROVE  PanesSound'
  <2>1. /\ DOMAIN panes' = DOMAIN panes /\ panes' \in Seq(T(new))
        /\ \A j \in DOMAIN panes' : panes'[j] = new \/ panes'[j] = panes[j]
    BY <1>4, <1>0
  <2>2. \A j \in DOMAIN panes' : PaneSound(panes'[j], from[1])
    BY <2>1, <1>4 DEF PanesSound
  <2>3. panes' \in Seq({panes'[j] : j \in DOMAIN panes'})
    BY <2>1
  <2>4. from # <<>>
    BY <1>4 DEF PanesSound
  <2> QED BY <1>4, <2>2, <2>3, <2>4, PanesChanged
<1>5. CASE Sessions!Save
  <2>1. file' = Sessions!Saved /\ UNCHANGED <<from, panes>>
    BY <1>5 DEF Sessions!Save
  <2>2. file'.panes = [i \in DOMAIN panes |-> panes[i].def] /\ file'.profiles = <<>>
    BY <2>1 DEF Sessions!Saved, Sessions!Bare
  <2>3. Len(file'.panes) \in Nat /\ file'.panes = [i \in 1 .. Len(file'.panes) |-> file'.panes[i]]
    <3>1. Len(file'.panes) = Len(panes)
      BY <1>0, <2>2
    <3> QED BY <3>1, <1>0, <2>2
  <2>4. \A i \in DOMAIN file'.panes :
          Sessions!Optional(file'.panes[i]) /\ (file'.panes[i] # <<>> => Sessions!IsSession(file'.panes[i][1]))
    BY <2>2 DEF PanesSound, PaneSound
  <2>5. Sessions!IsFile(file')
    BY <2>2, <2>3, <2>4 DEF Sessions!IsFile, Sessions!IsSeq
  <2> QED BY <2>1, <2>5 DEF PanesSound
<1>6. CASE Sessions!AddDefault
  BY <1>6, <1>3, EmptySession DEF Sessions!AddDefault
<1>7. ASSUME NEW p, Sessions!AddWithProfile(p) PROVE PanesSound'
  <2>1. Sessions!IsSession(Sessions!WithProfile(Sessions!NoSession, p))
    BY EmptySession, SessionSet DEF Sessions!WithProfile
  <2> QED BY <1>7, <1>3, <2>1 DEF Sessions!AddWithProfile
<1>8. ASSUME NEW i \in Nat, Sessions!SplitPane(i) PROVE PanesSound'
  <2>1. i \in DOMAIN panes /\ Sessions!Add(Sessions!SessionOf(panes[i]))
    BY <1>8 DEF Sessions!SplitPane, Sessions!SessionOf
  <2>2. Sessions!IsSession(Sessions!SessionOf(panes[i]))
    BY <2>1, SessionTyped DEF PanesSound
  <2> QED BY <2>1, <2>2, <1>3
<1>9. ASSUME NEW i \in Nat, NEW p, Sessions!ChangeProfile(i, p) PROVE PanesSound'
  <2> DEFINE s == Sessions!SessionOf(panes[i])
  <2>1. /\ i \in DOMAIN panes /\ UNCHANGED <<file, from>>
        /\ panes' = [panes EXCEPT ![i] = Sessions!Spawned(Sessions!WithProfile(s, p))]
    BY <1>9 DEF Sessions!ChangeProfile, Sessions!SessionOf
  <2>2. Sessions!IsSession(s)
    BY <2>1, SessionTyped DEF PanesSound
  <2> HIDE DEF s
  <2>3. Sessions!IsSession(Sessions!WithProfile(s, p))
    BY <2>2, SessionSet DEF Sessions!WithProfile
  <2> QED BY <2>1, <2>3, <1>4, SpawnedSound
<1>10. ASSUME NEW i \in Nat, NEW r, Sessions!Configure(i, r) PROVE PanesSound'
  <2> DEFINE asked == IF r.clear THEN <<>> ELSE <<Sessions!Asked(panes[i].driver, r)>>
             s == [Sessions!Or(panes[i].def, <<Sessions!NoSession>>)[1] EXCEPT !.driver = asked]
             def == IF s = Sessions!NoSession THEN <<>> ELSE <<s>>
             driver == Sessions!Driver(<<>>, asked, <<>>)
             how == IF r.clear THEN "cleared" ELSE "set"
             new == [def |-> def, ran |-> panes[i].ran, env |-> panes[i].env, driver |-> driver, configured |-> how]
  <2>1. /\ i \in DOMAIN panes /\ UNCHANGED <<file, from>>
        /\ panes' = [panes EXCEPT ![i].driver = driver, ![i].def = def, ![i].configured = how]
    BY <1>10 DEF Sessions!Configure
  <2>2. PaneSound(panes[i], from[1])
    BY <2>1 DEF PanesSound
  <2>3. PaneSound(new, from[1])
    BY <2>2, ConfiguredSound
  <2>4. panes[i] = [def |-> panes[i].def, ran |-> panes[i].ran, env |-> panes[i].env, driver |-> panes[i].driver,
                  configured |-> panes[i].configured]
    BY <2>2 DEF PaneSound
  <2> HIDE DEF new
  <2>6. panes' = [panes EXCEPT ![i] = new]
    <3>1. /\ panes'[i] = PaneWith(panes[i], driver, def, how) /\ DOMAIN panes' = DOMAIN panes
          /\ \A j \in DOMAIN panes' : j # i => panes'[j] = panes[j]
      <4> HIDE DEF driver, def, how
      <4> QED BY <2>1, <1>0 DEF PaneWith
    <3>2. panes'[i] = new
      <4> HIDE DEF driver, def, how
      <4>1. PaneWith(panes[i], driver, def, how)
              = [def |-> def, ran |-> panes[i].ran, env |-> panes[i].env, driver |-> driver, configured |-> how]
        BY <2>4, PaneSet
      <4> QED BY <3>1, <4>1 DEF new
    <3>3. panes' = [j \in DOMAIN panes' |-> panes'[j]]
      BY <2>1
    <3> QED BY <3>1, <3>2, <3>3
  <2> QED BY <2>1, <2>3, <2>6, <1>4
<1>11. ASSUME NEW i \in Nat, Sessions!ClosePane(i) PROVE PanesSound'
  <2>1. /\ i \in DOMAIN panes /\ panes' = RemoveAt(panes, i) /\ UNCHANGED <<file, from>>
    BY <1>11 DEF Sessions!ClosePane, Sessions!RemoveAt, RemoveAt
  <2>2. /\ IsSeq(panes')
        /\ \A j \in DOMAIN panes' : panes'[j] \in {panes[l] : l \in DOMAIN panes}
    <3>1. IsSeq(panes) /\ Len(panes) \in Nat
      BY DEF PanesSound, Sessions!IsSeq, IsSeq
    <3>2. /\ IsSeq(RemoveAt(panes, i)) /\ DOMAIN RemoveAt(panes, i) = 1 .. (Len(panes) - 1)
          /\ \A j \in 1 .. (Len(panes) - 1) : RemoveAt(panes, i)[j] = panes[IF j < i THEN j ELSE j + 1]
      BY <2>1, <3>1, SeqRemoved
    <3>3. \A j \in 1 .. (Len(panes) - 1) : (IF j < i THEN j ELSE j + 1) \in DOMAIN panes
      BY <2>1, <1>0, <3>1
    <3> QED BY <2>1, <3>2, <3>3
  <2>3. \A j \in DOMAIN panes' : PaneSound(panes'[j], from[1])
    BY <2>2 DEF PanesSound
  <2>4. panes' \in Seq({panes'[j] : j \in DOMAIN panes'})
    BY <2>2, SeqOfItems
  <2>5. from # <<>>
    BY <2>1 DEF PanesSound
  <2> QED BY <2>1, <2>3, <2>4, <2>5, PanesChanged
<1>12. CASE UNCHANGED (Sessions!vars)
  BY <1>12 DEF Sessions!vars, PanesSound
<1>13. \A i \in 1 .. MaxLaunched : i \in Nat
  OBVIOUS
<1> QED BY <1>1, <1>2, <1>5, <1>6, <1>7, <1>8, <1>9, <1>10, <1>11, <1>12, <1>13 DEF Sessions!Next

(* A pane runs what its definition makes of it, in the workspace as it was *)
(* opened or in none, and so does its driver.                              *)
THEOREM RunsAsDefined == Sessions!Spec => []Sessions!DefinedAsRun
<1>1. PanesSound => Sessions!DefinedAsRun
  BY DEF PanesSound, PaneSound, Surroundings, Sessions!DefinedAsRun
<1> QED BY <1>1, SessionsStart, SessionsStep, PTL DEF Sessions!Spec

-----------------------------------------------------------------------------
(* What is resolved: from the profile a session is given, by itself or by  *)
(* its surroundings.                                                       *)

ProfileOf(s, ws) ==
  Sessions!Lookup(Sessions!Or(Sessions!Or(s.profile, ws.defaults.profile), <<GlobalDefault>>)[1], ws)

Given(s, profile) == Sessions!Or(s.args, <<Sessions!Args(profile)>>)[1]

LEMMA ResolvedAs ==
  ASSUME NEW s, NEW ws, Sessions!Resolved(s, ws).ok
  PROVE  LET profile == ProfileOf(s, ws)[1]
             program == Sessions!Executable(profile)[1]
             begun   == Sessions!Started(program, Given(s, profile), s.startup)
         IN  /\ ProfileOf(s, ws) # <<>>
             /\ Sessions!Executable(profile) # <<>>
             /\ Sessions!Resolved(s, ws) =
                  [ok |-> TRUE, executable |-> program, args |-> begun.args, typed |-> begun.typed,
                   cwd |-> Sessions!Cwd(s, ws, profile), env |-> Sessions!Env(s, ws, profile)]
BY DEF Sessions!Resolved, Sessions!Failed, ProfileOf, Given

(* Without its startup command a session starts the same program.          *)
LEMMA ResolvedWithout ==
  ASSUME NEW s, Sessions!IsSession(s), NEW ws, Sessions!Resolved(s, ws).ok
  PROVE  Sessions!Resolved([s EXCEPT !.startup = <<>>], ws).args = Given(s, ProfileOf(s, ws)[1])
<1> DEFINE u == [s EXCEPT !.startup = <<>>]
<1>1. DOMAIN s = {"profile", "args", "cwd", "env", "startup", "driver"}
  BY DEF Sessions!IsSession
<1>2. u.profile = s.profile /\ u.args = s.args /\ u.startup = <<>>
  BY <1>1
<1> HIDE DEF u
<1>3. ProfileOf(s, ws) # <<>> /\ Sessions!Executable(ProfileOf(s, ws)[1]) # <<>>
  BY ResolvedAs
<1>4. ProfileOf(u, ws) = ProfileOf(s, ws) /\ Given(u, ProfileOf(s, ws)[1]) = Given(s, ProfileOf(s, ws)[1])
  BY <1>2 DEF ProfileOf, Given
<1>5. Sessions!Resolved(u, ws).args
        = Sessions!Started(Sessions!Executable(ProfileOf(u, ws)[1])[1], Given(u, ProfileOf(u, ws)[1]), <<>>).args
  BY <1>2, <1>3, <1>4 DEF Sessions!Resolved, ProfileOf, Given
<1>6. Sessions!Resolved(u, ws).args = Given(s, ProfileOf(s, ws)[1])
  BY <1>4, <1>5 DEF Sessions!Started
<1> QED BY <1>6 DEF u

LEMMA ProfileTyped ==
  ASSUME NEW s, NEW ws, \A name \in DOMAIN ws.profiles : Sessions!IsProfile(ws.profiles[name]),
         ProfileOf(s, ws) # <<>>
  PROVE  Sessions!IsProfile(ProfileOf(s, ws)[1])
<1>1. PICK name : ProfileOf(s, ws) = Sessions!Lookup(name, ws)
  BY DEF ProfileOf
<1>2. name \in Sessions!BuiltInTypes => Sessions!IsProfile(Sessions!Typed(name))
  <2>1. Sessions!IsSeq(<<>>)
    BY DEF Sessions!IsSeq
  <2> QED BY <2>1 DEF Sessions!IsProfile, Sessions!Typed
<1> QED BY <1>1, <1>2, SessionsAssumption DEF Sessions!Lookup

LEMMA ArgsTyped ==
  ASSUME NEW profile, Sessions!IsProfile(profile)
  PROVE  IsSeq(Sessions!Args(profile))
<1>0. IsSeq(<<>>)
  BY DEF IsSeq
<1>1. CASE profile.args # <<>>
  BY <1>1 DEF Sessions!Args, Sessions!IsProfile, Sessions!IsSeq, IsSeq
<1>2. CASE profile.args = <<>>
  <2>1. CASE profile.type = "powershell"
    <3>1. Sessions!Args(profile) = <<"-NoLogo">>
      BY <1>2, <2>1 DEF Sessions!Args
    <3> QED BY <3>1, OneItem
  <2>2. CASE profile.type = "wsl"
    <3>1. Sessions!Args(profile) = IF profile.distribution = <<>> THEN <<>> ELSE <<"-d">> \o profile.distribution
      BY <1>2, <2>2 DEF Sessions!Args
    <3>2. IsSeq(<<"-d">> \o profile.distribution)
      BY OneItem, SeqJoined DEF Sessions!IsProfile, Sessions!IsSeq, IsSeq
    <3> QED BY <3>1, <3>2, <1>0
  <2>3. CASE profile.type = "ssh"
    <3>1. Sessions!Args(profile) = IF profile.ssh = <<>> THEN <<>> ELSE Sessions!SshArgs(profile.ssh[1])
      BY <1>2, <2>3 DEF Sessions!Args
    <3>2. ASSUME NEW ssh, IsSeq(ssh.identity), IsSeq(ssh.command) PROVE IsSeq(Sessions!SshArgs(ssh))
      <4> DEFINE key == IF ssh.identity = <<>> THEN <<>> ELSE <<"-i">> \o ssh.identity
                 only == IF ssh.agent THEN <<>> ELSE <<"-o", "IdentitiesOnly=yes">>
      <4>1. IsSeq(key)
        BY <3>2, <1>0, OneItem, SeqJoined
      <4>2. IsSeq(only)
        BY <1>0, TwoItems
      <4>3. Sessions!SshArgs(ssh) = key \o only \o <<ssh.host>> \o ssh.command
        BY DEF Sessions!SshArgs
      <4> HIDE DEF key, only
      <4> QED BY <4>1, <4>2, <4>3, <3>2, OneItem, SeqJoined
    <3>3. profile.ssh # <<>> => IsSeq(profile.ssh[1].identity) /\ IsSeq(profile.ssh[1].command)
      BY DEF Sessions!IsProfile, Sessions!IsSeq, IsSeq
    <3> QED BY <3>1, <3>2, <3>3, <1>0
  <2>4. CASE profile.type \in {"cmd", "custom"}
    <3>1. Sessions!Args(profile) = <<>>
      BY <1>2, <2>4 DEF Sessions!Args
    <3> QED BY <3>1, <1>0
  <2> QED BY <2>1, <2>2, <2>3, <2>4 DEF Sessions!IsProfile, Sessions!BuiltInTypes
<1> QED BY <1>1, <1>2

LEMMA GivenTyped ==
  ASSUME NEW s, Sessions!IsSession(s), NEW profile, Sessions!IsProfile(profile)
  PROVE  IsSeq(Given(s, profile))
BY ArgsTyped DEF Given, Sessions!IsSession, Sessions!Or, Sessions!IsSeq, IsSeq

LEMMA PrefixOfJoined ==
  ASSUME NEW a, IsSeq(a), NEW b, IsSeq(b)
  PROVE  IsPrefix(a, a \o b)
<1>1. PICK S : a \in Seq(S) /\ b \in Seq(S)
  BY InOneSet
<1> QED BY <1>1 DEF IsPrefix

(* The last argument, "" if there is none.                                *)
EndOf(args) == Last(<<"">> \o args)

OneWord(words) == words = <<words[1]>>

LEMMA EndsWith ==
  ASSUME NEW args, IsSeq(args), NEW more, IsSeq(more), NEW words, OneWord(words), NEW ended,
         ended = args \o more \o words
  PROVE  IsPrefix(args, ended) /\ EndOf(ended) = words[1]
<1> DEFINE w == words[1]
           e == <<"">>
<1>1. IsSeq(words) /\ IsSeq(e) /\ words = <<w>>
  BY OneItem DEF OneWord
<1> HIDE DEF w, e
<1>2. IsSeq(more \o words) /\ IsSeq(args \o more)
  BY <1>1, SeqJoined
<1>3. ended = args \o (more \o words)
  <2>1. (args \o more) \o words = args \o (more \o words)
    BY <1>1, SeqAssociates
  <2> QED BY <2>1
<1>4. IsPrefix(args, args \o (more \o words))
  BY <1>2, PrefixOfJoined
<1>5. e \o ended = (e \o (args \o more)) \o words
  <2> DEFINE both == args \o more
  <2>1. IsSeq(both)
    BY <1>2
  <2>2. ended = both \o words
    OBVIOUS
  <2> HIDE DEF both
  <2>3. (e \o both) \o words = e \o (both \o words)
    BY <1>1, <2>1, SeqAssociates
  <2>4. e \o ended = (e \o both) \o words
    BY <2>2, <2>3
  <2> QED BY <2>4 DEF both
<1>6. IsSeq(e \o (args \o more))
  BY <1>1, <1>2, SeqJoined
<1>7. ASSUME NEW t, IsSeq(t) PROVE Last(t \o words) = w
  <2>1. PICK S : t \in Seq(S) /\ words \in Seq(S)
    BY <1>1, <1>7, InOneSet
  <2> QED BY <1>1, <2>1 DEF Last
<1>8. Last(e \o ended) = w
  BY <1>5, <1>6, <1>7
<1> QED BY <1>3, <1>4, <1>8 DEF w, e, EndOf

LEMMA StartedAs ==
  ASSUME NEW program, NEW args, IsSeq(args), NEW words, OneWord(words)
  PROVE  LET begun == Sessions!Started(program, args, words)
         IN  \/ begun.args = args /\ begun.typed = words
             \/ begun.typed = <<>> /\ IsPrefix(args, begun.args) /\ EndOf(begun.args) = words[1]
<1> DEFINE begun == Sessions!Started(program, args, words)
<1>1. words # <<>>
  BY DEF OneWord
<1>2. ASSUME NEW more, IsSeq(more), begun.args = args \o more \o words
      PROVE  IsPrefix(args, begun.args) /\ EndOf(begun.args) = words[1]
  <2> HIDE DEF begun
  <2> QED BY <1>2, EndsWith, ZenonT(30)
<1>3. CASE program \in {"pwsh.exe", "powershell.exe"}
  <2> DEFINE flag == IF "-NoExit" \in ToSet(args) THEN <<>> ELSE <<"-NoExit">>
  <2>1. begun.args = args \o flag \o <<"-Command">> \o words /\ begun.typed = <<>>
    BY <1>3, <1>1 DEF Sessions!Started, Sessions!ToSet, ToSet
  <2>2. IsSeq(flag) /\ IsSeq(<<"-Command">>)
    <3>1. IsSeq(<<>>)
      BY DEF IsSeq
    <3> QED BY <3>1, OneItem
  <2> HIDE DEF flag
  <2>3. args \o flag \o <<"-Command">> = args \o (flag \o <<"-Command">>) /\ IsSeq(flag \o <<"-Command">>)
    BY <2>2, SeqAssociates, SeqJoined
  <2> QED BY <1>2, <2>1, <2>3
<1>4. CASE program = "cmd.exe" /\ ToSet(args) \cap {"/C", "/K"} = {}
  <2>1. begun.args = args \o <<"/K">> \o words /\ begun.typed = <<>>
    BY <1>4, <1>1 DEF Sessions!Started, Sessions!ToSet, ToSet
  <2> QED BY <1>2, <2>1, OneItem
<1>5. CASE program \notin {"pwsh.exe", "powershell.exe"} /\ ~(program = "cmd.exe" /\ ToSet(args) \cap {"/C", "/K"} = {})
  BY <1>5, <1>1 DEF Sessions!Started, Sessions!ToSet, ToSet
<1> QED BY <1>3, <1>4, <1>5

(* What a session itself sets, its program gets.                           *)
LEMMA DirectorySet ==
  ASSUME NEW s, Sessions!IsSession(s), NEW ws, NEW profile, s.cwd # <<>>
  PROVE  Sessions!Cwd(s, ws, profile) = <<Sessions!Expanded(s.cwd[1])>>
<1>1. PICK x : s.cwd = <<x>>
  BY DEF Sessions!IsSession, Sessions!Optional
<1>2. Sessions!Cwd(s, ws, profile) = [i \in DOMAIN <<x>> |-> Sessions!Expanded(<<x>>[i])]
  BY <1>1 DEF Sessions!Cwd, Sessions!Or
<1>3. ASSUME NEW f(_) PROVE [i \in DOMAIN <<x>> |-> f(<<x>>[i])] = <<f(x)>>
  OBVIOUS
<1>4. [i \in DOMAIN <<x>> |-> Sessions!Expanded(<<x>>[i])] = <<Sessions!Expanded(x)>>
  BY <1>3
<1> QED BY <1>1, <1>2, <1>4

LEMMA StartupSet ==
  ASSUME NEW s, Sessions!IsSession(s), NEW ws, \A name \in DOMAIN ws.profiles : Sessions!IsProfile(ws.profiles[name]),
         NEW ran, ran = Sessions!Resolved(s, ws), ran.ok
  PROVE  /\ s.args # <<>> => IsPrefix(s.args[1], ran.args)
         /\ s.startup # <<>> =>
              Sessions!StartedOnce(s, ran, Sessions!Resolved([s EXCEPT !.startup = <<>>], ws))
<1> DEFINE profile == ProfileOf(s, ws)[1]
           program == Sessions!Executable(profile)[1]
           args    == Given(s, profile)
           begun   == Sessions!Started(program, args, s.startup)
           without == Sessions!Resolved([s EXCEPT !.startup = <<>>], ws)
<1>1. ran.args = begun.args /\ ran.typed = begun.typed /\ ProfileOf(s, ws) # <<>>
  BY ResolvedAs
<1>2. IsSeq(args)
  BY <1>1, ProfileTyped, GivenTyped
<1>3. without.args = args
  BY ResolvedWithout
<1>4. s.args # <<>> => args = s.args[1]
  BY DEF Given, Sessions!Or
<1> HIDE DEF profile, program, args, without
<1>5. CASE s.startup = <<>>
  <2>1. ran.args = args
    BY <1>1, <1>5 DEF Sessions!Started
  <2>2. IsPrefix(args, args)
    <3>1. IsSeq(<<>>)
      BY DEF IsSeq
    <3>2. PICK S : args \in Seq(S)
      BY <1>2, SeqOfItems
    <3>3. args \o <<>> = args
      BY <3>2
    <3>4. IsPrefix(args, args \o <<>>)
      BY <1>2, <3>1, PrefixOfJoined
    <3> QED BY <3>3, <3>4
  <2> QED BY <1>4, <1>5, <2>1, <2>2
<1>6. CASE s.startup # <<>>
  <2>1. OneWord(s.startup)
    BY <1>6 DEF OneWord, Sessions!IsSession, Sessions!Optional
  <2>2. \/ begun.args = args /\ begun.typed = s.startup
        \/ begun.typed = <<>> /\ IsPrefix(args, begun.args) /\ EndOf(begun.args) = s.startup[1]
    BY <1>2, <2>1, StartedAs
  <2> HIDE DEF begun
  <2>3. IsPrefix(args, begun.args)
    <3>1. PICK S : args \in Seq(S)
      BY <1>2, SeqOfItems
    <3>2. args \o <<>> = args /\ IsSeq(<<>>)
      BY <3>1 DEF IsSeq
    <3>3. IsPrefix(args, args \o <<>>)
      BY <1>2, <3>2, PrefixOfJoined
    <3> QED BY <2>2, <3>2, <3>3
  <2>4. Sessions!StartedOnce(s, ran, without)
    BY <1>1, <1>3, <2>2 DEF Sessions!StartedOnce, EndOf, Sessions!IsPrefix, IsPrefix, Sessions!Last, Last
  <2> QED BY <1>1, <1>4, <2>3, <2>4 DEF without
<1> QED BY <1>5, <1>6

LEMMA VariableSet ==
  ASSUME NEW s, Sessions!IsSession(s), NEW ws, NEW profile, NEW v \in DOMAIN s.env, v # "TERM",
         NEW env, env = Sessions!Env(s, ws, profile)
  PROVE  /\ v \in DOMAIN env <=> s.env[v] # <<>>
         /\ s.env[v] # <<>> => env[v] = s.env[v][1]
<1>1. PICK below : \/ env = Sessions!Layered(below, s.env)
                   \/ env = Sessions!Layered(Sessions!Layered(below, s.env), [t \in {"TERM"} |-> <<"xterm-256color">>])
  BY DEF Sessions!Env
<1> DEFINE merged == Sessions!Layered(below, s.env)
<1>2. /\ v \in DOMAIN merged <=> s.env[v] # <<>>
      /\ s.env[v] # <<>> => merged[v] = s.env[v][1]
  BY DEF Sessions!Layered
<1> HIDE DEF merged
<1>3. ASSUME NEW layer, DOMAIN layer = {"TERM"}
      PROVE  /\ v \in DOMAIN Sessions!Layered(merged, layer) <=> v \in DOMAIN merged
             /\ v \in DOMAIN merged => Sessions!Layered(merged, layer)[v] = merged[v]
  BY <1>3 DEF Sessions!Layered
<1> QED BY <1>1, <1>2, <1>3 DEF merged

(* What is seen of a variable that is spelled in one way.                  *)
LEMMA VariableSeen ==
  ASSUME NEW s, Sessions!IsSession(s), NEW v \in DOMAIN s.env, NEW env,
         v \in DOMAIN env <=> s.env[v] # <<>>, s.env[v] # <<>> => env[v] = s.env[v][1],
         \A w \in DOMAIN env : Name[w] = Name[v] => w = v
  PROVE  Sessions!Seen(env, Name[v]) = ToSet(s.env[v])
<1>1. Sessions!Optional(s.env[v])
  BY DEF Sessions!IsSession
<1>2. CASE s.env[v] = <<>>
  BY <1>2 DEF Sessions!Seen, ToSet
<1>3. CASE s.env[v] # <<>>
  <2>1. Sessions!Seen(env, Name[v]) = {env[v]}
    BY <1>3 DEF Sessions!Seen
  <2>2. PICK x : s.env[v] = <<x>>
    BY <1>1, <1>3 DEF Sessions!Optional
  <2>3. ToSet(<<x>>) = {x}
    BY DEF ToSet
  <2> QED BY <1>3, <2>1, <2>2, <2>3
<1> QED BY <1>2, <1>3

(* The terminal's variables come over those of a session, and leave the    *)
(* others as they are.                                                     *)
LEMMA VariableTold ==
  ASSUME NEW env, NEW told, NEW v, NEW all, all = Sessions!Layered(env, Sessions!Told(told)),
         v \notin Sessions!OfTerminal \cup Sessions!OfDriver
  PROVE  /\ v \in DOMAIN all <=> v \in DOMAIN env
         /\ v \in DOMAIN env => all[v] = env[v]
BY DEF Sessions!Layered, Sessions!Told

LEMMA TerminalTold ==
  ASSUME NEW env, NEW told, NEW all, all = Sessions!Layered(env, Sessions!Told(told)), NEW v \in Sessions!OfTerminal
  PROVE  v \in DOMAIN all /\ all[v] = "terminal"
<1> DEFINE new == Sessions!Told(told)
<1>1. v \in DOMAIN new /\ new[v] = <<"terminal">>
  BY DEF Sessions!Told, Sessions!OfTerminal, Sessions!OfDriver
<1> HIDE DEF new
<1>2. new[v] # <<>> /\ new[v][1] = "terminal"
  BY <1>1
<1> QED BY <1>1, <1>2 DEF Sessions!Layered, new

LEMMA PanesSet == PanesSound => Sessions!SetAsDefined
<1> SUFFICES ASSUME PanesSound, NEW i \in DOMAIN panes, panes[i].ran.ok
             PROVE  LET session == Sessions!SessionOf(panes[i])
                        ran     == panes[i].ran
                        env     == panes[i].env
                    IN  /\ session.cwd # <<>> => ran.cwd = <<Sessions!Expanded(session.cwd[1])>>
                        /\ session.args # <<>> => IsPrefix(session.args[1], ran.args)
                        /\ session.startup # <<>> =>
                             \E ws \in {from[1], Sessions!Bare} :
                               Sessions!StartedOnce(session, ran, Sessions!Resolved([session EXCEPT !.startup = <<>>], ws))
                        /\ \A v \in DOMAIN session.env :
                             \/ Sessions!Seen(env, Name[v]) = ToSet(session.env[v])
                             \/ \E w \in DOMAIN env : w # v /\ Name[w] = Name[v]
                             \/ v \in {"TERM"} \cup Sessions!OfTerminal \cup Sessions!OfDriver
                        /\ \A v \in Sessions!OfTerminal : v \in DOMAIN env /\ env[v] = "terminal"
  BY DEF Sessions!SetAsDefined, Sessions!IsPrefix, IsPrefix, Sessions!ToSet, ToSet
<1> DEFINE s == Sessions!SessionOf(panes[i])
           ran == panes[i].ran
           env == panes[i].env
<1>1. PICK ws \in Surroundings(from[1]) : ran = Sessions!Resolved(s, ws)
  BY DEF PanesSound, PaneSound
<1>2. Sessions!IsSession(s)
  BY SessionTyped DEF PanesSound
<1>3. \A name \in DOMAIN ws.profiles : Sessions!IsProfile(ws.profiles[name])
  <2>1. CASE ws = Sessions!Bare
    BY <2>1 DEF Sessions!Bare
  <2>2. CASE ws = from[1]
    <3>1. from # <<>>
      BY DEF PanesSound
    <3> QED BY <2>2, <3>1 DEF PanesSound, Sessions!IsFile
  <2> QED BY <2>1, <2>2 DEF Surroundings
<1>4. PICK profile : ran.cwd = Sessions!Cwd(s, ws, profile) /\ ran.env = Sessions!Env(s, ws, profile)
  BY <1>1, ResolvedAs
<1>5. ran.ok /\ ws \in {from[1], Sessions!Bare}
  BY DEF Surroundings
<1>9. PICK told : env = Sessions!Layered(ran.env, Sessions!Told(told))
  <2>1. \E told : env = Sessions!EnvOf(ran, told)
    BY DEF PanesSound, PaneSound
  <2> QED BY <2>1 DEF Sessions!EnvOf
<1> HIDE DEF s, ran, env
<1>6. s.cwd # <<>> => ran.cwd = <<Sessions!Expanded(s.cwd[1])>>
  BY <1>2, <1>4, DirectorySet
<1>7. /\ s.args # <<>> => IsPrefix(s.args[1], ran.args)
      /\ s.startup # <<>> => Sessions!StartedOnce(s, ran, Sessions!Resolved([s EXCEPT !.startup = <<>>], ws))
  BY <1>1, <1>2, <1>3, <1>5, StartupSet
<1>8. ASSUME NEW v \in DOMAIN s.env, v \notin {"TERM"} \cup Sessions!OfTerminal \cup Sessions!OfDriver,
             \A w \in DOMAIN env : Name[w] = Name[v] => w = v
      PROVE  Sessions!Seen(env, Name[v]) = ToSet(s.env[v])
  <2>1. /\ v \in DOMAIN env <=> v \in DOMAIN ran.env
        /\ v \in DOMAIN ran.env => env[v] = ran.env[v]
    BY <1>8, <1>9, VariableTold
  <2>2. /\ v \in DOMAIN ran.env <=> s.env[v] # <<>>
        /\ s.env[v] # <<>> => ran.env[v] = s.env[v][1]
    BY <1>2, <1>4, <1>8, VariableSet
  <2> QED BY <1>2, <1>8, <2>1, <2>2, VariableSeen
<1>10. \A v \in Sessions!OfTerminal : v \in DOMAIN env /\ env[v] = "terminal"
  BY <1>9, TerminalTold
<1> QED BY <1>5, <1>6, <1>7, <1>8, <1>10 DEF s, ran, env

(* What a definition itself sets is what its program gets: its directory,  *)
(* its arguments, its startup command once, and its variables, but TERM    *)
(* and those the terminal sets.                                            *)
THEOREM SetsAsDefined == Sessions!Spec => []Sessions!SetAsDefined
BY PanesSet, SessionsStart, SessionsStep, PTL DEF Sessions!Spec

-----------------------------------------------------------------------------
(* Both parts: the one that moves keeps its invariant.                     *)

SessionsKept == part = "sessions" => PanesSound

LEMMA SessionsKeptInit == BothInit => SessionsKept
BY SessionsStart DEF BothInit, SessionsKept

LEMMA SessionsKeptNext == SessionsKept /\ [BothNext]_<<part, vars, launched>> => SessionsKept'
<1> SUFFICES ASSUME SessionsKept, [BothNext]_<<part, vars, launched>> PROVE SessionsKept'
  OBVIOUS
<1>1. CASE part = "registry" /\ Next /\ UNCHANGED <<part, launched>>
  BY <1>1 DEF SessionsKept
<1>2. CASE part = "sessions" /\ Sessions!Next /\ UNCHANGED <<part, vars>>
  <2>1. PanesSound'
    BY <1>2, SessionsStep DEF SessionsKept
  <2> QED BY <2>1 DEF SessionsKept
<1>3. CASE UNCHANGED <<part, vars, launched>>
  <2>1. UNCHANGED part /\ UNCHANGED Sessions!vars
    BY <1>3 DEF launched, Sessions!vars
  <2>2. part = "sessions" => PanesSound'
    BY <2>1, SessionsStep DEF SessionsKept
  <2> QED BY <2>1, <2>2 DEF SessionsKept
<1> QED BY <1>1, <1>2, <1>3 DEF BothNext

(* A pane runs what its definition says, which is what will be saved, and  *)
(* what the definition sets is what its program gets, but for TERM and the *)
(* variables that are the terminal's and the driver's own.                 *)
THEOREM DefinedAndSet == BothSpec => []RunAsDefined
<1>1. SessionsKept => RunAsDefined
  <2>1. PanesSound => Sessions!DefinedAsRun
    BY DEF PanesSound, PaneSound, Surroundings, Sessions!DefinedAsRun
  <2> QED BY <2>1, PanesSet DEF SessionsKept, RunAsDefined
<1> QED BY <1>1, SessionsKeptInit, SessionsKeptNext, PTL DEF BothSpec
-----------------------------------------------------------------------------
(* FlattenSeq is a recursive function: what it joins is shown by induction *)
(* over a set of numbers.                                                  *)

LEMMA SetInduction ==
  ASSUME NEW T \in SUBSET Nat, 0 \in T, \A n \in T : n + 1 \in T
  PROVE  T = Nat
<1> SUFFICES ASSUME Nat \ T # {} PROVE FALSE
  OBVIOUS
<1> DEFINE R == {ss \in Nat \X Nat : ss[1] < ss[2]}
<1>1. IsWellFoundedOn(R, Nat)
  BY NatLessThanWellFounded DEF OpToRel
<1>2. PICK x \in Nat \ T : \A y \in Nat \ T : <<y, x>> \notin R
  <2> HIDE DEF R
  <2> QED BY <1>1, WFMin
<1>3. x - 1 \in Nat /\ x - 1 \in T
  <2>1. x # 0 /\ x - 1 \in Nat
    OBVIOUS
  <2>2. ASSUME x - 1 \notin T PROVE FALSE
    <3>1. <<x - 1, x>> \in Nat \X Nat /\ <<x - 1, x>>[1] < <<x - 1, x>>[2]
      BY <2>1
    <3>2. <<x - 1, x>> \in R
      BY <3>1
    <3> QED BY <1>2, <2>1, <2>2, <3>2
  <2> QED BY <2>1, <2>2
<1>4. (x - 1) + 1 \in T /\ (x - 1) + 1 = x
  BY <1>3
<1> QED BY <1>4

Joins(f, s, n) == f = [i \in 1 .. n |-> IF i = 1 THEN s[i] ELSE f[i-1] \o s[i]]

LEMMA Joined ==
  ASSUME NEW s, NEW n \in Nat
  PROVE  \E f : Joins(f, s, n)
<1> DEFINE T == {m \in Nat : \E f : Joins(f, s, m)}
<1>1. 0 \in T
  <2>1. Joins(<<>>, s, 0)
    BY DEF Joins
  <2> QED BY <2>1
<1>2. ASSUME NEW m \in T PROVE m + 1 \in T
  <2>1. PICK f : Joins(f, s, m)
    OBVIOUS
  <2> DEFINE g == [i \in 1 .. m + 1 |->
                     IF i <= m THEN f[i] ELSE IF i = 1 THEN s[i] ELSE f[m] \o s[i]]
  <2>2. m \in Nat
    OBVIOUS
  <2>3. ASSUME NEW i \in 1 .. m + 1
        PROVE  g[i] = IF i = 1 THEN s[i] ELSE g[i-1] \o s[i]
    <3>1. CASE i <= m
      <4>1. g[i] = f[i] /\ (i # 1 => g[i-1] = f[i-1])
        BY <3>1, <2>2
      <4>2. i \in 1 .. m
        BY <3>1, <2>2
      <4>3. f[i] = IF i = 1 THEN s[i] ELSE f[i-1] \o s[i]
        BY <2>1, <4>2 DEF Joins
      <4> QED BY <4>1, <4>3
    <3>2. CASE i > m
      <4>1. i = m + 1 /\ g[i] = IF i = 1 THEN s[i] ELSE f[m] \o s[i]
        BY <3>2, <2>2
      <4>2. i # 1 => g[i - 1] = f[m]
        BY <4>1, <2>2
      <4> QED BY <4>1, <4>2
    <3> QED BY <3>1, <3>2, <2>2
  <2>4. Joins(g, s, m + 1)
    BY <2>3 DEF Joins
  <2>5. \E h : Joins(h, s, m + 1)
    <3> HIDE DEF g
    <3> QED BY <2>4
  <2> QED BY <2>2, <2>5
<1>3. T = Nat
  <2>1. T \in SUBSET Nat
    OBVIOUS
  <2> HIDE DEF T
  <2> QED BY <1>1, <1>2, <2>1, SetInduction
<1> QED BY <1>3

LEMMA FlattenJoins ==
  ASSUME NEW s, NEW n \in Nat \ {0}, Len(s) = n
  PROVE  \E f : Joins(f, s, n) /\ FlattenSeq(s) = f[n]
<1>1. \E f : Joins(f, s, n)
  BY Joined
<1> DEFINE f == CHOOSE f : Joins(f, s, n)
<1>2. Joins(f, s, n)
  BY <1>1
<1>3. FlattenSeq(s) = f[n]
  BY DEF FlattenSeq, Joins
<1> QED BY <1>2, <1>3

(* What joins the parts one by one is what they are flattened to.          *)
JoinedUpTo(g, s, n) == g[1] = s[1] /\ \A m \in 2 .. n : g[m] = g[m - 1] \o s[m]

LEMMA FlattenAs ==
  ASSUME NEW s, NEW n \in Nat \ {0}, Len(s) = n, NEW g, JoinedUpTo(g, s, n)
  PROVE  FlattenSeq(s) = g[n]
<1>1. PICK f : Joins(f, s, n) /\ FlattenSeq(s) = f[n]
  BY FlattenJoins
<1>2. /\ f[1] = s[1]
      /\ \A m \in 1 .. n : m # 1 => f[m] = f[m - 1] \o s[m]
  <2>1. \A m \in 1 .. n : f[m] = IF m = 1 THEN s[m] ELSE f[m - 1] \o s[m]
    BY <1>1 DEF Joins
  <2>2. 1 \in 1 .. n
    OBVIOUS
  <2> QED BY <2>1, <2>2
<1>7. g[1] = s[1] /\ \A m \in 2 .. n : g[m] = g[m - 1] \o s[m]
  BY DEF JoinedUpTo
<1> DEFINE M == {m \in Nat : m + 1 <= n => f[m + 1] = g[m + 1]}
<1>3. M = Nat
  <2>1. M \in SUBSET Nat /\ 0 \in M
    BY <1>2, <1>7
  <2>2. ASSUME NEW m \in M PROVE m + 1 \in M
    <3>1. m \in Nat
      OBVIOUS
    <3>2. ASSUME (m + 1) + 1 <= n PROVE f[(m + 1) + 1] = g[(m + 1) + 1]
      <4> DEFINE k == (m + 1) + 1
      <4>1. k \in 2 .. n /\ k - 1 = m + 1 /\ k # 1 /\ m + 1 <= n
        BY <3>1, <3>2
      <4>2. f[m + 1] = g[m + 1]
        BY <4>1
      <4> HIDE DEF k
      <4>5. k \in 1 .. n
        BY <4>1
      <4>6. f[k] = f[k - 1] \o s[k]
        BY <4>1, <4>5, <1>2
      <4>7. g[k] = g[k - 1] \o s[k]
        BY <4>1, <1>7
      <4>3. f[k] = f[k - 1] \o s[k] /\ g[k] = g[k - 1] \o s[k]
        BY <4>6, <4>7
      <4>4. f[k] = g[k]
        BY <4>1, <4>2, <4>3
      <4> QED BY <4>4 DEF k
    <3> QED BY <3>1, <3>2
  <2> HIDE DEF M
  <2> QED BY <2>1, <2>2, SetInduction
<1>4. n - 1 \in Nat /\ (n - 1) + 1 = n
  OBVIOUS
<1>5. \A m \in Nat : m + 1 <= n => f[m + 1] = g[m + 1]
  BY <1>3
<1>6. f[(n - 1) + 1] = g[(n - 1) + 1]
  BY <1>4, <1>5
<1> QED BY <1>1, <1>4, <1>6

-----------------------------------------------------------------------------
(* What becomes of a prompt.                                               *)

LEMMA PieceLines ==
  ASSUME NEW lines, NEW brackets, NEW spec
  PROVE  /\ Sessions!LinesOf(Sessions!Text(lines, brackets)) = lines
         /\ Sessions!LinesOf(Sessions!Key(spec)) = <<>>
         /\ Sessions!Text(lines, brackets) # Sessions!Key(spec)
<1>1. \E bytes : Sessions!Text(lines, brackets)
                   = [kind |-> IF brackets /\ bytes > 1 THEN "pasted" ELSE "typed", lines |-> lines]
  BY DEF Sessions!Text
<1> QED BY <1>1 DEF Sessions!LinesOf, Sessions!Key

(* Lines that a key breaks are all there, in order.                        *)
LEMMA BrokenWhole ==
  ASSUME NEW S, NEW lines \in Seq(S), Len(lines) > 1, NEW soft, NEW brackets, NEW s,
         s = [n \in DOMAIN Sessions!Broken(lines, soft, brackets) |->
               Sessions!LinesOf(Sessions!Broken(lines, soft, brackets)[n])]
  PROVE  FlattenSeq(s) = lines
<1> DEFINE n == 2 * Len(lines) - 1
           g == [j \in 1 .. n |-> SubSeq(lines, 1, (j + 1) \div 2)]
<1>1. Len(lines) \in Nat /\ n \in Nat \ {0}
  OBVIOUS
<1>2. s = [j \in 1 .. n |-> IF j % 2 = 0 THEN <<>> ELSE <<lines[(j + 1) \div 2]>>]
  <2>1. ASSUME NEW j \in 1 .. n
        PROVE  Sessions!LinesOf(Sessions!Broken(lines, soft, brackets)[j])
                 = IF j % 2 = 0 THEN <<>> ELSE <<lines[(j + 1) \div 2]>>
    <3>1. Sessions!Broken(lines, soft, brackets)[j]
            = IF j % 2 = 0 THEN Sessions!Key(soft) ELSE Sessions!Text(<<lines[(j + 1) \div 2]>>, brackets)
      BY DEF Sessions!Broken
    <3> QED BY <3>1, PieceLines
  <2>2. DOMAIN Sessions!Broken(lines, soft, brackets) = 1 .. n
    BY DEF Sessions!Broken
  <2> QED BY <2>1, <2>2
<1>3. Len(s) = n
  BY <1>1, <1>2
<1>4. g[1] = s[1]
  <2>0. 1 \in 1 .. n /\ 1 % 2 # 0 /\ (1 + 1) \div 2 = 1
    BY <1>1
  <2>1. s[1] = <<lines[1]>> /\ g[1] = SubSeq(lines, 1, 1)
    <3> HIDE DEF n
    <3> QED BY <2>0, <1>2
  <2>2. SubSeq(lines, 1, 1) = <<lines[1]>>
    <3> DEFINE t == SubSeq(lines, 1, 1)
    <3>1. t \in Seq(S) /\ Len(t) = 1 /\ t[1] = lines[1]
      BY <1>1
    <3> HIDE DEF t
    <3>2. t = <<lines[1]>>
      BY <3>1
    <3> QED BY <3>2 DEF t
  <2> QED BY <2>1, <2>2
<1>5. ASSUME NEW j \in 2 .. n PROVE g[j] = g[j - 1] \o s[j]
  <2> DEFINE k == (j + 1) \div 2
  <2>1. g[j] = SubSeq(lines, 1, k) /\ k \in 1 .. Len(lines)
    BY <1>1
  <2>2. CASE j % 2 = 0
    <3>1. ((j - 1) + 1) \div 2 = k
      BY <2>2, <1>1
    <3>2. g[j - 1] = SubSeq(lines, 1, k)
      BY <3>1, <1>1
    <3>3. s[j] = <<>>
      BY <2>2, <1>1, <1>2
    <3> HIDE DEF g, k
    <3>4. SubSeq(lines, 1, k) \o <<>> = SubSeq(lines, 1, k)
      BY <1>1, <2>1
    <3> QED BY <2>1, <3>2, <3>3, <3>4
  <2>3. CASE j % 2 # 0
    <3>1. ((j - 1) + 1) \div 2 = k - 1 /\ k - 1 \in 1 .. Len(lines) - 1
      BY <2>3, <1>1
    <3>2. g[j - 1] = SubSeq(lines, 1, k - 1)
      BY <3>1, <1>1
    <3>3. s[j] = <<lines[k]>>
      <4> HIDE DEF n
      <4> QED BY <2>3, <1>2
    <3> HIDE DEF g, k
    <3>4. SubSeq(lines, 1, k - 1) \o <<lines[k]>> = SubSeq(lines, 1, k)
      BY <1>1, <2>1, <3>1
    <3> QED BY <2>1, <3>2, <3>3, <3>4
  <2> QED BY <2>2, <2>3
<1>6. g[n] = lines
  <2>1. (n + 1) \div 2 = Len(lines)
    BY <1>1
  <2>2. g[n] = SubSeq(lines, 1, Len(lines))
    BY <2>1, <1>1
  <2>3. SubSeq(lines, 1, Len(lines)) = lines
    BY <1>1
  <2> QED BY <2>2, <2>3
<1>7. \A m \in 2 .. n : g[m] = g[m - 1] \o s[m]
  BY <1>5
<1> HIDE DEF n, g
<1>8. JoinedUpTo(g, s, n)
  BY <1>4, <1>7 DEF JoinedUpTo
<1>9. FlattenSeq(s) = g[n]
  BY <1>1, <1>3, <1>8, FlattenAs
<1> QED BY <1>6, <1>9
LEMMA OneWhole ==
  ASSUME NEW text, NEW s, s = [n \in DOMAIN <<text>> |-> Sessions!LinesOf(<<text>>[n])]
  PROVE  FlattenSeq(s) = Sessions!LinesOf(text)
<1> DEFINE lines == Sessions!LinesOf(text)
<1>1. Len(s) = 1 /\ s[1] = lines
  OBVIOUS
<1> HIDE DEF lines
<1> DEFINE g == <<lines>>
<1>2. g[1] = lines
  OBVIOUS
<1>3. JoinedUpTo(g, s, 1)
  BY <1>1, <1>2 DEF JoinedUpTo
<1> HIDE DEF g
<1>4. 1 \in Nat \ {0}
  OBVIOUS
<1>5. FlattenSeq(s) = g[1]
  BY <1>1, <1>3, <1>4, FlattenAs
<1> QED BY <1>2, <1>5 DEF lines

LEMMA TwoWhole ==
  ASSUME NEW key, NEW text, Sessions!LinesOf(key) = <<>>, NEW S, Sessions!LinesOf(text) \in Seq(S),
         NEW s, s = [n \in DOMAIN <<key, text>> |-> Sessions!LinesOf(<<key, text>>[n])]
  PROVE  FlattenSeq(s) = Sessions!LinesOf(text)
<1> DEFINE lines == Sessions!LinesOf(text)
<1>1. Len(s) = 2 /\ s[1] = <<>> /\ s[2] = lines
  OBVIOUS
<1>2. <<>> \o lines = lines
  OBVIOUS
<1> HIDE DEF lines
<1> DEFINE g == <<<<>>, lines>>
<1>3. g[1] = <<>> /\ g[2] = lines
  OBVIOUS
<1>4. JoinedUpTo(g, s, 2)
  <2>1. ASSUME NEW m \in 2 .. 2 PROVE g[m] = g[m - 1] \o s[m]
    <3>1. m = 2 /\ m - 1 = 1
      OBVIOUS
    <3> HIDE DEF g
    <3> QED BY <3>1, <1>1, <1>2, <1>3
  <2> HIDE DEF g
  <2> QED BY <1>1, <1>3, <2>1 DEF JoinedUpTo
<1> HIDE DEF g
<1>5. 2 \in Nat \ {0}
  OBVIOUS
<1>6. FlattenSeq(s) = g[2]
  BY <1>1, <1>4, <1>5, FlattenAs
<1> QED BY <1>3, <1>6 DEF lines

LEMMA PlanWhole ==
  ASSUME NEW S, NEW lines \in Seq(S), NEW driver, NEW bracketed,
         NEW plan, plan = Sessions!Plan(lines, driver, bracketed), plan.result = "planned"
  PROVE  /\ FlattenSeq([n \in DOMAIN plan.body |-> Sessions!LinesOf(plan.body[n])]) = lines
         /\ \A n \in DOMAIN plan.body : plan.body[n] = Sessions!Key(plan.submit) =>
              \/ driver.soft # <<>> /\ plan.submit = driver.soft[1]
              \/ plan.submit \in ToSet(Sessions!Prepare(driver.profile))
<1> DEFINE brackets == Sessions!Brackets(driver.profile) /\ bracketed
           breaks == Sessions!Multiline(driver.profile) = "soft break" /\ Len(lines) > 1
           text == Sessions!Text(lines, brackets)
           broken == Sessions!Broken(lines, driver.soft[1], brackets)
           key == Sessions!Key("Ctrl+A")
           key2 == Sessions!Key(plan.submit)
<1>1. /\ breaks => driver.soft # <<>>
      /\ plan.body = [i \in DOMAIN Sessions!Prepare(driver.profile) |-> Sessions!Key(Sessions!Prepare(driver.profile)[i])]
                       \o (IF breaks THEN broken ELSE <<text>>)
  BY DEF Sessions!Plan
<1>2. /\ Sessions!LinesOf(text) = lines /\ Sessions!LinesOf(key) = <<>>
      /\ \A spec : text # Sessions!Key(spec)
  BY PieceLines
<1>3. CASE breaks
  <2>1. Sessions!Prepare(driver.profile) = <<>>
    BY <1>3 DEF Sessions!Prepare, Sessions!Multiline
  <2>2. plan.body = <<>> \o broken
    <3>1. [i \in DOMAIN <<>> |-> Sessions!Key(<<>>[i])] = <<>>
      OBVIOUS
    <3> HIDE DEF broken, text, breaks
    <3> QED BY <1>1, <1>3, <2>1, <3>1
  <2>3. IsSeq(broken)
    <3>4. Len(lines) \in Nat
      <4> HIDE DEF breaks, text, broken, brackets, key, key2
      <4> QED BY LenProperties
    <3>5. Len(lines) > 1
      BY <1>3
    <3>0. Len(lines) \in Nat /\ Len(lines) > 1
      BY <3>4, <3>5
    <3>1. 2 * Len(lines) - 1 \in Nat
      <4> HIDE DEF breaks, text, broken, brackets
      <4> QED BY <3>0
    <3>2. DOMAIN broken = 1 .. 2 * Len(lines) - 1 /\ broken = [i \in DOMAIN broken |-> broken[i]]
      BY DEF Sessions!Broken
    <3> HIDE DEF broken
    <3> QED BY <3>1, <3>2, SeqMapped
  <2>4. plan.body = broken
    <3> HIDE DEF broken
    <3>1. PICK T : broken \in Seq(T)
      BY <2>3, SeqOfItems
    <3> QED BY <2>2, <3>1
  <2>5. FlattenSeq([n \in DOMAIN broken |-> Sessions!LinesOf(broken[n])]) = lines
    <3> DEFINE soft == driver.soft[1]
    <3> HIDE DEF soft, brackets
    <3>1. Len(lines) > 1
      BY <1>3
    <3>2. FlattenSeq([n \in DOMAIN Sessions!Broken(lines, soft, brackets) |->
                       Sessions!LinesOf(Sessions!Broken(lines, soft, brackets)[n])]) = lines
      BY <3>1, BrokenWhole
    <3> QED BY <3>2 DEF soft
  <2>6. ASSUME NEW n \in DOMAIN broken, broken[n] = key2 PROVE plan.submit = driver.soft[1]
    <3>1. broken[n] = Sessions!Key(driver.soft[1]) \/ \E l : broken[n] = Sessions!Text(l, brackets)
      BY DEF Sessions!Broken
    <3>2. broken[n] = Sessions!Key(driver.soft[1])
      BY <3>1, <2>6, PieceLines
    <3> QED BY <2>6, <3>2 DEF Sessions!Key
  <2> QED BY <1>1, <1>3, <2>4, <2>5, <2>6
<1>4. CASE ~breaks /\ driver.profile # "codex"
  <2>1. Sessions!Prepare(driver.profile) = <<>>
    BY <1>4 DEF Sessions!Prepare
  <2>2. plan.body = <<>> \o <<text>>
    <3>1. [i \in DOMAIN <<>> |-> Sessions!Key(<<>>[i])] = <<>>
      OBVIOUS
    <3> HIDE DEF broken, text, breaks
    <3> QED BY <1>1, <1>4, <2>1, <3>1
  <2>3. plan.body = <<text>>
    <3> HIDE DEF text
    <3> QED BY <2>2
  <2>4. FlattenSeq([n \in DOMAIN <<text>> |-> Sessions!LinesOf(<<text>>[n])]) = lines
    BY <1>2, OneWhole
  <2>5. \A n \in DOMAIN <<text>> : <<text>>[n] # key2
    <3> HIDE DEF text
    <3> QED BY <1>2
  <2> QED BY <2>3, <2>4, <2>5
<1>5. CASE ~breaks /\ driver.profile = "codex"
  <2>1. Sessions!Prepare(driver.profile) = <<"Ctrl+A">>
    BY <1>5 DEF Sessions!Prepare
  <2>2. plan.body = <<key>> \o <<text>>
    <3>1. [i \in DOMAIN <<"Ctrl+A">> |-> Sessions!Key(<<"Ctrl+A">>[i])] = <<key>>
      OBVIOUS
    <3> HIDE DEF broken, text, breaks, key
    <3> QED BY <1>1, <1>5, <2>1, <3>1
  <2>3. plan.body = <<key, text>>
    <3> HIDE DEF text, key
    <3>1. <<key>> \in Seq({key, text}) /\ <<text>> \in Seq({key, text})
      OBVIOUS
    <3> DEFINE both == <<key>> \o <<text>>
    <3>2. both \in Seq({key, text}) /\ Len(both) = 2 /\ both[1] = key /\ both[2] = text
      BY <3>1
    <3> HIDE DEF both
    <3>3. both = <<key, text>>
      BY <3>2
    <3> QED BY <2>2, <3>3 DEF both
  <2>4. FlattenSeq([n \in DOMAIN <<key, text>> |-> Sessions!LinesOf(<<key, text>>[n])]) = lines
    BY <1>2, TwoWhole
  <2>5. ASSUME NEW n \in DOMAIN <<key, text>>, <<key, text>>[n] = key2
        PROVE  plan.submit \in ToSet(Sessions!Prepare(driver.profile))
    <3>1. <<key, text>>[n] = key \/ <<key, text>>[n] = text
      OBVIOUS
    <3>2. key = key2
      <4> HIDE DEF text, key
      <4> QED BY <1>2, <2>5, <3>1
    <3>3. plan.submit = "Ctrl+A"
      BY <3>2 DEF Sessions!Key
    <3>4. "Ctrl+A" \in ToSet(<<"Ctrl+A">>)
      BY DEF ToSet
    <3> QED BY <2>1, <3>3, <3>4
  <2> QED BY <2>3, <2>4, <2>5
<1> QED BY <1>3, <1>4, <1>5

(* A prompt that is planned arrives whole and in order, whatever its lines *)
(* and whatever driver the pane has, and is not submitted before its end.  *)
THEOREM PromptsArriveWhole == BothSpec => []PromptsWhole
<1>1. Sessions!PromptsWhole
  <2> SUFFICES ASSUME NEW lines \in PromptTexts, NEW i \in DOMAIN panes, NEW bracketed \in BOOLEAN,
                      Sessions!Plan(lines, panes[i].driver, bracketed).result = "planned"
               PROVE  LET plan   == Sessions!Plan(lines, panes[i].driver, bracketed)
                          driver == panes[i].driver
                      IN  /\ FlattenSeq([n \in DOMAIN plan.body |-> Sessions!LinesOf(plan.body[n])]) = lines
                          /\ \A n \in DOMAIN plan.body : plan.body[n] = Sessions!Key(plan.submit) =>
                               \/ driver.soft # <<>> /\ plan.submit = driver.soft[1]
                               \/ plan.submit \in ToSet(Sessions!Prepare(driver.profile))
    BY DEF Sessions!PromptsWhole, Sessions!PlanFor, Sessions!ToSet, ToSet, Sessions!FlattenSeq, FlattenSeq
  <2>1. lines \in Seq(DOMAIN Size)
    BY SessionsAssumption
  <2> QED BY <2>1, PlanWhole
<1>2. PromptsWhole
  BY <1>1 DEF PromptsWhole
<1> QED BY <1>2, PTL
-----------------------------------------------------------------------------
(* Registry: what is kept of an instance, of the files, and between them.  *)

(* A record of some fields: what EXCEPT sets is in it.                     *)
Has(record, fields) == DOMAIN record = fields /\ record = [f \in fields |-> record[f]]

IsInstance(inst) == Has(inst, {"id", "name", "tabs", "panes", "next", "saved", "path", "collided", "cut"})

IsTab(tab) == Has(tab, {"name", "panes", "next"})

(* Ids in the order of a tab's panes, each below its counter.              *)
IdsSound(ids, next) ==
  /\ IsSeq(ids) /\ next \in Nat
  /\ \A i \in DOMAIN ids : ids[i] \in Nat /\ ids[i] < next
  /\ \A i, j \in DOMAIN ids : ids[i] = ids[j] => i = j

TabSound(tab) == IsTab(tab) /\ IdsSound(tab.panes, tab.next)

TabsSound(tabs) == IsSeq(tabs) /\ \A t \in DOMAIN tabs : TabSound(tabs[t])

RecordsSound(records) == \A id \in DOMAIN records : records[id] = [name |-> records[id].name, profile |-> records[id].profile]

Owned(tabs, ids) ==
  /\ \A t \in DOMAIN tabs : ToSet(tabs[t].panes) \subseteq ids
  /\ \A id \in ids : \E t \in DOMAIN tabs : id \in ToSet(tabs[t].panes)
  /\ \A t, u \in DOMAIN tabs : t # u => ToSet(tabs[t].panes) \cap ToSet(tabs[u].panes) = {}

SavedSound(saved, path) ==
  \/ saved = <<>> /\ path = <<>>
  \/ saved = <<saved[1]>> /\ path = <<path[1]>> /\ path[1] \in Paths

InstanceSound(inst) ==
  /\ IsInstance(inst)
  /\ inst.id \in Nat \ {0} /\ inst.next \in Nat
  /\ TabsSound(inst.tabs) /\ RecordsSound(inst.panes)
  /\ inst.collided \/ Owned(inst.tabs, DOMAIN inst.panes)
  /\ SavedSound(inst.saved, inst.path)

(* What of a definition is left when it is saved.                          *)
Kept(def) == [def EXCEPT !.declares = {}, !.windows = FALSE]

OnDisk(inst, files, by) ==
  inst.path # <<>> /\ by[inst.path[1]] = inst.id =>
    /\ inst.path[1] \in DOMAIN files
    /\ \/ inst.saved = <<Kept(files[inst.path[1]])>>
       \/ inst.cut /\ files[inst.path[1]] = Garbage

RegistrySound ==
  /\ open = [k \in DOMAIN open |-> open[k]]
  /\ nextId \in Nat \ {0}
  /\ author \in [Paths -> Nat]
  /\ DOMAIN disk \subseteq Paths
  /\ \A path \in DOMAIN disk : IsDefinition(disk[path])
  /\ \A k \in DOMAIN open : InstanceSound(open[k]) /\ open[k].id < nextId
  /\ \A k, l \in DOMAIN open : open[k].id = open[l].id => k = l
  /\ \A k \in DOMAIN open : OnDisk(open[k], disk, author)
  /\ steps \in 0 .. MaxSteps

LEMMA NoItems == IsSeq(<<>>)
BY DEF IsSeq

(* Every pane has a record and its own id, said of tabs and records.       *)
LEMMA OwnedAs ==
  ASSUME NEW inst
  PROVE  /\ EachItsOwn(inst) <=> Owned(inst.tabs, DOMAIN inst.panes)
         /\ \A id : id \in PaneIdsOf(inst) <=> \E t \in DOMAIN inst.tabs : id \in ToSet(inst.tabs[t].panes)
<1>1. \A id : id \in PaneIdsOf(inst) <=> \E t \in DOMAIN inst.tabs : id \in ToSet(inst.tabs[t].panes)
  BY DEF PaneIdsOf, ToSet
<1> DEFINE ids == PaneIdsOf(inst)
           S(t) == ToSet(inst.tabs[t].panes)
           D == DOMAIN inst.panes
<1>2. \A id : id \in ids <=> \E t \in DOMAIN inst.tabs : id \in S(t)
  BY <1>1
<1> HIDE DEF ids, S, D
<1>3. ids = D <=> (\A t \in DOMAIN inst.tabs : S(t) \subseteq D) /\ (\A id \in D : \E t \in DOMAIN inst.tabs : id \in S(t))
  BY <1>2
<1> QED BY <1>1, <1>3 DEF EachItsOwn, Owned, ids, S, D

(* What an id is put into, before or after others, and taken from.         *)
LEMMA IdAppended ==
  ASSUME NEW next \in Nat
  PROVE  IdsSound(<<next>>, next + 1) /\ ToSet(<<next>>) = {next}
BY OneItem DEF IdsSound, ToSet

LEMMA IdInserted ==
  ASSUME NEW ids, NEW next, IdsSound(ids, next), NEW i \in DOMAIN ids
  PROVE  IdsSound(InsertAt(ids, i + 1, next), next + 1) /\ ToSet(InsertAt(ids, i + 1, next)) = ToSet(ids) \cup {next}
<1> DEFINE S == {ids[j] : j \in 1 .. Len(ids)}
           n == Len(ids)
           before == SubSeq(ids, 1, i)
           after == SubSeq(ids, i + 1, n)
           new == before \o <<next>> \o after
<1>1. ids \in Seq(S) /\ DOMAIN ids = 1 .. n /\ n \in Nat /\ i \in 1 .. n /\ next \in Nat
  BY SeqOfItems DEF IdsSound
<1>2. InsertAt(ids, i + 1, next) = new
  <2>1. InsertAt(ids, i + 1, next) = SubSeq(ids, 1, (i + 1) - 1) \o <<next>> \o SubSeq(ids, i + 1, n)
    BY DEF InsertAt
  <2>2. (i + 1) - 1 = i
    BY <1>1
  <2> QED BY <2>1, <2>2
<1>3. /\ before \in Seq(S) /\ Len(before) = i /\ \A j \in 1 .. i : before[j] = ids[j]
      /\ after \in Seq(S) /\ Len(after) = n - i /\ \A j \in 1 .. (n - i) : after[j] = ids[i + j]
  <2> HIDE DEF S
  <2> QED BY <1>1
<1> HIDE DEF before, after, S
<1> DEFINE T == S \cup {next}
           first == before \o <<next>>
<1>4. /\ before \in Seq(T) /\ after \in Seq(T) /\ <<next>> \in Seq(T)
  BY <1>3
<1> HIDE DEF T
<1>5. /\ first \in Seq(T) /\ Len(first) = i + 1 /\ \A j \in 1 .. i : first[j] = ids[j]
      /\ first[i + 1] = next
  BY <1>1, <1>3, <1>4
<1> HIDE DEF first
<1> DEFINE Of(j) == IF j <= i THEN ids[j] ELSE IF j = i + 1 THEN next ELSE ids[j - 1]
<1>6. new \in Seq(T) /\ Len(new) = n + 1 /\ \A j \in 1 .. n + 1 : new[j] = Of(j)
  <2>1. new = first \o after
    BY DEF first
  <2>4. first \in Seq(T) /\ after \in Seq(T) /\ Len(first) = i + 1 /\ Len(after) = n - i /\ i \in Nat /\ n - i \in Nat
    BY <1>1, <1>3, <1>4, <1>5
  <2>5. Len(first) + Len(after) = n + 1
    BY <2>4, <1>1
  <2>2. first \o after \in Seq(T) /\ Len(first \o after) = n + 1
    BY <2>4, <2>5
  <2>3. ASSUME NEW j \in 1 .. n + 1 PROVE (first \o after)[j] = Of(j)
    <3>1. (first \o after)[j] = IF j <= i + 1 THEN first[j] ELSE after[j - (i + 1)]
      <4>1. j \in 1 .. Len(first) + Len(after)
        BY <2>5
      <4>2. (first \o after)[j] = IF j <= Len(first) THEN first[j] ELSE after[j - Len(first)]
        BY <2>4, <4>1
      <4> QED BY <2>4, <4>2
    <3>2. CASE j <= i
      BY <3>1, <3>2, <1>1, <1>5
    <3>3. CASE j = i + 1
      BY <3>1, <3>3, <1>1, <1>5
    <3>4. CASE j > i + 1
      <4>1. j - (i + 1) \in 1 .. (n - i) /\ i + (j - (i + 1)) = j - 1
        BY <3>4, <1>1
      <4>2. after[j - (i + 1)] = ids[j - 1]
        BY <4>1, <1>3
      <4>3. ~(j <= i + 1) /\ ~(j <= i) /\ j # i + 1
        BY <3>4, <1>1
      <4> QED BY <3>1, <4>2, <4>3
    <3>5. j <= i \/ j = i + 1 \/ j > i + 1
      BY <1>1
    <3> QED BY <3>2, <3>3, <3>4, <3>5
  <2> HIDE DEF new, Of
  <2> QED BY <2>1, <2>2, <2>3
<1> HIDE DEF new
<1>7. DOMAIN new = 1 .. n + 1 /\ IsSeq(new)
  BY <1>1, <1>6, ItemsOfSeq
<1>8. \A j \in 1 .. n : ids[j] \in Nat /\ ids[j] < next
  BY <1>1 DEF IdsSound
<1>9. \A j, k \in 1 .. n : ids[j] = ids[k] => j = k
  BY <1>1 DEF IdsSound
<1>10. \A j \in 1 .. n + 1 : \/ j <= i /\ j \in 1 .. n /\ new[j] = ids[j]
                             \/ j = i + 1 /\ new[j] = next
                             \/ j > i + 1 /\ j - 1 \in 1 .. n /\ new[j] = ids[j - 1]
  BY <1>1, <1>6
<1>11. IdsSound(new, next + 1)
  <2>1. next + 1 \in Nat /\ \A j \in 1 .. n + 1 : new[j] \in Nat /\ new[j] < next + 1
    BY <1>1, <1>8, <1>10
  <2>2. ASSUME NEW j \in 1 .. n + 1, NEW k \in 1 .. n + 1, new[j] = new[k] PROVE j = k
    BY <2>2, <1>1, <1>8, <1>9, <1>10
  <2> QED BY <2>1, <2>2, <1>7 DEF IdsSound
<1>12. ToSet(new) = ToSet(ids) \cup {next}
  <2>1. \A j \in 1 .. n : \E k \in 1 .. n + 1 : new[k] = ids[j]
    <3> TAKE j \in 1 .. n
    <3>1. CASE j <= i
      BY <3>1, <1>1, <1>6
    <3>2. CASE j > i
      <4>1. j + 1 \in 1 .. n + 1 /\ new[j + 1] = ids[j]
        BY <3>2, <1>1, <1>6
      <4> QED BY <4>1
    <3> QED BY <3>1, <3>2, <1>1
  <2>2. i + 1 \in 1 .. n + 1 /\ new[i + 1] = next
    BY <1>1, <1>6
  <2>3. ToSet(new) = {new[k] : k \in 1 .. n + 1} /\ ToSet(ids) = {ids[k] : k \in 1 .. n}
    BY <1>1, <1>7 DEF ToSet
  <2>4. \A k \in 1 .. n + 1 : new[k] = next \/ \E j \in 1 .. n : new[k] = ids[j]
    BY <1>10
  <2> HIDE <1>10
  <2> QED BY <2>1, <2>2, <2>3, <2>4
<1> QED BY <1>2, <1>11, <1>12

LEMMA IdRemoved ==
  ASSUME NEW ids, NEW next, IdsSound(ids, next), NEW i \in DOMAIN ids
  PROVE  IdsSound(RemoveAt(ids, i), next) /\ ToSet(RemoveAt(ids, i)) = ToSet(ids) \ {ids[i]}
<1> DEFINE n == Len(ids)
           From(j) == IF j < i THEN j ELSE j + 1
           new == RemoveAt(ids, i)
<1>1. /\ DOMAIN ids = 1 .. n /\ n \in Nat /\ i \in 1 .. n /\ next \in Nat
      /\ IsSeq(new) /\ DOMAIN new = 1 .. (n - 1) /\ \A j \in 1 .. (n - 1) : new[j] = ids[From(j)]
  BY SeqOfItems, SeqRemoved DEF IdsSound
<1> HIDE DEF new
<1>2. /\ \A j \in 1 .. (n - 1) : From(j) \in 1 .. n /\ From(j) # i
      /\ \A j, k \in 1 .. (n - 1) : From(j) = From(k) => j = k
      /\ \A j \in 1 .. n : j # i => \E k \in 1 .. (n - 1) : From(k) = j
  <2>1. ASSUME NEW j \in 1 .. n, j # i PROVE \E k \in 1 .. (n - 1) : From(k) = j
    <3>1. CASE j < i
      BY <3>1, <1>1
    <3>2. CASE j > i
      <4>1. j - 1 \in 1 .. (n - 1) /\ From(j - 1) = j
        BY <3>2, <1>1
      <4> QED BY <4>1
    <3> QED BY <2>1, <3>1, <3>2, <1>1
  <2> QED BY <2>1, <1>1
<1> HIDE DEF From
<1>3. IdsSound(new, next)
  BY <1>1, <1>2 DEF IdsSound
<1>4. ToSet(new) = ToSet(ids) \ {ids[i]}
  <2>1. ToSet(new) = {new[k] : k \in 1 .. (n - 1)} /\ ToSet(ids) = {ids[k] : k \in 1 .. n}
    BY <1>1 DEF ToSet
  <2>2. \A j \in 1 .. n : ids[j] = ids[i] => j = i
    BY <1>1 DEF IdsSound
  <2>3. \A k \in 1 .. (n - 1) : new[k] # ids[i] /\ \E j \in 1 .. n : new[k] = ids[j]
    BY <1>1, <1>2, <2>2
  <2>4. \A j \in 1 .. n : ids[j] # ids[i] => \E k \in 1 .. (n - 1) : new[k] = ids[j]
    <3> SUFFICES ASSUME NEW j \in 1 .. n, ids[j] # ids[i] PROVE \E k \in 1 .. (n - 1) : new[k] = ids[j]
      OBVIOUS
    <3>1. PICK k \in 1 .. (n - 1) : From(k) = j
      BY <1>2
    <3> QED BY <3>1, <1>1
  <2> QED BY <2>1, <2>3, <2>4
<1> QED BY <1>3, <1>4 DEF new

-----------------------------------------------------------------------------
(* Edits.                                                                  *)

(* A sound instance with the id, the name and the file it had.             *)
EditOf(new, inst) ==
  /\ InstanceSound(new)
  /\ new.id = inst.id /\ new.name = inst.name /\ new.saved = inst.saved /\ new.path = inst.path /\ new.cut = inst.cut

(* What an instance is edited to, given its tabs and records.              *)
Edition(new, inst) ==
  /\ IsInstance(new) /\ new.next \in Nat
  /\ new.id = inst.id /\ new.name = inst.name /\ new.saved = inst.saved /\ new.path = inst.path /\ new.cut = inst.cut

LEMMA EditionSound ==
  ASSUME NEW inst, InstanceSound(inst), NEW new, Edition(new, inst), TabsSound(new.tabs), RecordsSound(new.panes),
         new.collided \/ Owned(new.tabs, DOMAIN new.panes)
  PROVE  EditOf(new, inst)
BY DEF InstanceSound, Edition, EditOf

LEMMA TabReplaced ==
  ASSUME NEW tabs, TabsSound(tabs), NEW t \in DOMAIN tabs, NEW tab, TabSound(tab)
  PROVE  /\ TabsSound([tabs EXCEPT ![t] = tab])
         /\ DOMAIN [tabs EXCEPT ![t] = tab] = DOMAIN tabs
         /\ [tabs EXCEPT ![t] = tab][t] = tab
         /\ \A u \in DOMAIN tabs \ {t} : [tabs EXCEPT ![t] = tab][u] = tabs[u]
<1> DEFINE new == [tabs EXCEPT ![t] = tab]
<1>1. DOMAIN tabs = 1 .. Len(tabs) /\ Len(tabs) \in Nat /\ tabs = [i \in 1 .. Len(tabs) |-> tabs[i]]
  BY DEF TabsSound, IsSeq
<1>2. /\ DOMAIN new = 1 .. Len(tabs) /\ new = [i \in 1 .. Len(tabs) |-> new[i]]
      /\ new[t] = tab /\ \A u \in DOMAIN tabs \ {t} : new[u] = tabs[u]
  BY <1>1
<1> HIDE DEF new
<1>3. IsSeq(new)
  BY <1>1, <1>2, SeqMapped
<1>4. \A u \in DOMAIN new : TabSound(new[u])
  BY <1>1, <1>2 DEF TabsSound
<1> QED BY <1>1, <1>2, <1>3, <1>4 DEF TabsSound, new

LEMMA RecordSet ==
  ASSUME NEW records, RecordsSound(records), NEW id, NEW name, NEW profile
  PROVE  LET new == With(records, id, [name |-> name, profile |-> profile])
         IN  RecordsSound(new) /\ DOMAIN new = DOMAIN records \cup {id}
<1> DEFINE record == [name |-> name, profile |-> profile]
           new == With(records, id, record)
<1>1. record = [name |-> record.name, profile |-> record.profile]
  OBVIOUS
<1> HIDE DEF record
<1>2. DOMAIN new = DOMAIN records \cup {id} /\ \A p \in DOMAIN new : new[p] = IF p = id THEN record ELSE records[p]
  BY DEF With
<1> HIDE DEF new
<1>3. RecordsSound(new)
  BY <1>1, <1>2 DEF RecordsSound
<1> QED BY <1>2, <1>3 DEF new, record

LEMMA RecordsLeft ==
  ASSUME NEW records, RecordsSound(records), NEW ids
  PROVE  LET new == Restrict(records, DOMAIN records \ ids)
         IN  RecordsSound(new) /\ DOMAIN new = DOMAIN records \ ids
BY DEF RecordsSound, Restrict

(* An instance with a record set, and one with some forgotten.             *)
LEMMA RecordedIn ==
  ASSUME NEW inst, IsInstance(inst), RecordsSound(inst.panes), NEW id, NEW name, NEW profile
  PROVE  LET new == Recorded(inst, id, name, profile)
         IN  /\ IsInstance(new) /\ new.id = inst.id /\ new.name = inst.name /\ new.saved = inst.saved
             /\ new.path = inst.path /\ new.cut = inst.cut /\ new.next = inst.next /\ new.tabs = inst.tabs
             /\ new.collided = inst.collided
             /\ RecordsSound(new.panes) /\ DOMAIN new.panes = DOMAIN inst.panes \cup {id}
<1> DEFINE records == With(inst.panes, id, [name |-> name, profile |-> profile])
           new == [inst EXCEPT !.panes = records]
<1>1. Recorded(inst, id, name, profile) = new
  <2>1. Recorded(inst, id, name, profile) = [inst EXCEPT !.panes = With(@, id, [name |-> name, profile |-> profile])]
    BY DEF Recorded
  <2> QED BY <2>1 DEF IsInstance, Has
<1>2. RecordsSound(records) /\ DOMAIN records = DOMAIN inst.panes \cup {id}
  BY RecordSet
<1> HIDE DEF records
<1>3. /\ IsInstance(new) /\ new.id = inst.id /\ new.name = inst.name /\ new.saved = inst.saved
      /\ new.path = inst.path /\ new.cut = inst.cut /\ new.next = inst.next /\ new.tabs = inst.tabs
      /\ new.collided = inst.collided /\ new.panes = records
  BY DEF IsInstance, Has
<1> HIDE DEF new
<1> QED BY <1>1, <1>2, <1>3

LEMMA ForgottenIn ==
  ASSUME NEW inst, IsInstance(inst), RecordsSound(inst.panes), NEW ids
  PROVE  LET new == Forgotten(inst, ids)
         IN  /\ IsInstance(new) /\ new.id = inst.id /\ new.name = inst.name /\ new.saved = inst.saved
             /\ new.path = inst.path /\ new.cut = inst.cut /\ new.next = inst.next /\ new.tabs = inst.tabs
             /\ new.collided = inst.collided
             /\ RecordsSound(new.panes) /\ DOMAIN new.panes = DOMAIN inst.panes \ ids
<1> DEFINE records == Restrict(inst.panes, DOMAIN inst.panes \ ids)
           new == [inst EXCEPT !.panes = records]
<1>1. Forgotten(inst, ids) = new
  <2>1. Forgotten(inst, ids) = [inst EXCEPT !.panes = Restrict(@, DOMAIN @ \ ids)]
    BY DEF Forgotten
  <2> QED BY <2>1 DEF IsInstance, Has
<1>2. RecordsSound(records) /\ DOMAIN records = DOMAIN inst.panes \ ids
  BY RecordsLeft
<1> HIDE DEF records
<1>3. /\ IsInstance(new) /\ new.id = inst.id /\ new.name = inst.name /\ new.saved = inst.saved
      /\ new.path = inst.path /\ new.cut = inst.cut /\ new.next = inst.next /\ new.tabs = inst.tabs
      /\ new.collided = inst.collided /\ new.panes = records
  BY DEF IsInstance, Has
<1> HIDE DEF new
<1> QED BY <1>1, <1>2, <1>3

(* A pane more, in a tab that may be new: with an id of its own, unless it *)
(* collides.                                                               *)
LEMMA OneMoreOwned ==
  ASSUME NEW tabs, NEW ids, Owned(tabs, ids), NEW id, \A t \in DOMAIN tabs : id \notin ToSet(tabs[t].panes),
         NEW new, NEW u \in DOMAIN new, \A t \in DOMAIN new \ {u} : t \in DOMAIN tabs /\ new[t] = tabs[t],
         DOMAIN tabs \subseteq DOMAIN new,
         NEW those, ToSet(new[u].panes) = those \cup {id}, those = IF u \in DOMAIN tabs THEN ToSet(tabs[u].panes) ELSE {}
  PROVE  Owned(new, ids \cup {id})
<1> DEFINE S(t) == ToSet(tabs[t].panes)
           N(t) == ToSet(new[t].panes)
<1>1. /\ \A t \in DOMAIN tabs : S(t) \subseteq ids
      /\ \A p \in ids : \E t \in DOMAIN tabs : p \in S(t)
      /\ \A t, v \in DOMAIN tabs : t # v => S(t) \cap S(v) = {}
      /\ \A t \in DOMAIN tabs : id \notin S(t)
  BY DEF Owned
<1>2. /\ \A t \in DOMAIN new \ {u} : t \in DOMAIN tabs /\ N(t) = S(t)
      /\ N(u) = those \cup {id} /\ those = IF u \in DOMAIN tabs THEN S(u) ELSE {}
  OBVIOUS
<1> HIDE DEF S, N
<1>3. \A t \in DOMAIN new : N(t) \subseteq ids \cup {id}
  BY <1>1, <1>2
<1>4. ASSUME NEW p \in ids \cup {id} PROVE \E t \in DOMAIN new : p \in N(t)
  <2>1. CASE p = id
    BY <2>1, <1>2
  <2>2. CASE p # id
    <3>1. PICK t \in DOMAIN tabs : p \in S(t)
      BY <2>2, <1>1
    <3>2. p \in N(t) /\ t \in DOMAIN new
      BY <3>1, <1>2
    <3> QED BY <3>2
  <2> QED BY <2>1, <2>2
<1>5. ASSUME NEW t \in DOMAIN new, NEW v \in DOMAIN new, t # v PROVE N(t) \cap N(v) = {}
  <2>1. CASE t # u /\ v # u
    BY <2>1, <1>1, <1>2, <1>5
  <2>2. ASSUME NEW w \in DOMAIN new \ {u} PROVE N(w) \cap N(u) = {}
    BY <1>1, <1>2
  <2> QED BY <2>1, <2>2, <1>5
<1> QED BY <1>3, <1>4, <1>5 DEF Owned, N

SplitOf(inst, t, i, profile) ==
  LET id == inst.tabs[t].next
      tab == [inst.tabs[t] EXCEPT !.panes = InsertAt(@, i + 1, id), !.next = @ + 1]
      with == [inst EXCEPT !.tabs[t] = tab, !.collided = @ \/ id \in PaneIdsOf(inst)]
  IN  Recorded(with, id, PaneName(id), profile)

LEMMA SplitEdits ==
  ASSUME NEW inst, InstanceSound(inst), NEW t \in DOMAIN inst.tabs, NEW i \in DOMAIN inst.tabs[t].panes, NEW profile
  PROVE  EditOf(SplitOf(inst, t, i, profile), inst)
<1> DEFINE old == inst.tabs[t]
           id == old.next
           ids == InsertAt(old.panes, i + 1, id)
           tab == [old EXCEPT !.panes = InsertAt(@, i + 1, id), !.next = @ + 1]
           tabs == [inst.tabs EXCEPT ![t] = tab]
           dropped == id \in PaneIdsOf(inst)
           with == [inst EXCEPT !.tabs[t] = tab, !.collided = @ \/ dropped]
           new == Recorded(with, id, PaneName(id), profile)
<1>1. /\ IsInstance(inst) /\ TabsSound(inst.tabs) /\ RecordsSound(inst.panes) /\ inst.next \in Nat
      /\ inst.collided \/ Owned(inst.tabs, DOMAIN inst.panes)
  BY DEF InstanceSound
<1>2. IsTab(old) /\ IdsSound(old.panes, id) /\ id \in Nat
  BY <1>1 DEF TabsSound, TabSound, IdsSound
<1>3. IdsSound(ids, id + 1) /\ ToSet(ids) = ToSet(old.panes) \cup {id}
  BY <1>2, IdInserted
<1>4. IsTab(tab) /\ tab.panes = ids /\ tab.next = id + 1
  <2> HIDE DEF old
  <2> QED BY <1>2 DEF IsTab, Has
<1>5. TabSound(tab)
  <2> HIDE DEF tab, ids, id
  <2> QED BY <1>3, <1>4 DEF TabSound
<1> HIDE DEF tab
<1>6. /\ TabsSound(tabs) /\ DOMAIN tabs = DOMAIN inst.tabs /\ tabs[t] = tab
      /\ \A u \in DOMAIN tabs \ {t} : tabs[u] = inst.tabs[u]
  BY <1>1, <1>5, TabReplaced
<1>7. /\ IsInstance(with) /\ with.id = inst.id /\ with.name = inst.name /\ with.saved = inst.saved
      /\ with.path = inst.path /\ with.cut = inst.cut /\ with.next = inst.next /\ with.panes = inst.panes
      /\ with.tabs = tabs /\ with.collided = (inst.collided \/ dropped)
  <2> HIDE DEF dropped
  <2> QED BY <1>1 DEF IsInstance, Has
<1> HIDE DEF with, tabs
<1>8. /\ IsInstance(new) /\ new.id = inst.id /\ new.name = inst.name /\ new.saved = inst.saved
      /\ new.path = inst.path /\ new.cut = inst.cut /\ new.next = inst.next /\ new.tabs = tabs
      /\ new.collided = (inst.collided \/ dropped)
      /\ RecordsSound(new.panes) /\ DOMAIN new.panes = DOMAIN inst.panes \cup {id}
  BY <1>1, <1>7, RecordedIn
<1>9. new.collided \/ Owned(new.tabs, DOMAIN new.panes)
  <2> SUFFICES ASSUME ~inst.collided, ~dropped PROVE Owned(tabs, DOMAIN inst.panes \cup {id})
    BY <1>8
  <2>1. Owned(inst.tabs, DOMAIN inst.panes)
    BY <1>1
  <2>2. \A u \in DOMAIN inst.tabs : id \notin ToSet(inst.tabs[u].panes)
    BY OwnedAs DEF dropped
  <2>3. ToSet(tabs[t].panes) = ToSet(inst.tabs[t].panes) \cup {id}
    BY <1>3, <1>4, <1>6
  <2> HIDE DEF id
  <2> QED BY <1>6, <2>1, <2>2, <2>3, OneMoreOwned
<1> HIDE DEF new, id
<1>10. Edition(new, inst)
  BY <1>1, <1>8 DEF Edition
<1>11. EditOf(new, inst)
  BY <1>6, <1>8, <1>9, <1>10, EditionSound
<1> QED BY <1>11 DEF SplitOf, new, with, tab, id

NewTabOf(inst, profile) ==
  LET id == inst.next
      tab == [name |-> TabName(Len(inst.tabs) + 1), panes |-> <<id>>, next |-> id + 1]
      with == [inst EXCEPT !.tabs = Append(@, tab), !.next = @ + 1, !.collided = @ \/ id \in PaneIdsOf(inst)]
  IN  Recorded(with, id, PaneName(id), profile)

LEMMA NewTabEdits ==
  ASSUME NEW inst, InstanceSound(inst), NEW profile
  PROVE  EditOf(NewTabOf(inst, profile), inst)
<1> DEFINE id == inst.next
           name == TabName(Len(inst.tabs) + 1)
           tab == [name |-> name, panes |-> <<id>>, next |-> id + 1]
           tabs == Append(inst.tabs, tab)
           dropped == id \in PaneIdsOf(inst)
           with == [inst EXCEPT !.tabs = Append(@, tab), !.next = @ + 1, !.collided = @ \/ dropped]
           new == Recorded(with, id, PaneName(id), profile)
           n == Len(inst.tabs)
<1>1. /\ IsInstance(inst) /\ TabsSound(inst.tabs) /\ RecordsSound(inst.panes) /\ id \in Nat
      /\ inst.collided \/ Owned(inst.tabs, DOMAIN inst.panes)
  BY DEF InstanceSound
<1>2. IsTab(tab) /\ tab.panes = <<id>> /\ tab.next = id + 1
  <2> HIDE DEF name
  <2> QED BY DEF IsTab, Has
<1>3. TabSound(tab) /\ ToSet(tab.panes) = {id}
  <2> HIDE DEF tab, id
  <2> QED BY <1>1, <1>2, IdAppended DEF TabSound
<1> HIDE DEF tab
<1>4. /\ IsSeq(tabs) /\ DOMAIN tabs = 1 .. n + 1 /\ DOMAIN inst.tabs = 1 .. n /\ n \in Nat
      /\ (\A t \in 1 .. n : tabs[t] = inst.tabs[t]) /\ tabs[n + 1] = tab
  BY <1>1, SeqAppended, SeqOfItems DEF TabsSound
<1>5. /\ IsInstance(with) /\ with.id = inst.id /\ with.name = inst.name /\ with.saved = inst.saved
      /\ with.path = inst.path /\ with.cut = inst.cut /\ with.next = id + 1 /\ with.panes = inst.panes
      /\ with.tabs = tabs /\ with.collided = (inst.collided \/ dropped)
  <2> HIDE DEF dropped
  <2> QED BY <1>1 DEF IsInstance, Has
<1> HIDE DEF with, tabs
<1>6. TabsSound(tabs)
  <2>1. \A t \in 1 .. n + 1 : t \in 1 .. n \/ t = n + 1
    BY <1>4
  <2> QED BY <2>1, <1>1, <1>3, <1>4 DEF TabsSound
<1>7. /\ IsInstance(new) /\ new.id = inst.id /\ new.name = inst.name /\ new.saved = inst.saved
      /\ new.path = inst.path /\ new.cut = inst.cut /\ new.next = id + 1 /\ new.tabs = tabs
      /\ new.collided = (inst.collided \/ dropped)
      /\ RecordsSound(new.panes) /\ DOMAIN new.panes = DOMAIN inst.panes \cup {id}
  BY <1>1, <1>5, RecordedIn
<1>8. new.collided \/ Owned(new.tabs, DOMAIN new.panes)
  <2> SUFFICES ASSUME ~inst.collided, ~dropped PROVE Owned(tabs, DOMAIN inst.panes \cup {id})
    BY <1>7
  <2>1. Owned(inst.tabs, DOMAIN inst.panes)
    BY <1>1
  <2>2. \A u \in DOMAIN inst.tabs : id \notin ToSet(inst.tabs[u].panes)
    BY OwnedAs DEF dropped
  <2> DEFINE u == n + 1
  <2>3. /\ u \in DOMAIN tabs /\ u \notin DOMAIN inst.tabs /\ ToSet(tabs[u].panes) = {} \cup {id}
        /\ DOMAIN inst.tabs \subseteq DOMAIN tabs
        /\ \A t \in DOMAIN tabs \ {u} : t \in DOMAIN inst.tabs /\ tabs[t] = inst.tabs[t]
    <3>1. \A t \in 1 .. n + 1 : t # n + 1 => t \in 1 .. n
      BY <1>4
    <3>2. n + 1 \in 1 .. n + 1 /\ n + 1 \notin 1 .. n /\ 1 .. n \subseteq 1 .. n + 1
      BY <1>4
    <3> HIDE DEF n
    <3> QED BY <3>1, <3>2, <1>3, <1>4
  <2> HIDE DEF id, u
  <2> QED BY <2>1, <2>2, <2>3, OneMoreOwned
<1> HIDE DEF new
<1>9. Edition(new, inst)
  BY <1>1, <1>7 DEF Edition
<1>10. EditOf(new, inst)
  BY <1>6, <1>7, <1>8, <1>9, EditionSound
<1> QED BY <1>10 DEF NewTabOf, new, with, tab

(* Panes that go, with all of their tab or alone.                          *)
TabClosedOf(inst, t) == Forgotten([inst EXCEPT !.tabs = RemoveAt(@, t)], ToSet(inst.tabs[t].panes))

LEMMA CloseTabEdits ==
  ASSUME NEW inst, InstanceSound(inst), NEW t \in DOMAIN inst.tabs
  PROVE  EditOf(TabClosedOf(inst, t), inst)
<1> DEFINE tabs == RemoveAt(inst.tabs, t)
           with == [inst EXCEPT !.tabs = RemoveAt(@, t)]
           ids == ToSet(inst.tabs[t].panes)
           new == Forgotten(with, ids)
           n == Len(inst.tabs)
           From(u) == IF u < t THEN u ELSE u + 1
<1>1. /\ IsInstance(inst) /\ TabsSound(inst.tabs) /\ RecordsSound(inst.panes) /\ inst.next \in Nat
      /\ inst.collided \/ Owned(inst.tabs, DOMAIN inst.panes)
  BY DEF InstanceSound
<1>2. /\ IsSeq(tabs) /\ DOMAIN tabs = 1 .. (n - 1) /\ DOMAIN inst.tabs = 1 .. n /\ n \in Nat
      /\ \A u \in 1 .. (n - 1) : tabs[u] = inst.tabs[From(u)]
  BY <1>1, SeqRemoved, SeqOfItems DEF TabsSound
<1>3. /\ IsInstance(with) /\ with.id = inst.id /\ with.name = inst.name /\ with.saved = inst.saved
      /\ with.path = inst.path /\ with.cut = inst.cut /\ with.next = inst.next /\ with.panes = inst.panes
      /\ with.tabs = tabs /\ with.collided = inst.collided
  BY <1>1 DEF IsInstance, Has
<1> HIDE DEF with, tabs
<1>4. /\ \A u \in 1 .. (n - 1) : From(u) \in 1 .. n /\ From(u) # t
      /\ \A u, v \in 1 .. (n - 1) : From(u) = From(v) => u = v
      /\ \A u \in 1 .. n : u # t => \E v \in 1 .. (n - 1) : From(v) = u
  <2>1. t \in 1 .. n
    BY <1>2
  <2>2. ASSUME NEW u \in 1 .. n, u # t PROVE \E v \in 1 .. (n - 1) : From(v) = u
    <3>1. CASE u < t
      <4>1. u \in 1 .. (n - 1) /\ From(u) = u
        BY <3>1, <2>1, <1>2
      <4> QED BY <4>1
    <3>2. CASE u > t
      <4>1. u - 1 \in 1 .. (n - 1) /\ From(u - 1) = u
        BY <3>2, <2>1, <1>2
      <4> QED BY <4>1
    <3> QED BY <2>1, <2>2, <3>1, <3>2, <1>2
  <2>3. ASSUME NEW u \in 1 .. (n - 1), NEW v \in 1 .. (n - 1), From(u) = From(v) PROVE u = v
    BY <2>1, <2>3, <1>2
  <2>4. ASSUME NEW u \in 1 .. (n - 1) PROVE From(u) \in 1 .. n /\ From(u) # t
    BY <2>1, <1>2
  <2> QED BY <2>2, <2>3, <2>4
<1> HIDE DEF From
<1>5. TabsSound(tabs)
  BY <1>1, <1>2, <1>4 DEF TabsSound
<1>6. /\ IsInstance(new) /\ new.id = inst.id /\ new.name = inst.name /\ new.saved = inst.saved
      /\ new.path = inst.path /\ new.cut = inst.cut /\ new.next = inst.next /\ new.tabs = tabs
      /\ new.collided = inst.collided
      /\ RecordsSound(new.panes) /\ DOMAIN new.panes = DOMAIN inst.panes \ ids
  BY <1>1, <1>3, ForgottenIn
<1>7. ASSUME ~inst.collided PROVE Owned(tabs, DOMAIN inst.panes \ ids)
  <2> DEFINE S(u) == ToSet(inst.tabs[u].panes)
             N(u) == ToSet(tabs[u].panes)
             D == DOMAIN inst.panes
  <2>1. /\ \A u \in 1 .. n : S(u) \subseteq D
        /\ \A p \in D : \E u \in 1 .. n : p \in S(u)
        /\ \A u, v \in 1 .. n : u # v => S(u) \cap S(v) = {}
    BY <1>1, <1>2, <1>7 DEF Owned
  <2>2. /\ \A u \in 1 .. (n - 1) : N(u) = S(From(u))
        /\ ids = S(t) /\ t \in 1 .. n
    BY <1>2
  <2> HIDE DEF S, N, D, ids
  <2>3. \A u \in 1 .. (n - 1) : N(u) \subseteq D \ ids
    BY <2>1, <2>2, <1>4
  <2>4. ASSUME NEW p \in D \ ids PROVE \E u \in 1 .. (n - 1) : p \in N(u)
    <3>1. PICK u \in 1 .. n : p \in S(u)
      BY <2>1
    <3>2. u # t
      BY <3>1, <2>2
    <3>3. PICK v \in 1 .. (n - 1) : From(v) = u
      BY <3>2, <1>4
    <3> QED BY <3>1, <3>3, <2>2
  <2>5. \A u, v \in 1 .. (n - 1) : u # v => N(u) \cap N(v) = {}
    BY <2>1, <2>2, <1>4
  <2> QED BY <2>3, <2>4, <2>5, <1>2 DEF Owned, N, D
<1> HIDE DEF new, ids
<1>8. new.collided \/ Owned(new.tabs, DOMAIN new.panes)
  BY <1>6, <1>7
<1>9. Edition(new, inst)
  BY <1>1, <1>6 DEF Edition
<1>10. EditOf(new, inst)
  BY <1>5, <1>6, <1>8, <1>9, EditionSound
<1> QED BY <1>10 DEF TabClosedOf, new, with, ids

PaneClosedOf(inst, t, i) == Forgotten([inst EXCEPT !.tabs[t].panes = RemoveAt(@, i)], {inst.tabs[t].panes[i]})

LEMMA ClosePaneEdits ==
  ASSUME NEW inst, InstanceSound(inst), NEW t \in DOMAIN inst.tabs, NEW i \in DOMAIN inst.tabs[t].panes
  PROVE  EditOf(PaneClosedOf(inst, t, i), inst)
<1> DEFINE old == inst.tabs[t]
           ids == RemoveAt(old.panes, i)
           id == old.panes[i]
           tab == [old EXCEPT !.panes = RemoveAt(@, i)]
           tabs == [inst.tabs EXCEPT ![t] = tab]
           with == [inst EXCEPT !.tabs[t].panes = RemoveAt(@, i)]
           new == Forgotten(with, {id})
<1>1. /\ IsInstance(inst) /\ TabsSound(inst.tabs) /\ RecordsSound(inst.panes) /\ inst.next \in Nat
      /\ inst.collided \/ Owned(inst.tabs, DOMAIN inst.panes)
  BY DEF InstanceSound
<1>2. IsTab(old) /\ IdsSound(old.panes, old.next)
  BY <1>1 DEF TabsSound, TabSound
<1>3. IdsSound(ids, old.next) /\ ToSet(ids) = ToSet(old.panes) \ {id}
  BY <1>2, IdRemoved
<1>4. IsTab(tab) /\ tab.panes = ids /\ tab.next = old.next
  <2> HIDE DEF old
  <2> QED BY <1>2 DEF IsTab, Has
<1>5. TabSound(tab)
  <2> HIDE DEF tab, ids
  <2> QED BY <1>3, <1>4 DEF TabSound
<1>6. /\ IsInstance(with) /\ with.id = inst.id /\ with.name = inst.name /\ with.saved = inst.saved
      /\ with.path = inst.path /\ with.cut = inst.cut /\ with.next = inst.next /\ with.panes = inst.panes
      /\ with.tabs = tabs /\ with.collided = inst.collided
  BY <1>1 DEF IsInstance, Has
<1> HIDE DEF tab, with
<1>7. /\ TabsSound(tabs) /\ DOMAIN tabs = DOMAIN inst.tabs /\ tabs[t] = tab
      /\ \A u \in DOMAIN tabs \ {t} : tabs[u] = inst.tabs[u]
  BY <1>1, <1>5, TabReplaced
<1> HIDE DEF tabs
<1>8. /\ IsInstance(new) /\ new.id = inst.id /\ new.name = inst.name /\ new.saved = inst.saved
      /\ new.path = inst.path /\ new.cut = inst.cut /\ new.next = inst.next /\ new.tabs = tabs
      /\ new.collided = inst.collided
      /\ RecordsSound(new.panes) /\ DOMAIN new.panes = DOMAIN inst.panes \ {id}
  BY <1>1, <1>6, ForgottenIn
<1>9. ASSUME ~inst.collided PROVE Owned(tabs, DOMAIN inst.panes \ {id})
  <2> DEFINE S(u) == ToSet(inst.tabs[u].panes)
             N(u) == ToSet(tabs[u].panes)
             D == DOMAIN inst.panes
             T == DOMAIN inst.tabs
  <2>1. /\ \A u \in T : S(u) \subseteq D
        /\ \A p \in D : \E u \in T : p \in S(u)
        /\ \A u, v \in T : u # v => S(u) \cap S(v) = {}
    BY <1>1, <1>9 DEF Owned
  <2>2. /\ N(t) = S(t) \ {id} /\ id \in S(t) /\ DOMAIN tabs = T
        /\ \A u \in T \ {t} : N(u) = S(u)
    <3>1. id \in ToSet(old.panes)
      BY DEF ToSet
    <3> QED BY <3>1, <1>3, <1>4, <1>7
  <2>3. t \in T
    OBVIOUS
  <2> HIDE DEF S, N, D, T, id
  <2>4. \A u \in T : N(u) = S(u) \ {id}
    BY <2>1, <2>2, <2>3
  <2>5. /\ \A u \in T : N(u) \subseteq D \ {id}
        /\ \A p \in D \ {id} : \E u \in T : p \in N(u)
        /\ \A u, v \in T : u # v => N(u) \cap N(v) = {}
    BY <2>1, <2>4
  <2> QED BY <2>2, <2>5 DEF Owned, N, D
<1> HIDE DEF new, id
<1>10. new.collided \/ Owned(new.tabs, DOMAIN new.panes)
  BY <1>8, <1>9
<1>11. Edition(new, inst)
  BY <1>1, <1>8 DEF Edition
<1>12. EditOf(new, inst)
  BY <1>7, <1>8, <1>10, <1>11, EditionSound
<1> QED BY <1>12 DEF PaneClosedOf, new, with, id

(* Names and profiles that are set.                                        *)
LEMMA RenameTabEdits ==
  ASSUME NEW inst, InstanceSound(inst), NEW t \in DOMAIN inst.tabs, NEW name
  PROVE  EditOf([inst EXCEPT !.tabs[t].name = name], inst)
<1> DEFINE old == inst.tabs[t]
           tab == [old EXCEPT !.name = name]
           tabs == [inst.tabs EXCEPT ![t] = tab]
           new == [inst EXCEPT !.tabs[t].name = name]
<1>1. /\ IsInstance(inst) /\ TabsSound(inst.tabs) /\ RecordsSound(inst.panes) /\ inst.next \in Nat
      /\ inst.collided \/ Owned(inst.tabs, DOMAIN inst.panes)
  BY DEF InstanceSound
<1>2. IsTab(old) /\ IdsSound(old.panes, old.next)
  BY <1>1 DEF TabsSound, TabSound
<1>3. IsTab(tab) /\ tab.panes = old.panes /\ tab.next = old.next
  <2> HIDE DEF old
  <2> QED BY <1>2 DEF IsTab, Has
<1>4. TabSound(tab)
  <2> HIDE DEF tab, old
  <2> QED BY <1>2, <1>3 DEF TabSound
<1>5. /\ IsInstance(new) /\ new.id = inst.id /\ new.name = inst.name /\ new.saved = inst.saved
      /\ new.path = inst.path /\ new.cut = inst.cut /\ new.next = inst.next /\ new.panes = inst.panes
      /\ new.tabs = tabs /\ new.collided = inst.collided
  BY <1>1 DEF IsInstance, Has
<1> HIDE DEF tab, new
<1>6. /\ TabsSound(tabs) /\ DOMAIN tabs = DOMAIN inst.tabs /\ tabs[t] = tab
      /\ \A u \in DOMAIN tabs \ {t} : tabs[u] = inst.tabs[u]
  BY <1>1, <1>4, TabReplaced
<1> HIDE DEF tabs
<1>7. \A u \in DOMAIN tabs : tabs[u].panes = inst.tabs[u].panes
  BY <1>3, <1>6
<1>8. new.collided \/ Owned(new.tabs, DOMAIN new.panes)
  BY <1>1, <1>5, <1>6, <1>7 DEF Owned
<1>9. Edition(new, inst)
  BY <1>1, <1>5 DEF Edition
<1>10. EditOf(new, inst)
  BY <1>1, <1>5, <1>6, <1>8, <1>9, EditionSound
<1> QED BY <1>10 DEF new

LEMMA RecordEdits ==
  ASSUME NEW inst, InstanceSound(inst), NEW id, NEW name, NEW profile,
         id \in DOMAIN inst.panes \/ \E t \in DOMAIN inst.tabs : id \in ToSet(inst.tabs[t].panes)
  PROVE  EditOf(Recorded(inst, id, name, profile), inst)
<1> DEFINE new == Recorded(inst, id, name, profile)
<1>1. /\ IsInstance(inst) /\ TabsSound(inst.tabs) /\ RecordsSound(inst.panes) /\ inst.next \in Nat
      /\ inst.collided \/ Owned(inst.tabs, DOMAIN inst.panes)
  BY DEF InstanceSound
<1>2. /\ IsInstance(new) /\ new.id = inst.id /\ new.name = inst.name /\ new.saved = inst.saved
      /\ new.path = inst.path /\ new.cut = inst.cut /\ new.next = inst.next /\ new.tabs = inst.tabs
      /\ new.collided = inst.collided
      /\ RecordsSound(new.panes) /\ DOMAIN new.panes = DOMAIN inst.panes \cup {id}
  BY <1>1, RecordedIn
<1> HIDE DEF new
<1>3. ASSUME ~inst.collided PROVE DOMAIN inst.panes \cup {id} = DOMAIN inst.panes
  BY <1>1, <1>3 DEF Owned
<1>4. new.collided \/ Owned(new.tabs, DOMAIN new.panes)
  BY <1>1, <1>2, <1>3
<1>5. Edition(new, inst)
  BY <1>1, <1>2 DEF Edition
<1>6. EditOf(new, inst)
  BY <1>1, <1>2, <1>4, <1>5, EditionSound
<1> QED BY <1>6 DEF new

LEMMA SameEdits ==
  ASSUME NEW inst, InstanceSound(inst)
  PROVE  EditOf(inst, inst)
BY DEF EditOf

-----------------------------------------------------------------------------
(* populate: the panes of a definition, numbered one after another.        *)

LEMMA EmptyJoined ==
  ASSUME NEW a, IsSeq(a)
  PROVE  <<>> \o a = a
<1> DEFINE S == {a[i] : i \in 1 .. Len(a)}
<1>1. a \in Seq(S)
  BY SeqOfItems
<1> HIDE DEF S
<1> QED BY <1>1, ConcatEmptySeq

LEMMA LenJoined ==
  ASSUME NEW a, IsSeq(a), NEW b, IsSeq(b)
  PROVE  /\ IsSeq(a \o b) /\ Len(a \o b) = Len(a) + Len(b) /\ Len(a) \in Nat /\ Len(b) \in Nat
         /\ \A i \in 1 .. Len(a) + Len(b) : (a \o b)[i] = IF i <= Len(a) THEN a[i] ELSE b[i - Len(a)]
<1>1. PICK S : a \in Seq(S) /\ b \in Seq(S)
  BY InOneSet
<1>2. a \o b \in Seq(S) /\ Len(a \o b) = Len(a) + Len(b) /\ Len(a) \in Nat /\ Len(b) \in Nat
  BY <1>1
<1>3. \A i \in 1 .. Len(a) + Len(b) : (a \o b)[i] = IF i <= Len(a) THEN a[i] ELSE b[i - Len(a)]
  BY <1>1
<1> QED BY <1>2, <1>3, ItemsOfSeq

PanesUpTo(tabs, m) == FlattenSeq([t \in 1 .. m |-> tabs[t].panes])

(* c counts the panes of the first tabs, and joins them one tab at a time. *)
Counts(c, tabs) ==
  /\ c[0] = 0
  /\ \A m \in 0 .. Len(tabs) : c[m] \in Nat /\ IsSeq(PanesUpTo(tabs, m)) /\ Len(PanesUpTo(tabs, m)) = c[m]
  /\ \A m \in 1 .. Len(tabs) : /\ c[m] = c[m - 1] + Len(tabs[m].panes)
                               /\ PanesUpTo(tabs, m) = PanesUpTo(tabs, m - 1) \o tabs[m].panes

LEMMA PanesCounted ==
  ASSUME NEW tabs, IsSeq(tabs), \A t \in DOMAIN tabs : IsSeq(tabs[t].panes)
  PROVE  \E c : Counts(c, tabs)
<1> DEFINE n == Len(tabs)
           s == [t \in 1 .. n |-> tabs[t].panes]
<1>1. n \in Nat /\ DOMAIN tabs = 1 .. n
  BY SeqOfItems
<1>2. PICK f : Joins(f, s, n)
  BY <1>1, Joined
<1>3. /\ n # 0 => f[1] = tabs[1].panes
      /\ \A m \in 2 .. n : f[m] = f[m - 1] \o tabs[m].panes
  <2>1. \A m \in 1 .. n : f[m] = IF m = 1 THEN s[m] ELSE f[m - 1] \o s[m]
    BY <1>2 DEF Joins
  <2>2. \A m \in 1 .. n : s[m] = tabs[m].panes
    OBVIOUS
  <2>3. n # 0 => 1 \in 1 .. n
    BY <1>1
  <2>4. \A m \in 2 .. n : m \in 1 .. n /\ m # 1
    BY <1>1
  <2> HIDE DEF s, n
  <2> QED BY <2>1, <2>2, <2>3, <2>4
<1> HIDE DEF n, s
<1>4. ASSUME NEW m \in 1 .. n PROVE PanesUpTo(tabs, m) = f[m]
  <2> DEFINE p == [t \in 1 .. m |-> tabs[t].panes]
  <2>1. m \in Nat \ {0} /\ Len(p) = m /\ \A i \in 1 .. m : p[i] = tabs[i].panes
    BY <1>1
  <2>2. \A i \in 2 .. m : i \in 2 .. n /\ i \in 1 .. m
    BY <1>1
  <2>3. 1 \in 1 .. m /\ n # 0
    BY <1>1
  <2> HIDE DEF p
  <2>4. JoinedUpTo(f, p, m)
    BY <2>1, <2>2, <2>3, <1>3 DEF JoinedUpTo
  <2>5. FlattenSeq(p) = f[m]
    BY <2>1, <2>4, FlattenAs
  <2> QED BY <2>5 DEF p, PanesUpTo
<1>5. \A m \in 1 .. n : IsSeq(f[m])
  <2> DEFINE M == {m \in Nat : m + 1 <= n => IsSeq(f[m + 1])}
  <2>1. 0 \in M
    <3>1. 0 + 1 <= n => IsSeq(f[0 + 1])
      <4>1. 0 + 1 = 1 /\ (0 + 1 <= n => 1 \in DOMAIN tabs /\ n # 0)
        BY <1>1
      <4> QED BY <4>1, <1>3
    <3> QED BY <3>1
  <2>2. ASSUME NEW m \in M PROVE m + 1 \in M
    <3>1. m \in Nat
      OBVIOUS
    <3>2. ASSUME (m + 1) + 1 <= n PROVE IsSeq(f[(m + 1) + 1])
      <4> DEFINE k == (m + 1) + 1
      <4>1. m + 1 <= n /\ k \in 2 .. n /\ k - 1 = m + 1 /\ k \in DOMAIN tabs
        BY <3>1, <3>2, <1>1
      <4>2. IsSeq(f[m + 1])
        BY <4>1
      <4> HIDE DEF k, M
      <4>3. f[k] = f[m + 1] \o tabs[k].panes /\ IsSeq(tabs[k].panes)
        BY <4>1, <1>3
      <4>4. IsSeq(f[k])
        BY <4>2, <4>3, SeqJoined
      <4> QED BY <4>4 DEF k
    <3> QED BY <3>1, <3>2
  <2>3. M = Nat
    <3>1. M \in SUBSET Nat
      OBVIOUS
    <3> HIDE DEF M
    <3> QED BY <2>1, <2>2, <3>1, SetInduction
  <2>4. ASSUME NEW m \in 1 .. n PROVE IsSeq(f[m])
    <3>1. m - 1 \in Nat /\ (m - 1) + 1 = m /\ m <= n
      BY <1>1
    <3>2. \A k \in Nat : k + 1 <= n => IsSeq(f[k + 1])
      BY <2>3
    <3>3. (m - 1) + 1 <= n => IsSeq(f[(m - 1) + 1])
      BY <3>1, <3>2
    <3> QED BY <3>1, <3>3
  <2> QED BY <2>4
<1> DEFINE c == [m \in 0 .. n |-> IF m = 0 THEN 0 ELSE Len(f[m])]
<1>6. c[0] = 0
  BY <1>1
<1>9. PanesUpTo(tabs, 0) = <<>>
  <2>1. [t \in 1 .. 0 |-> tabs[t].panes] = <<>>
    OBVIOUS
  <2>2. FlattenSeq(<<>>) = <<>>
    BY DEF FlattenSeq
  <2> QED BY <2>1, <2>2 DEF PanesUpTo
<1>7. ASSUME NEW m \in 0 .. n PROVE c[m] \in Nat /\ IsSeq(PanesUpTo(tabs, m)) /\ Len(PanesUpTo(tabs, m)) = c[m]
  <2>1. CASE m = 0
    <3> HIDE DEF c
    <3> QED BY <2>1, <1>6, <1>9, NoItems
  <2>2. CASE m # 0
    <3>1. m \in 1 .. n /\ c[m] = Len(f[m])
      BY <2>2, <1>1
    <3>2. Len(f[m]) \in Nat
      BY <3>1, <1>5, SeqOfItems
    <3> HIDE DEF c
    <3> QED BY <3>1, <3>2, <1>4, <1>5
  <2> QED BY <2>1, <2>2
<1>8. ASSUME NEW m \in 1 .. n PROVE c[m] = c[m - 1] + Len(tabs[m].panes)
  <2>1. c[m] = Len(f[m]) /\ c[m - 1] = IF m = 1 THEN 0 ELSE Len(f[m - 1])
    BY <1>1
  <2>2. IsSeq(tabs[m].panes)
    BY <1>1
  <2> HIDE DEF c
  <2>3. CASE m = 1
    <3>1. f[1] = tabs[1].panes /\ Len(tabs[1].panes) \in Nat
      BY <2>2, <2>3, <1>1, <1>3, SeqOfItems
    <3> QED BY <2>1, <2>3, <3>1
  <2>4. CASE m # 1
    <3>1. m \in 2 .. n /\ m - 1 \in 1 .. n
      BY <2>4, <1>1
    <3>2. f[m] = f[m - 1] \o tabs[m].panes /\ IsSeq(f[m - 1])
      BY <3>1, <1>3, <1>5
    <3>3. Len(f[m]) = Len(f[m - 1]) + Len(tabs[m].panes)
      BY <2>2, <3>2, LenJoined
    <3> QED BY <2>1, <2>4, <3>3
  <2> QED BY <2>3, <2>4
<1>10. ASSUME NEW m \in 1 .. n PROVE PanesUpTo(tabs, m) = PanesUpTo(tabs, m - 1) \o tabs[m].panes
  <2>1. CASE m = 1
    <3>1. f[1] = tabs[1].panes /\ IsSeq(tabs[1].panes) /\ m - 1 = 0
      BY <2>1, <1>1, <1>3
    <3>2. <<>> \o tabs[1].panes = tabs[1].panes
      BY <3>1, EmptyJoined
    <3> QED BY <2>1, <3>1, <3>2, <1>4, <1>9
  <2>2. CASE m # 1
    <3>1. m \in 2 .. n /\ m - 1 \in 1 .. n
      BY <2>2, <1>1
    <3> QED BY <3>1, <1>3, <1>4
  <2> QED BY <2>1, <2>2
<1> HIDE DEF c
<1>11. Counts(c, tabs)
  BY <1>6, <1>7, <1>8, <1>10 DEF Counts, n
<1> QED BY <1>11

LEMMA CountsGrow ==
  ASSUME NEW tabs, IsSeq(tabs), \A t \in DOMAIN tabs : IsSeq(tabs[t].panes), NEW c, Counts(c, tabs)
  PROVE  \A l, m \in 0 .. Len(tabs) : l <= m => c[l] <= c[m]
<1> DEFINE n == Len(tabs)
           M == {m \in Nat : \A l \in 0 .. n : m <= n /\ l <= m => c[l] <= c[m]}
<1>1. n \in Nat /\ DOMAIN tabs = 1 .. n
  BY SeqOfItems
<1>2. /\ \A m \in 0 .. n : c[m] \in Nat
      /\ \A m \in 1 .. n : c[m] = c[m - 1] + Len(tabs[m].panes) /\ Len(tabs[m].panes) \in Nat
  BY <1>1, SeqOfItems DEF Counts
<1> HIDE DEF n
<1>3. 0 \in M
  <2>1. \A l \in 0 .. n : l <= 0 => l = 0
    BY <1>1
  <2>2. \A l \in 0 .. n : 0 <= n /\ l <= 0 => c[l] <= c[0]
    BY <1>1, <1>2, <2>1
  <2> QED BY <2>2
<1>4. ASSUME NEW m \in M PROVE m + 1 \in M
  <2>1. m \in Nat /\ \A l \in 0 .. n : m <= n /\ l <= m => c[l] <= c[m]
    OBVIOUS
  <2>2. ASSUME NEW l \in 0 .. n, m + 1 <= n, l <= m + 1 PROVE c[l] <= c[m + 1]
    <3>1. m + 1 \in 1 .. n /\ (m + 1) - 1 = m /\ m \in 0 .. n /\ m <= n /\ m + 1 \in 0 .. n
      BY <2>1, <2>2, <1>1
    <3>2. /\ c[m + 1] = c[m] + Len(tabs[m + 1].panes) /\ Len(tabs[m + 1].panes) \in Nat
          /\ c[m] \in Nat /\ c[m + 1] \in Nat /\ c[l] \in Nat
      BY <3>1, <1>2
    <3>3. CASE l <= m
      <4>1. c[l] <= c[m]
        BY <2>1, <3>1, <3>3
      <4> QED BY <3>2, <4>1
    <3>4. CASE ~(l <= m)
      <4>1. l = m + 1
        BY <3>4, <2>1, <2>2, <1>1
      <4> QED BY <3>2, <4>1
    <3> QED BY <3>3, <3>4
  <2>3. m + 1 \in Nat
    BY <2>1
  <2> QED BY <2>2, <2>3
<1>5. M = Nat
  <2>1. M \in SUBSET Nat
    OBVIOUS
  <2> HIDE DEF M
  <2> QED BY <1>3, <1>4, <2>1, SetInduction
<1>6. ASSUME NEW l \in 0 .. n, NEW m \in 0 .. n, l <= m PROVE c[l] <= c[m]
  <2>1. m \in M /\ m <= n
    BY <1>1, <1>5
  <2> QED BY <2>1, <1>6
<1> QED BY <1>6 DEF n

(* The place of a pane among all: of which tab, and which of its panes.    *)
LEMMA Placed ==
  ASSUME NEW tabs, IsSeq(tabs), \A t \in DOMAIN tabs : IsSeq(tabs[t].panes), NEW c, Counts(c, tabs)
  PROVE  \A x \in 1 .. c[Len(tabs)] : \E t \in DOMAIN tabs : \E i \in DOMAIN tabs[t].panes :
           x = c[t - 1] + i /\ PanesUpTo(tabs, Len(tabs))[x] = tabs[t].panes[i]
<1> DEFINE n == Len(tabs)
           F(m) == PanesUpTo(tabs, m)
           P(m) == \A x \in 1 .. c[m] : \E t \in 1 .. n : \E i \in DOMAIN tabs[t].panes :
                     x = c[t - 1] + i /\ F(m)[x] = tabs[t].panes[i]
           M == {m \in Nat : m <= n => P(m)}
<1>1. /\ n \in Nat /\ DOMAIN tabs = 1 .. n
      /\ \A m \in 1 .. n : /\ IsSeq(tabs[m].panes) /\ Len(tabs[m].panes) \in Nat
                           /\ DOMAIN tabs[m].panes = 1 .. Len(tabs[m].panes)
  BY SeqOfItems
<1>2. /\ c[0] = 0
      /\ \A m \in 0 .. n : c[m] \in Nat /\ IsSeq(F(m)) /\ Len(F(m)) = c[m]
      /\ \A m \in 1 .. n : c[m] = c[m - 1] + Len(tabs[m].panes) /\ F(m) = F(m - 1) \o tabs[m].panes
  BY DEF Counts
<1> HIDE DEF n, F
<1>3. 0 \in M
  BY <1>2
<1>4. ASSUME NEW m \in M PROVE m + 1 \in M
  <2>1. m \in Nat /\ (m <= n => P(m))
    OBVIOUS
  <2>2. ASSUME m + 1 <= n, NEW x \in 1 .. c[m + 1]
        PROVE  \E t \in 1 .. n : \E i \in DOMAIN tabs[t].panes : x = c[t - 1] + i /\ F(m + 1)[x] = tabs[t].panes[i]
    <3> DEFINE k == m + 1
    <3>1. k \in 1 .. n /\ k - 1 = m /\ m \in 0 .. n /\ k \in 0 .. n /\ m <= n
      BY <2>1, <2>2, <1>1
    <3> DEFINE those == tabs[k].panes
               l == Len(those)
    <3>2. /\ c[k] = c[m] + l /\ F(k) = F(m) \o those /\ c[m] \in Nat /\ l \in Nat
          /\ IsSeq(F(m)) /\ Len(F(m)) = c[m] /\ IsSeq(those) /\ DOMAIN those = 1 .. l
      BY <3>1, <1>1, <1>2
    <3>3. x \in 1 .. c[k]
      BY <2>2
    <3>4. P(m)
      BY <2>1, <3>1
    <3> HIDE DEF k, l, M
    <3>5. x \in 1 .. c[m] + l
      BY <3>2, <3>3
    <3>6. F(k)[x] = IF x <= c[m] THEN F(m)[x] ELSE those[x - c[m]]
      <4> HIDE DEF those
      <4>1. l = Len(those)
        BY DEF l, those
      <4>2. \A j \in 1 .. Len(F(m)) + Len(those) : (F(m) \o those)[j] = IF j <= Len(F(m)) THEN F(m)[j] ELSE those[j - Len(F(m))]
        BY <3>2, LenJoined
      <4> QED BY <3>2, <3>5, <4>1, <4>2
    <3>7. CASE x <= c[m]
      <4>1. x \in 1 .. c[m]
        BY <3>2, <3>5, <3>7
      <4>2. PICK t \in 1 .. n : \E i \in DOMAIN tabs[t].panes : x = c[t - 1] + i /\ F(m)[x] = tabs[t].panes[i]
        BY <3>4, <4>1
      <4> QED BY <3>6, <3>7, <4>2 DEF k
    <3>8. CASE ~(x <= c[m])
      <4> DEFINE i == x - c[m]
      <4>1. i \in 1 .. l /\ x = c[m] + i
        BY <3>2, <3>5, <3>8
      <4> HIDE DEF i
      <4>2. x = c[k - 1] + i /\ F(k)[x] = tabs[k].panes[i] /\ i \in DOMAIN tabs[k].panes
        BY <3>1, <3>2, <3>6, <3>8, <4>1 DEF i
      <4>3. k \in 1 .. n /\ F(m + 1)[x] = F(k)[x]
        BY <3>1 DEF k
      <4> QED BY <4>2, <4>3
    <3> QED BY <3>7, <3>8
  <2> QED BY <2>1, <2>2
<1>5. M = Nat
  <2>1. M \in SUBSET Nat
    OBVIOUS
  <2> HIDE DEF M
  <2> QED BY <1>3, <1>4, <2>1, SetInduction
<1>6. P(n)
  <2>1. n \in M /\ n <= n
    BY <1>1, <1>5
  <2> QED BY <2>1
<1> QED BY <1>1, <1>6 DEF n, F

LEMMA PlacedApart ==
  ASSUME NEW tabs, IsSeq(tabs), \A t \in DOMAIN tabs : IsSeq(tabs[t].panes), NEW c, Counts(c, tabs),
         NEW t \in DOMAIN tabs, NEW i \in DOMAIN tabs[t].panes
  PROVE  /\ c[t - 1] \in Nat /\ c[t] \in Nat /\ c[Len(tabs)] \in Nat
         /\ i \in Nat \ {0} /\ c[t - 1] + i <= c[t] /\ c[t] <= c[Len(tabs)]
         /\ \A u \in DOMAIN tabs : \A j \in DOMAIN tabs[u].panes : c[t - 1] + i = c[u - 1] + j => t = u /\ i = j
<1> DEFINE n == Len(tabs)
<1>1. /\ n \in Nat /\ DOMAIN tabs = 1 .. n
      /\ \A m \in 1 .. n : /\ Len(tabs[m].panes) \in Nat /\ DOMAIN tabs[m].panes = 1 .. Len(tabs[m].panes)
  BY SeqOfItems
<1>2. /\ \A m \in 0 .. n : c[m] \in Nat
      /\ \A m \in 1 .. n : c[m] = c[m - 1] + Len(tabs[m].panes)
      /\ \A l, m \in 0 .. n : l <= m => c[l] <= c[m]
  BY CountsGrow DEF Counts
<1> HIDE DEF n
<1>3. ASSUME NEW u \in 1 .. n, NEW j \in DOMAIN tabs[u].panes
      PROVE  /\ c[u - 1] \in Nat /\ c[u] \in Nat /\ c[n] \in Nat /\ j \in Nat \ {0} /\ c[u - 1] + j <= c[u] /\ c[u] <= c[n]
  <2>1. u - 1 \in 0 .. n /\ u \in 0 .. n /\ n \in 0 .. n /\ u <= n
    BY <1>1
  <2>2. c[u - 1] \in Nat /\ c[u] \in Nat /\ c[n] \in Nat /\ c[u] <= c[n] /\ c[u] = c[u - 1] + Len(tabs[u].panes)
    BY <2>1, <1>2
  <2>3. j \in 1 .. Len(tabs[u].panes) /\ Len(tabs[u].panes) \in Nat
    BY <1>1
  <2> QED BY <2>2, <2>3
<1>4. ASSUME NEW v \in 1 .. n, NEW w \in 1 .. n, v < w, NEW k \in DOMAIN tabs[v].panes, NEW l \in DOMAIN tabs[w].panes
      PROVE  c[v - 1] + k # c[w - 1] + l
  <2>1. v \in 0 .. n /\ w - 1 \in 0 .. n /\ v <= w - 1
    BY <1>4, <1>1
  <2>2. c[v] <= c[w - 1]
    BY <2>1, <1>2
  <2>3. /\ c[v - 1] \in Nat /\ c[v] \in Nat /\ k \in Nat /\ c[v - 1] + k <= c[v]
        /\ c[w - 1] \in Nat /\ l \in Nat \ {0}
    BY <1>3
  <2> QED BY <2>2, <2>3
<1>5. ASSUME NEW u \in 1 .. n, NEW j \in DOMAIN tabs[u].panes, c[t - 1] + i = c[u - 1] + j PROVE t = u /\ i = j
  <2>1. t \in 1 .. n
    BY <1>1
  <2>2. ~(t < u) /\ ~(u < t)
    BY <2>1, <1>4, <1>5
  <2>3. t = u
    BY <2>1, <2>2, <1>1
  <2>4. c[t - 1] \in Nat /\ i \in Nat /\ j \in Nat
    BY <2>1, <1>3
  <2> QED BY <2>3, <2>4, <1>5
<1> QED BY <1>1, <1>3, <1>5 DEF n

-----------------------------------------------------------------------------
(* What is populated: numbered panes, each with its record, saved as they  *)
(* were defined.                                                           *)
PanesBefore(tabs, m) == Len(PanesOf(SubSeq(tabs, 1, m)))

LEMMA PanesCounts ==
  ASSUME NEW tabs, IsSeq(tabs), NEW c, Counts(c, tabs)
  PROVE  /\ \A m \in 0 .. Len(tabs) : PanesBefore(tabs, m) = c[m]
         /\ PanesOf(tabs) = PanesUpTo(tabs, Len(tabs)) /\ Len(PanesOf(tabs)) = c[Len(tabs)]
<1>1. DOMAIN tabs = 1 .. Len(tabs) /\ Len(tabs) \in Nat
  BY SeqOfItems
<1>2. ASSUME NEW m \in 0 .. Len(tabs) PROVE PanesOf(SubSeq(tabs, 1, m)) = PanesUpTo(tabs, m)
  <2> DEFINE S == {tabs[i] : i \in 1 .. Len(tabs)}
             q == SubSeq(tabs, 1, m)
  <2>1. tabs \in Seq(S)
    BY SeqOfItems
  <2> HIDE DEF S
  <2>2. DOMAIN q = 1 .. m /\ \A i \in 1 .. m : q[i] = tabs[i]
    BY <1>1, <2>1
  <2> HIDE DEF q
  <2>3. [t \in DOMAIN q |-> q[t].panes] = [t \in 1 .. m |-> tabs[t].panes]
    BY <2>2
  <2> QED BY <2>3 DEF PanesOf, PanesUpTo, q
<1>3. PanesOf(tabs) = PanesUpTo(tabs, Len(tabs))
  BY <1>1 DEF PanesOf, PanesUpTo
<1>4. Len(tabs) \in 0 .. Len(tabs)
  BY <1>1
<1> QED BY <1>2, <1>3, <1>4 DEF Counts, PanesBefore

LEMMA DefinitionTyped ==
  ASSUME NEW def, IsDefinition(def)
  PROVE  /\ IsSeq(def.tabs) /\ DOMAIN def.tabs = 1 .. Len(def.tabs) /\ Len(def.tabs) \in Nat
         /\ \A t \in DOMAIN def.tabs :
              /\ IsSeq(def.tabs[t].panes) /\ DOMAIN def.tabs[t].panes = 1 .. Len(def.tabs[t].panes)
              /\ Len(def.tabs[t].panes) \in Nat
BY SeqOfItems DEF IsDefinition

(* The ids of a tab are those after the ones of the tabs before it.        *)
Ids(def, next, c, t) == [i \in DOMAIN def.tabs[t].panes |-> next + c[t - 1] + i - 1]

PopulatedSo(new, inst, def, c) ==
  LET n == Len(def.tabs)
  IN  /\ IsInstance(new) /\ new.id = inst.id /\ new.name = def.name /\ new.saved = inst.saved /\ new.path = inst.path
      /\ new.cut = inst.cut /\ new.next = inst.next + c[n]
      /\ IsSeq(new.tabs) /\ DOMAIN new.tabs = 1 .. n
      /\ \A t \in 1 .. n : /\ IsTab(new.tabs[t]) /\ new.tabs[t].name = def.tabs[t].name
                           /\ new.tabs[t].panes = Ids(def, inst.next, c, t)
                           /\ new.tabs[t].next = inst.next + c[t]
      /\ new.panes = [id \in inst.next .. inst.next + c[n] - 1 |-> PanesUpTo(def.tabs, n)[id - inst.next + 1]]

LEMMA PopulatedAs ==
  ASSUME NEW inst, IsInstance(inst), NEW def, IsDefinition(def), NEW c, Counts(c, def.tabs)
  PROVE  PopulatedSo(Populated(inst, def), inst, def, c)
<1> DEFINE n == Len(def.tabs)
           next == inst.next
           tabs == [t \in DOMAIN def.tabs |->
                     [name |-> def.tabs[t].name,
                      panes |-> [i \in DOMAIN def.tabs[t].panes |-> next + Len(PanesOf(SubSeq(def.tabs, 1, t - 1))) + i - 1],
                      next |-> next + Len(PanesOf(SubSeq(def.tabs, 1, (t + 1) - 1)))]]
           records == [id \in next .. next + Len(PanesOf(def.tabs)) - 1 |-> PanesOf(def.tabs)[id - next + 1]]
           count == Len(PanesOf(def.tabs))
           new == [inst EXCEPT !.name = def.name, !.tabs = tabs, !.panes = records, !.next = @ + count, !.collided = FALSE]
<1>1. IsSeq(def.tabs) /\ DOMAIN def.tabs = 1 .. n /\ n \in Nat
  BY DefinitionTyped
<1>2. Populated(inst, def) = new
  BY DEF Populated
<1>3. /\ \A m \in 0 .. n : PanesBefore(def.tabs, m) = c[m]
      /\ PanesOf(def.tabs) = PanesUpTo(def.tabs, n) /\ count = c[n]
  BY <1>1, PanesCounts
<1>4. ASSUME NEW t \in 1 .. n
      PROVE  /\ IsTab(tabs[t]) /\ tabs[t].name = def.tabs[t].name
             /\ tabs[t].panes = Ids(def, next, c, t) /\ tabs[t].next = next + c[t]
  <2>1. t - 1 \in 0 .. n /\ t \in 0 .. n /\ (t + 1) - 1 = t
    BY <1>1
  <2>2. Len(PanesOf(SubSeq(def.tabs, 1, t - 1))) = c[t - 1]
    <3> DEFINE m == t - 1
    <3>1. m \in 0 .. n
      BY <2>1
    <3> HIDE DEF m
    <3>2. Len(PanesOf(SubSeq(def.tabs, 1, m))) = c[m]
      BY <3>1, <1>3 DEF PanesBefore
    <3> QED BY <3>2 DEF m
  <2>3. Len(PanesOf(SubSeq(def.tabs, 1, (t + 1) - 1))) = c[t]
    BY <2>1, <1>3 DEF PanesBefore
  <2> DEFINE ids == Ids(def, next, c, t)
             tab == [name |-> def.tabs[t].name, panes |-> ids, next |-> next + c[t]]
  <2>4. tabs[t] = tab
    BY <2>2, <2>3, <1>1 DEF Ids
  <2>5. IsTab(tab) /\ tab.name = def.tabs[t].name /\ tab.panes = ids /\ tab.next = next + c[t]
    <3> HIDE DEF ids
    <3> QED BY DEF IsTab, Has
  <2> HIDE DEF tab, tabs, ids
  <2> QED BY <2>4, <2>5 DEF ids
<1>5. DOMAIN tabs = 1 .. n /\ IsSeq(tabs)
  <2>1. DOMAIN tabs = 1 .. n /\ tabs = [t \in 1 .. n |-> tabs[t]]
    BY <1>1
  <2> HIDE DEF tabs
  <2> QED BY <2>1, <1>1, SeqMapped
<1>6. records = [id \in next .. next + c[n] - 1 |-> PanesUpTo(def.tabs, n)[id - next + 1]]
  BY <1>3
<1>7. /\ IsInstance(new) /\ new.id = inst.id /\ new.name = def.name /\ new.saved = inst.saved /\ new.path = inst.path
      /\ new.cut = inst.cut /\ new.next = next + count /\ new.tabs = tabs /\ new.panes = records
  <2> HIDE DEF tabs, records, count
  <2> QED BY DEF IsInstance, Has
<1> HIDE DEF new, tabs, records, count
<1>8. PopulatedSo(new, inst, def, c)
  BY <1>3, <1>4, <1>5, <1>6, <1>7 DEF PopulatedSo, n, next
<1> QED BY <1>2, <1>8

LEMMA PopulatedRecords ==
  ASSUME NEW inst, inst.next \in Nat, NEW def, IsDefinition(def), NEW c, Counts(c, def.tabs),
         NEW new, PopulatedSo(new, inst, def, c)
  PROVE  /\ \A id \in DOMAIN new.panes : \E t \in DOMAIN def.tabs : \E i \in DOMAIN def.tabs[t].panes :
              id = inst.next + c[t - 1] + i - 1 /\ new.panes[id] = def.tabs[t].panes[i]
         /\ \A t \in DOMAIN def.tabs : \A i \in DOMAIN def.tabs[t].panes :
              LET id == inst.next + c[t - 1] + i - 1
              IN  id \in Nat /\ id \in DOMAIN new.panes /\ new.panes[id] = def.tabs[t].panes[i] /\ id < inst.next + c[t]
<1> DEFINE n == Len(def.tabs)
           next == inst.next
           all == PanesUpTo(def.tabs, n)
           T == def.tabs
<1>1. /\ IsSeq(T) /\ DOMAIN T = 1 .. n /\ n \in Nat /\ \A t \in DOMAIN T : IsSeq(T[t].panes)
  BY DefinitionTyped
<1>2. new.panes = [id \in next .. next + c[n] - 1 |-> all[id - next + 1]]
  BY DEF PopulatedSo
<1>3. \A x \in 1 .. c[n] : \E t \in DOMAIN T : \E i \in DOMAIN T[t].panes : x = c[t - 1] + i /\ all[x] = T[t].panes[i]
  BY <1>1, Placed
<1>4. \A t \in DOMAIN T : \A i \in DOMAIN T[t].panes :
         /\ c[t - 1] \in Nat /\ c[t] \in Nat /\ c[n] \in Nat
         /\ i \in Nat \ {0} /\ c[t - 1] + i <= c[t] /\ c[t] <= c[n]
         /\ \A u \in DOMAIN T : \A j \in DOMAIN T[u].panes : c[t - 1] + i = c[u - 1] + j => t = u /\ i = j
  BY <1>1, PlacedApart
<1>5. n \in 0 .. n /\ c[n] \in Nat
  BY <1>1 DEF Counts
<1> HIDE DEF T, n, all, next
<1>6. next \in Nat
  BY DEF next
<1>7. ASSUME NEW id \in DOMAIN new.panes
      PROVE  \E t \in DOMAIN T : \E i \in DOMAIN T[t].panes : id = next + c[t - 1] + i - 1 /\ new.panes[id] = T[t].panes[i]
  <2> DEFINE x == id - next + 1
  <2>1. id \in next .. next + c[n] - 1 /\ new.panes[id] = all[x]
    BY <1>2
  <2>2. x \in 1 .. c[n]
    BY <2>1, <1>5, <1>6
  <2>3. PICK t \in DOMAIN T : \E i \in DOMAIN T[t].panes : x = c[t - 1] + i /\ all[x] = T[t].panes[i]
    BY <2>2, <1>3
  <2>4. PICK i \in DOMAIN T[t].panes : x = c[t - 1] + i /\ all[x] = T[t].panes[i]
    BY <2>3
  <2>5. id = next + c[t - 1] + i - 1
    <3>1. c[t - 1] \in Nat /\ i \in Nat /\ id \in Int
      BY <1>4, <2>1, <1>6, <1>5
    <3> QED BY <3>1, <2>4, <1>6
  <2> HIDE DEF x
  <2> QED BY <2>1, <2>4, <2>5
<1>8. ASSUME NEW t \in DOMAIN T, NEW i \in DOMAIN T[t].panes
      PROVE  LET id == next + c[t - 1] + i - 1
             IN  id \in Nat /\ id \in DOMAIN new.panes /\ new.panes[id] = T[t].panes[i] /\ id < next + c[t]
  <2> DEFINE x == c[t - 1] + i
             id == next + c[t - 1] + i - 1
  <2>1. c[t - 1] \in Nat /\ c[t] \in Nat /\ c[n] \in Nat /\ i \in Nat \ {0} /\ x <= c[t] /\ c[t] <= c[n]
    BY <1>4
  <2>2. x \in 1 .. c[n] /\ id \in next .. next + c[n] - 1 /\ id - next + 1 = x /\ id \in Nat /\ id < next + c[t]
    BY <2>1, <1>6
  <2>3. PICK u \in DOMAIN T : \E j \in DOMAIN T[u].panes : x = c[u - 1] + j /\ all[x] = T[u].panes[j]
    <3> HIDE DEF x
    <3> QED BY <2>2, <1>3
  <2>4. PICK j \in DOMAIN T[u].panes : x = c[u - 1] + j /\ all[x] = T[u].panes[j]
    BY <2>3
  <2>5. t = u /\ i = j
    BY <2>4, <1>4
  <2>6. new.panes[id] = all[x] /\ id \in DOMAIN new.panes
    <3> HIDE DEF id, x
    <3> QED BY <2>2, <1>2
  <2> HIDE DEF x
  <2> QED BY <2>2, <2>4, <2>5, <2>6
<1> QED BY <1>7, <1>8 DEF T, next

LEMMA PopulatedOwned ==
  ASSUME NEW inst, inst.next \in Nat, NEW def, IsDefinition(def), NEW c, Counts(c, def.tabs),
         NEW new, PopulatedSo(new, inst, def, c)
  PROVE  TabsSound(new.tabs) /\ RecordsSound(new.panes) /\ Owned(new.tabs, DOMAIN new.panes) /\ new.next \in Nat
<1> DEFINE T == def.tabs
           n == Len(T)
           next == inst.next
           Id(t, i) == next + c[t - 1] + i - 1
           D == DOMAIN new.panes
<1>1. /\ IsSeq(T) /\ DOMAIN T = 1 .. n /\ n \in Nat
      /\ \A t \in 1 .. n : /\ IsSeq(T[t].panes) /\ DOMAIN T[t].panes = 1 .. Len(T[t].panes) /\ Len(T[t].panes) \in Nat
                           /\ \A i \in DOMAIN T[t].panes : T[t].panes[i] = [name |-> T[t].panes[i].name, profile |-> T[t].panes[i].profile]
  BY DefinitionTyped DEF IsDefinition
<1>2. /\ \A id \in D : \E t \in 1 .. n : \E i \in DOMAIN T[t].panes : id = Id(t, i) /\ new.panes[id] = T[t].panes[i]
      /\ \A t \in 1 .. n : \A i \in DOMAIN T[t].panes : Id(t, i) \in Nat /\ Id(t, i) \in D /\ Id(t, i) < next + c[t]
  <2>1. DOMAIN def.tabs = 1 .. n
    BY <1>1
  <2> DEFINE All == /\ \A id \in D : \E t \in DOMAIN T : \E i \in DOMAIN T[t].panes : id = Id(t, i) /\ new.panes[id] = T[t].panes[i]
                    /\ \A t \in DOMAIN T : \A i \in DOMAIN T[t].panes :
                          LET id == Id(t, i)
                          IN  id \in Nat /\ id \in DOMAIN new.panes /\ new.panes[id] = T[t].panes[i] /\ id < inst.next + c[t]
  <2>2. All
    BY PopulatedRecords
  <2> HIDE DEF n, T, D, Id
  <2> QED BY <2>1, <2>2 DEF T, D, next
<1>3. \A t \in 1 .. n : \A i \in DOMAIN T[t].panes : \A u \in 1 .. n : \A j \in DOMAIN T[u].panes :
         Id(t, i) = Id(u, j) => t = u /\ i = j
  <2>1. DOMAIN T = 1 .. n /\ IsSeq(T) /\ \A t \in DOMAIN T : IsSeq(T[t].panes)
    BY <1>1
  <2>2. Counts(c, T)
    OBVIOUS
  <2>3. \A t \in DOMAIN T : \A i \in DOMAIN T[t].panes :
           /\ c[t - 1] \in Nat /\ c[t] \in Nat /\ c[n] \in Nat
           /\ i \in Nat \ {0} /\ c[t - 1] + i <= c[t] /\ c[t] <= c[n]
           /\ \A u \in DOMAIN T : \A j \in DOMAIN T[u].panes : c[t - 1] + i = c[u - 1] + j => t = u /\ i = j
    BY <2>1, <2>2, PlacedApart
  <2> HIDE DEF T, n
  <2>4. ASSUME NEW t \in 1 .. n, NEW i \in DOMAIN T[t].panes, NEW u \in 1 .. n, NEW j \in DOMAIN T[u].panes, Id(t, i) = Id(u, j)
        PROVE  t = u /\ i = j
    <3>1. c[t - 1] \in Nat /\ i \in Nat /\ c[u - 1] \in Nat /\ j \in Nat
      BY <2>1, <2>3
    <3>2. next \in Nat /\ next + c[t - 1] + i - 1 = next + c[u - 1] + j - 1
      BY <2>4
    <3> DEFINE x == c[t - 1]
               y == c[u - 1]
    <3>3. x + i = y + j
      <4> HIDE DEF x, y, next
      <4>1. x \in Nat /\ y \in Nat /\ next \in Nat /\ next + x + i - 1 = next + y + j - 1
        BY <3>1, <3>2 DEF x, y
      <4> QED BY <3>1, <4>1
    <3> QED BY <3>3, <2>1, <2>3
  <2> QED BY <2>4
<1>4. c[n] \in Nat /\ \A t \in 1 .. n : c[t] \in Nat
  BY <1>1 DEF Counts
<1>5. /\ IsSeq(new.tabs) /\ DOMAIN new.tabs = 1 .. n /\ new.next = next + c[n]
      /\ \A t \in 1 .. n : /\ IsTab(new.tabs[t]) /\ new.tabs[t].next = next + c[t]
                           /\ new.tabs[t].panes = [i \in DOMAIN T[t].panes |-> Id(t, i)]
  BY DEF PopulatedSo, Ids
<1>6. next \in Nat
  OBVIOUS
<1> HIDE DEF T, n, next, Id, D
<1>7. ASSUME NEW t \in 1 .. n
      PROVE  /\ IdsSound(new.tabs[t].panes, new.tabs[t].next)
             /\ \A id : id \in ToSet(new.tabs[t].panes) <=> \E i \in DOMAIN T[t].panes : id = Id(t, i)
  <2> DEFINE l == Len(T[t].panes)
             ids == new.tabs[t].panes
  <2>1. l \in Nat /\ DOMAIN T[t].panes = 1 .. l /\ ids = [i \in 1 .. l |-> Id(t, i)]
    BY <1>1, <1>5
  <2> HIDE DEF l, ids
  <2>2. DOMAIN ids = 1 .. l /\ ids = [i \in 1 .. l |-> ids[i]] /\ \A i \in 1 .. l : ids[i] = Id(t, i)
    BY <2>1
  <2>3. IsSeq(ids)
    BY <2>1, <2>2, SeqMapped
  <2>4. next + c[t] \in Nat
    BY <1>4, <1>6
  <2>5. IdsSound(ids, next + c[t])
    BY <2>1, <2>2, <2>3, <2>4, <1>2, <1>3 DEF IdsSound
  <2>6. \A id : id \in ToSet(ids) <=> \E i \in 1 .. l : id = Id(t, i)
    BY <2>2 DEF ToSet
  <2> QED BY <2>1, <2>5, <2>6, <1>5 DEF ids
<1>8. TabsSound(new.tabs)
  BY <1>5, <1>7 DEF TabsSound, TabSound
<1>9. RecordsSound(new.panes)
  BY <1>1, <1>2 DEF RecordsSound, D
<1>10. Owned(new.tabs, D)
  <2>1. ASSUME NEW t \in 1 .. n, NEW id \in ToSet(new.tabs[t].panes) PROVE id \in D
    <3>1. PICK i \in DOMAIN T[t].panes : id = Id(t, i)
      BY <2>1, <1>7
    <3> QED BY <3>1, <1>2
  <2>2. ASSUME NEW id \in D PROVE \E t \in 1 .. n : id \in ToSet(new.tabs[t].panes)
    <3>1. PICK t \in 1 .. n : \E i \in DOMAIN T[t].panes : id = Id(t, i)
      BY <1>2
    <3>2. id \in ToSet(new.tabs[t].panes)
      BY <3>1, <1>7
    <3> QED BY <3>2
  <2>3. \A t, u \in 1 .. n : t # u => ToSet(new.tabs[t].panes) \cap ToSet(new.tabs[u].panes) = {}
    BY <1>3, <1>7
  <2> QED BY <2>1, <2>2, <2>3, <1>5 DEF Owned
<1>11. new.next \in Nat
  BY <1>4, <1>5, <1>6
<1> QED BY <1>8, <1>9, <1>10, <1>11 DEF D

LEMMA KeptRecord ==
  ASSUME NEW def, IsDefinition(def)
  PROVE  Kept(def) = [name |-> def.name, declares |-> {}, windows |-> FALSE, tabs |-> def.tabs]
<1>1. PICK a, b, d, e : def = [name |-> a, declares |-> b, windows |-> d, tabs |-> e]
  BY DEF IsDefinition
<1>2. Kept(def) = [[def EXCEPT !.declares = {}] EXCEPT !.windows = FALSE]
  BY DEF Kept
<1>3. [def EXCEPT !.declares = {}] = [name |-> a, declares |-> {}, windows |-> d, tabs |-> e]
  BY <1>1
<1>4. [[name |-> a, declares |-> {}, windows |-> d, tabs |-> e] EXCEPT !.windows = FALSE]
        = [name |-> a, declares |-> {}, windows |-> FALSE, tabs |-> e]
  <2>1. ASSUME NEW w PROVE [[name |-> a, declares |-> {}, windows |-> d, tabs |-> e] EXCEPT !.windows = w]
                             = [name |-> a, declares |-> {}, windows |-> w, tabs |-> e]
    OBVIOUS
  <2> QED BY <2>1
<1>5. def.name = a /\ def.tabs = e
  BY <1>1
<1> DEFINE x == [name |-> a, declares |-> {}, windows |-> d, tabs |-> e]
           y == [name |-> a, declares |-> {}, windows |-> FALSE, tabs |-> e]
<1>6. [def EXCEPT !.declares = {}] = x /\ [x EXCEPT !.windows = FALSE] = y
  BY <1>3, <1>4
<1>7. y = [name |-> def.name, declares |-> {}, windows |-> FALSE, tabs |-> def.tabs]
  BY <1>5
<1> HIDE DEF x, y
<1>8. Kept(def) = y
  BY <1>2, <1>6
<1> QED BY <1>7, <1>8

LEMMA PopulatedSaved ==
  ASSUME NEW inst, inst.next \in Nat, NEW def, IsDefinition(def), NEW c, Counts(c, def.tabs),
         NEW new, PopulatedSo(new, inst, def, c)
  PROVE  Saved(new) = Kept(def)
<1> DEFINE n == Len(def.tabs)
           out == [t \in DOMAIN new.tabs |->
                    [name |-> new.tabs[t].name, panes |-> [i \in DOMAIN new.tabs[t].panes |-> RecordOf(new, new.tabs[t].panes[i])]]]
<1>1. IsSeq(def.tabs) /\ DOMAIN def.tabs = 1 .. n /\ n \in Nat /\ DOMAIN new.tabs = 1 .. n /\ new.name = def.name
  BY DefinitionTyped DEF PopulatedSo
<1>2. ASSUME NEW t \in 1 .. n PROVE out[t] = def.tabs[t]
  <2> DEFINE d == def.tabs[t]
             ids == new.tabs[t].panes
             p == [i \in DOMAIN ids |-> RecordOf(new, ids[i])]
  <2>1. /\ d = [name |-> d.name, panes |-> d.panes] /\ IsSeq(d.panes)
        /\ new.tabs[t].name = d.name /\ ids = [i \in DOMAIN d.panes |-> inst.next + c[t - 1] + i - 1]
    BY <1>1 DEF IsDefinition, PopulatedSo, Ids
  <2>2. \A i \in DOMAIN d.panes : RecordOf(new, inst.next + c[t - 1] + i - 1) = d.panes[i]
    BY <1>1, PopulatedRecords DEF RecordOf
  <2>3. d.panes = [i \in DOMAIN d.panes |-> d.panes[i]]
    BY <2>1 DEF IsSeq
  <2>4. out[t] = [name |-> new.tabs[t].name, panes |-> p]
    BY <1>1
  <2> HIDE DEF d, ids, out
  <2>5. p = d.panes
    BY <2>1, <2>2, <2>3
  <2> HIDE DEF p
  <2>6. out[t] = [name |-> d.name, panes |-> d.panes]
    BY <2>1, <2>4, <2>5
  <2> QED BY <2>1, <2>6 DEF d
<1>3. out = def.tabs
  <2>1. out = [t \in 1 .. n |-> out[t]] /\ def.tabs = [t \in 1 .. n |-> def.tabs[t]]
    BY <1>1 DEF IsSeq
  <2> HIDE DEF out
  <2> QED BY <1>2, <2>1
<1>4. Saved(new) = [name |-> def.name, declares |-> {}, windows |-> FALSE, tabs |-> out]
  BY <1>1 DEF Saved
<1>5. Kept(def) = [name |-> def.name, declares |-> {}, windows |-> FALSE, tabs |-> def.tabs]
  BY KeptRecord
<1> HIDE DEF out
<1> QED BY <1>3, <1>4, <1>5

LEMMA InstancePopulated ==
  ASSUME NEW inst, InstanceSound(inst), NEW def, IsDefinition(def)
  PROVE  LET new == Populated(inst, def)
         IN  /\ InstanceSound(new) /\ new.id = inst.id /\ new.name = def.name
             /\ new.saved = inst.saved /\ new.path = inst.path /\ new.cut = inst.cut
             /\ Saved(new) = Kept(def)
<1>1. PICK c : Counts(c, def.tabs)
  BY DefinitionTyped, PanesCounted
<1> DEFINE new == Populated(inst, def)
<1>2. IsInstance(inst) /\ inst.id \in Nat \ {0} /\ inst.next \in Nat /\ SavedSound(inst.saved, inst.path)
  BY DEF InstanceSound
<1>3. PopulatedSo(new, inst, def, c)
  BY <1>1, <1>2, PopulatedAs
<1> HIDE DEF new
<1>4. TabsSound(new.tabs) /\ RecordsSound(new.panes) /\ Owned(new.tabs, DOMAIN new.panes) /\ new.next \in Nat
  BY <1>1, <1>2, <1>3, PopulatedOwned
<1>5. Saved(new) = Kept(def)
  BY <1>1, <1>2, <1>3, PopulatedSaved
<1>6. /\ IsInstance(new) /\ new.id = inst.id /\ new.name = def.name /\ new.saved = inst.saved
      /\ new.path = inst.path /\ new.cut = inst.cut
  BY <1>3 DEF PopulatedSo
<1>7. InstanceSound(new)
  BY <1>2, <1>4, <1>6 DEF InstanceSound
<1> QED BY <1>5, <1>6, <1>7 DEF new

LEMMA InstanceMarked ==
  ASSUME NEW inst, InstanceSound(inst), NEW path \in Paths
  PROVE  LET new == MarkSaved(inst, path)
         IN  /\ InstanceSound(new) /\ new.id = inst.id /\ new.name = inst.name
             /\ new.saved = <<Saved(inst)>> /\ new.path = <<path>> /\ Saved(new) = Saved(inst)
<1> DEFINE new == MarkSaved(inst, path)
           saved == <<Saved(inst)>>
<1>1. IsInstance(inst)
  BY DEF InstanceSound
<1>2. new = [inst EXCEPT !.saved = saved, !.path = <<path>>, !.cut = FALSE]
  BY DEF MarkSaved
<1> HIDE DEF new, saved
<1>3. /\ IsInstance(new) /\ new.id = inst.id /\ new.name = inst.name /\ new.tabs = inst.tabs /\ new.panes = inst.panes
      /\ new.next = inst.next /\ new.collided = inst.collided /\ new.saved = saved /\ new.path = <<path>>
  BY <1>1, <1>2 DEF IsInstance, Has
<1>4. Saved(new) = Saved(inst)
  BY <1>3 DEF Saved, RecordOf
<1>5. SavedSound(new.saved, new.path)
  BY <1>3 DEF SavedSound, saved
<1>6. InstanceSound(new)
  BY <1>3, <1>5 DEF InstanceSound
<1> QED BY <1>3, <1>4, <1>6 DEF new, saved

LEMMA InstanceNew ==
  ASSUME NEW id \in Nat \ {0}
  PROVE  InstanceSound(Unopened(id)) /\ Unopened(id).id = id
<1> DEFINE inst == Unopened(id)
<1>1. /\ IsInstance(inst) /\ inst.id = id /\ inst.tabs = <<>> /\ inst.panes = <<>>
      /\ inst.next = 1 /\ inst.saved = <<>> /\ inst.path = <<>>
  BY DEF Unopened, IsInstance, Has
<1> HIDE DEF inst
<1>2. TabsSound(inst.tabs) /\ RecordsSound(inst.panes) /\ SavedSound(inst.saved, inst.path)
  BY <1>1, NoItems DEF TabsSound, RecordsSound, SavedSound
<1>3. Owned(inst.tabs, DOMAIN inst.panes)
  BY <1>1 DEF Owned
<1>4. inst.next \in Nat
  BY <1>1
<1> QED BY <1>1, <1>2, <1>3, <1>4 DEF InstanceSound, inst

TabsDefined(tabs) ==
  /\ IsSeq(tabs)
  /\ \A t \in DOMAIN tabs :
       /\ tabs[t] = [name |-> tabs[t].name, panes |-> tabs[t].panes]
       /\ IsSeq(tabs[t].panes)
       /\ \A i \in DOMAIN tabs[t].panes :
            tabs[t].panes[i] = [name |-> tabs[t].panes[i].name, profile |-> tabs[t].panes[i].profile]

LEMMA DefinitionOf ==
  ASSUME NEW def, NEW name, NEW declares, NEW windows, NEW tabs, TabsDefined(tabs),
         def = [name |-> name, declares |-> declares, windows |-> windows, tabs |-> tabs]
  PROVE  IsDefinition(def)
<1>1. /\ def = [name |-> def.name, declares |-> def.declares, windows |-> def.windows, tabs |-> def.tabs]
      /\ def.tabs = tabs
  OBVIOUS
<1> QED BY <1>1 DEF IsDefinition, TabsDefined

(* What is saved is a definition, of which saving leaves all.              *)
LEMMA SavedTyped ==
  ASSUME NEW inst, InstanceSound(inst)
  PROVE  IsDefinition(Saved(inst)) /\ Kept(Saved(inst)) = Saved(inst)
<1> DEFINE P(t) == [i \in DOMAIN inst.tabs[t].panes |-> RecordOf(inst, inst.tabs[t].panes[i])]
           tabs == [t \in DOMAIN inst.tabs |-> [name |-> inst.tabs[t].name, panes |-> P(t)]]
           name == inst.name
<1>1. Saved(inst) = [name |-> name, declares |-> {}, windows |-> FALSE, tabs |-> tabs]
  BY DEF Saved
<1>2. /\ IsSeq(inst.tabs) /\ DOMAIN inst.tabs = 1 .. Len(inst.tabs) /\ Len(inst.tabs) \in Nat
      /\ \A t \in DOMAIN inst.tabs : IsSeq(inst.tabs[t].panes)
  BY SeqOfItems DEF InstanceSound, TabsSound, TabSound, IdsSound
<1>3. \A id : RecordOf(inst, id) = [name |-> RecordOf(inst, id).name, profile |-> RecordOf(inst, id).profile]
  BY DEF RecordOf, InstanceSound, RecordsSound
<1>4. ASSUME NEW t \in DOMAIN inst.tabs
      PROVE  IsSeq(P(t)) /\ \A i \in DOMAIN P(t) : P(t)[i] = [name |-> P(t)[i].name, profile |-> P(t)[i].profile]
  <2>1. DOMAIN P(t) = 1 .. Len(inst.tabs[t].panes) /\ Len(inst.tabs[t].panes) \in Nat /\ P(t) = [i \in DOMAIN P(t) |-> P(t)[i]]
    BY <1>2, SeqOfItems
  <2>2. \A i \in DOMAIN P(t) : P(t)[i] = RecordOf(inst, inst.tabs[t].panes[i])
    OBVIOUS
  <2> HIDE DEF P
  <2>3. IsSeq(P(t))
    BY <2>1, SeqMapped
  <2>4. \A i \in DOMAIN P(t) : P(t)[i] = [name |-> P(t)[i].name, profile |-> P(t)[i].profile]
    BY <2>2, <1>3
  <2> QED BY <2>3, <2>4
<1> HIDE DEF P
<1>5. /\ DOMAIN tabs = 1 .. Len(inst.tabs) /\ tabs = [t \in DOMAIN tabs |-> tabs[t]]
      /\ \A t \in DOMAIN tabs : t \in DOMAIN inst.tabs /\ tabs[t].panes = P(t) /\ tabs[t] = [name |-> tabs[t].name, panes |-> tabs[t].panes]
  BY <1>2
<1> HIDE DEF tabs, name
<1>6. IsSeq(tabs)
  BY <1>2, <1>5, SeqMapped
<1>7. TabsDefined(tabs)
  BY <1>4, <1>5, <1>6 DEF TabsDefined
<1>8. IsDefinition(Saved(inst))
  BY <1>1, <1>7, DefinitionOf
<1> DEFINE d == Saved(inst)
<1>9. d.name = name /\ d.tabs = tabs
  BY <1>1
<1>10. Kept(d) = [name |-> d.name, declares |-> {}, windows |-> FALSE, tabs |-> d.tabs]
  BY <1>8, KeptRecord
<1> QED BY <1>1, <1>8, <1>9, <1>10

LEMMA LoadedFrom ==
  ASSUME NEW files, NEW name, NEW given, NEW cwd, Load(files, name, given, cwd).result = "loaded"
  PROVE  LET loaded == Load(files, name, given, cwd)
         IN  loaded.path \in DOMAIN files /\ loaded.def = files[loaded.path]
BY DEF Load

LEMMA SynthesizedTyped ==
  ASSUME NEW name, NEW profile
  PROVE  IsDefinition(Synthesized(name, profile))
<1> DEFINE pane == [name |-> "shell", profile |-> profile]
           tab == [name |-> "main", panes |-> <<pane>>]
<1>1. IsSeq(<<pane>>) /\ IsSeq(<<tab>>)
  BY OneItem
<1>2. \A t \in DOMAIN <<tab>> : <<tab>>[t] = tab
  OBVIOUS
<1>3. \A i \in DOMAIN <<pane>> : <<pane>>[i] = pane
  OBVIOUS
<1>4. pane = [name |-> pane.name, profile |-> pane.profile]
  OBVIOUS
<1> HIDE DEF pane
<1>5. tab = [name |-> tab.name, panes |-> tab.panes] /\ tab.panes = <<pane>>
  OBVIOUS
<1>6. Synthesized(name, profile) = [name |-> name, declares |-> {}, windows |-> FALSE, tabs |-> <<tab>>]
  BY DEF Synthesized, pane
<1> HIDE DEF tab
<1>7. TabsDefined(<<tab>>)
  BY <1>1, <1>2, <1>3, <1>4, <1>5 DEF TabsDefined
<1> QED BY <1>6, <1>7, DefinitionOf

LEMMA RegistryInit == Init => RegistrySound
<1> SUFFICES ASSUME Init PROVE RegistrySound
  OBVIOUS
<1>1. /\ open = <<>> /\ nextId = 1 /\ disk = <<>> /\ steps = 0
      /\ author \in [Paths -> Nat] /\ DOMAIN open = {} /\ DOMAIN disk = {}
  BY DEF Init
<1>2. open = [k \in DOMAIN open |-> open[k]]
  BY <1>1
<1> QED BY <1>1, <1>2, RegistryAssumption DEF RegistrySound

(* Who wrote or loaded a file: one instance, by the ids, and no user.      *)
LEMMA OthersOnDisk ==
  ASSUME RegistrySound, NEW l \in DOMAIN open, NEW path \in Paths, NEW id \in Nat, id # open[l].id,
         NEW files, \A p \in DOMAIN disk \ {path} : p \in DOMAIN files /\ files[p] = disk[p]
  PROVE  OnDisk(open[l], files, [author EXCEPT ![path] = id])
<1> DEFINE inst == open[l]
           by == [author EXCEPT ![path] = id]
<1>1. SavedSound(inst.saved, inst.path) /\ OnDisk(inst, disk, author) /\ author \in [Paths -> Nat]
  BY DEF RegistrySound, InstanceSound
<1> SUFFICES ASSUME inst.path # <<>>, by[inst.path[1]] = inst.id
             PROVE  /\ inst.path[1] \in DOMAIN files
                    /\ inst.saved = <<Kept(files[inst.path[1]])>> \/ (inst.cut /\ files[inst.path[1]] = Garbage)
  BY DEF OnDisk
<1>2. inst.path[1] \in Paths
  BY <1>1 DEF SavedSound
<1>3. inst.path[1] # path /\ by[inst.path[1]] = author[inst.path[1]]
  BY <1>1, <1>2
<1>4. /\ inst.path[1] \in DOMAIN disk
      /\ inst.saved = <<Kept(disk[inst.path[1]])>> \/ (inst.cut /\ disk[inst.path[1]] = Garbage)
  BY <1>1, <1>3 DEF OnDisk
<1> QED BY <1>3, <1>4

LEMMA StepCounted ==
  ASSUME RegistrySound, NEW op, NEW result, Answer(op, result)
  PROVE  steps' \in 0 .. MaxSteps
BY RegistryAssumption DEF RegistrySound, Answer, Running

(* Workspaces are closed, or nothing happens to them.                      *)
Fewer(s) == open' = Restrict(open, s) /\ UNCHANGED <<disk, author>>

LEMMA SoundFewer ==
  ASSUME RegistrySound, NEW s \in SUBSET DOMAIN open, Fewer(s), nextId' \in {nextId, nextId + 1}, steps' \in 0 .. MaxSteps
  PROVE  RegistrySound'
<1>1. /\ DOMAIN open' = s /\ open' = [k \in DOMAIN open' |-> open'[k]]
      /\ \A k \in s : open'[k] = open[k] /\ k \in DOMAIN open
      /\ disk' = disk /\ author' = author
  BY DEF Fewer, Restrict
<1>2. nextId' \in Nat \ {0} /\ nextId' >= nextId /\ nextId \in Nat
  BY DEF RegistrySound
<1>3. \A k \in DOMAIN open' : InstanceSound(open'[k]) /\ open'[k].id < nextId'
  BY <1>1, <1>2 DEF RegistrySound, InstanceSound
<1>4. \A k, l \in DOMAIN open' : open'[k].id = open'[l].id => k = l
  BY <1>1 DEF RegistrySound
<1>5. \A k \in DOMAIN open' : OnDisk(open'[k], disk', author')
  BY <1>1 DEF RegistrySound
<1>6. author' \in [Paths -> Nat] /\ DOMAIN disk' \subseteq Paths /\ \A path \in DOMAIN disk' : IsDefinition(disk'[path])
  BY <1>1 DEF RegistrySound
<1> QED BY <1>1, <1>2, <1>3, <1>4, <1>5, <1>6 DEF RegistrySound

(* A file is written or deleted by no instance.                            *)
Filed(files, path) == disk' = files /\ author' = [author EXCEPT ![path] = 0] /\ UNCHANGED <<open, nextId>>

LEMMA SoundFiled ==
  ASSUME RegistrySound, NEW path \in Paths, NEW files, Filed(files, path), DOMAIN files \subseteq Paths,
         \A p \in DOMAIN files : IsDefinition(files[p]),
         \A p \in DOMAIN disk \ {path} : p \in DOMAIN files /\ files[p] = disk[p],
         steps' \in 0 .. MaxSteps
  PROVE  RegistrySound'
<1>1. /\ open' = open /\ nextId' = nextId /\ disk' = files /\ author' = [author EXCEPT ![path] = 0]
  BY DEF Filed
<1>2. author' \in [Paths -> Nat]
  BY <1>1 DEF RegistrySound
<1>3. \A k \in DOMAIN open : OnDisk(open[k], files, [author EXCEPT ![path] = 0])
  BY OthersOnDisk DEF RegistrySound, InstanceSound
<1>4. \A k \in DOMAIN open' : OnDisk(open'[k], disk', author')
  BY <1>1, <1>3
<1> QED BY <1>1, <1>2, <1>4 DEF RegistrySound

(* One workspace is another afterwards, by the same id.                    *)
Replaced(k, inst) == open' = [open EXCEPT ![k] = inst] /\ nextId' = nextId /\ inst.id = open[k].id

LEMMA SoundReplaced ==
  ASSUME RegistrySound, NEW k \in DOMAIN open, NEW inst, InstanceSound(inst), Replaced(k, inst),
         author' \in [Paths -> Nat], DOMAIN disk' \subseteq Paths, \A p \in DOMAIN disk' : IsDefinition(disk'[p]),
         OnDisk(inst, disk', author'), \A l \in DOMAIN open \ {k} : OnDisk(open[l], disk', author'),
         steps' \in 0 .. MaxSteps
  PROVE  RegistrySound'
<1>1. /\ open' = [open EXCEPT ![k] = inst] /\ nextId' = nextId /\ inst.id = open[k].id
  BY DEF Replaced
<1>2. /\ DOMAIN open' = DOMAIN open /\ open'[k] = inst /\ open' = [l \in DOMAIN open' |-> open'[l]]
      /\ \A l \in DOMAIN open \ {k} : open'[l] = open[l]
      /\ \A l \in DOMAIN open : open'[l].id = open[l].id
  BY <1>1
<1>3. \A l \in DOMAIN open' : InstanceSound(open'[l]) /\ open'[l].id < nextId'
  BY <1>1, <1>2 DEF RegistrySound
<1>4. \A l, m \in DOMAIN open' : open'[l].id = open'[m].id => l = m
  BY <1>2 DEF RegistrySound
<1>5. \A l \in DOMAIN open' : OnDisk(open'[l], disk', author')
  BY <1>2
<1> QED BY <1>1, <1>2, <1>3, <1>4, <1>5 DEF RegistrySound

(* A workspace is there under a name, in place of any that was.            *)
Added(key, inst) == open' = With(open, key, inst) /\ nextId' = nextId + 1 /\ inst.id = nextId /\ disk' = disk

LEMMA SoundAdded ==
  ASSUME RegistrySound, NEW key, NEW inst, InstanceSound(inst), Added(key, inst),
         author' \in [Paths -> Nat], OnDisk(inst, disk, author'),
         \A l \in DOMAIN open : OnDisk(open[l], disk, author'),
         steps' \in 0 .. MaxSteps
  PROVE  RegistrySound'
<1>1. /\ nextId' = nextId + 1 /\ inst.id = nextId /\ disk' = disk
      /\ open' = [k \in DOMAIN open \cup {key} |-> IF k = key THEN inst ELSE open[k]]
  BY DEF Added, With
<1>2. /\ DOMAIN open' = DOMAIN open \cup {key} /\ open'[key] = inst /\ open' = [l \in DOMAIN open' |-> open'[l]]
      /\ \A l \in DOMAIN open \ {key} : open'[l] = open[l]
  BY <1>1
<1>3. nextId \in Nat \ {0} /\ \A l \in DOMAIN open : InstanceSound(open[l]) /\ open[l].id < nextId /\ open[l].id \in Nat
  BY DEF RegistrySound, InstanceSound
<1>4. \A l \in DOMAIN open' : InstanceSound(open'[l])
  BY <1>2, <1>3
<1>5. \A l \in DOMAIN open' : open'[l].id < nextId'
  BY <1>1, <1>2, <1>3
<1>6. \A l, m \in DOMAIN open' : open'[l].id = open'[m].id => l = m
  <2> SUFFICES ASSUME NEW l \in DOMAIN open', NEW m \in DOMAIN open', open'[l].id = open'[m].id PROVE l = m
    OBVIOUS
  <2>1. CASE l = key
    BY <2>1, <1>1, <1>2, <1>3
  <2>2. CASE m = key
    BY <2>2, <1>1, <1>2, <1>3
  <2>3. CASE l # key /\ m # key
    <3>1. l \in DOMAIN open /\ m \in DOMAIN open /\ open[l].id = open[m].id
      BY <2>3, <1>2
    <3> QED BY <3>1 DEF RegistrySound
  <2> QED BY <2>1, <2>2, <2>3
<1>7. \A l \in DOMAIN open' : OnDisk(open'[l], disk', author')
  BY <1>1, <1>2
<1>8. nextId' \in Nat \ {0}
  BY <1>1, <1>3
<1> QED BY <1>1, <1>2, <1>4, <1>5, <1>6, <1>7, <1>8 DEF RegistrySound

LEMMA SoundEdit ==
  ASSUME RegistrySound, NEW k \in DOMAIN open, NEW inst, EditOf(inst, open[k]), Edit(k, inst)
  PROVE  RegistrySound'
<1>1. steps' \in 0 .. MaxSteps /\ Replaced(k, inst) /\ disk' = disk /\ author' = author
  BY StepCounted DEF Edit, Replaced, EditOf
<1>2. OnDisk(inst, disk', author')
  <2>1. OnDisk(open[k], disk, author)
    BY DEF RegistrySound
  <2> QED BY <1>1, <2>1 DEF OnDisk, EditOf
<1>3. InstanceSound(inst)
  BY DEF EditOf
<1>4. /\ author' \in [Paths -> Nat] /\ DOMAIN disk' \subseteq Paths /\ \A p \in DOMAIN disk' : IsDefinition(disk'[p])
      /\ \A l \in DOMAIN open \ {k} : OnDisk(open[l], disk', author')
  BY <1>1 DEF RegistrySound
<1> QED BY <1>1, <1>2, <1>3, <1>4, SoundReplaced

(* An edit leaves a workspace sound, under the names and the id it had.    *)
Edited(k) == \E inst : EditOf(inst, open[k]) /\ Edit(k, inst)

LEMMA SoundRename ==
  ASSUME RegistrySound, NEW k, NEW new, Rename(k, new)
  PROVE  RegistrySound'
<1> DEFINE old == open[k]
           inst == [old EXCEPT !.name = new]
<1>1. /\ k \in DOMAIN open /\ new \notin DOMAIN open
      /\ open' = With(Restrict(open, DOMAIN open \ {k}), new, inst)
      /\ nextId' = nextId /\ disk' = disk /\ author' = author
  BY DEF Rename
<1>2. InstanceSound(old) /\ old.id < nextId /\ OnDisk(old, disk, author)
  BY <1>1 DEF RegistrySound
<1>3. IsInstance(old)
  BY <1>2 DEF InstanceSound
<1>4. /\ IsInstance(inst) /\ inst.id = old.id /\ inst.tabs = old.tabs /\ inst.panes = old.panes /\ inst.next = old.next
      /\ inst.saved = old.saved /\ inst.path = old.path /\ inst.cut = old.cut /\ inst.collided = old.collided
  <2> HIDE DEF old
  <2> QED BY <1>3 DEF IsInstance, Has
<1> HIDE DEF inst
<1>5. InstanceSound(inst) /\ OnDisk(inst, disk, author)
  BY <1>2, <1>4 DEF InstanceSound, OnDisk
<1>6. /\ DOMAIN open' = (DOMAIN open \ {k}) \cup {new} /\ open'[new] = inst /\ open' = [l \in DOMAIN open' |-> open'[l]]
      /\ \A l \in DOMAIN open \ {k} : open'[l] = open[l]
  BY <1>1 DEF With, Restrict
<1>7. steps' \in 0 .. MaxSteps
  BY StepCounted DEF Rename
<1> HIDE DEF old
<1>8. \A l \in DOMAIN open' : InstanceSound(open'[l]) /\ open'[l].id < nextId'
  <2>1. InstanceSound(open'[new]) /\ open'[new].id < nextId'
    BY <1>1, <1>2, <1>4, <1>5, <1>6
  <2>2. \A l \in DOMAIN open \ {k} : InstanceSound(open'[l]) /\ open'[l].id < nextId'
    BY <1>1, <1>6 DEF RegistrySound
  <2> QED BY <2>1, <2>2, <1>6
<1>9. \A l, m \in DOMAIN open' : open'[l].id = open'[m].id => l = m
  <2>1. \A l \in DOMAIN open : l # k => open[l].id # old.id
    BY <1>1 DEF RegistrySound, old
  <2>2. \A l \in DOMAIN open' : l # new => l \in DOMAIN open /\ l # k /\ open'[l] = open[l]
    BY <1>6
  <2>3. open'[new].id = old.id
    BY <1>4, <1>6
  <2>4. \A l, m \in DOMAIN open : open[l].id = open[m].id => l = m
    BY DEF RegistrySound
  <2> SUFFICES ASSUME NEW l \in DOMAIN open', NEW m \in DOMAIN open', open'[l].id = open'[m].id PROVE l = m
    OBVIOUS
  <2>5. CASE l = new /\ m # new
    BY <2>5, <2>1, <2>2, <2>3
  <2>6. CASE l # new /\ m = new
    BY <2>6, <2>1, <2>2, <2>3
  <2>7. CASE l # new /\ m # new
    BY <2>7, <2>2, <2>4
  <2> QED BY <2>5, <2>6, <2>7
<1>10. \A l \in DOMAIN open' : OnDisk(open'[l], disk', author')
  BY <1>1, <1>5, <1>6 DEF RegistrySound
<1> QED BY <1>1, <1>6, <1>7, <1>8, <1>9, <1>10 DEF RegistrySound

LEMMA SoundSave ==
  ASSUME RegistrySound, NEW k, NEW given, Save(k, given)
  PROVE  RegistrySound'
<1> DEFINE path == SavePath(k, given)
           old == open[k]
           inst == MarkSaved(old, path)
           files == With(disk, path, Saved(old))
           by == [author EXCEPT ![path] = old.id]
<1>1. /\ k \in DOMAIN open /\ path \in Paths /\ disk' = files /\ author' = by
      /\ open' = [open EXCEPT ![k] = MarkSaved(@, path)] /\ nextId' = nextId
  BY DEF Save
<1>2. steps' \in 0 .. MaxSteps
  BY StepCounted DEF Save
<1>3. InstanceSound(old) /\ old.id \in Nat /\ author \in [Paths -> Nat]
  BY <1>1 DEF RegistrySound, InstanceSound
<1> HIDE DEF path
<1>4. /\ InstanceSound(inst) /\ inst.id = old.id
      /\ inst.saved = <<Saved(old)>> /\ inst.path = <<path>>
  BY <1>1, <1>3, InstanceMarked
<1>5. IsDefinition(Saved(old)) /\ Kept(Saved(old)) = Saved(old)
  BY <1>3, SavedTyped
<1>6. /\ DOMAIN files = DOMAIN disk \cup {path} /\ files[path] = Saved(old)
      /\ \A p \in DOMAIN disk \ {path} : p \in DOMAIN files /\ files[p] = disk[p]
  BY DEF With
<1>7. Replaced(k, inst)
  BY <1>1, <1>4 DEF Replaced
<1> HIDE DEF inst, files
<1>8. OnDisk(inst, disk', author')
  BY <1>1, <1>4, <1>5, <1>6 DEF OnDisk
<1>9. \A l \in DOMAIN open \ {k} : open[l].id # old.id
  BY <1>1 DEF RegistrySound
<1> HIDE DEF old
<1>10. \A l \in DOMAIN open \ {k} : OnDisk(open[l], files, by)
  BY <1>1, <1>3, <1>6, <1>9, OthersOnDisk
<1>11. author' \in [Paths -> Nat] /\ DOMAIN disk' \subseteq Paths
  BY <1>1, <1>3, <1>6 DEF RegistrySound
<1>12. \A p \in DOMAIN disk' : IsDefinition(disk'[p])
  BY <1>1, <1>5, <1>6 DEF RegistrySound
<1> QED BY <1>1, <1>2, <1>4, <1>7, <1>8, <1>10, <1>11, <1>12, SoundReplaced

LEMMA GarbageTyped == IsDefinition(Garbage)
BY NoItems DEF IsDefinition, Garbage

LEMMA SoundSaveFails ==
  ASSUME RegistrySound, NEW k, NEW given, NEW cut \in BOOLEAN, SaveFails(k, given, cut)
  PROVE  RegistrySound'
<1> DEFINE path == SavePath(k, given)
           old == open[k]
           own == cut /\ old.path = <<path>>
           inst == [old EXCEPT !.cut = @ \/ own]
           files == IF cut THEN With(disk, path, Garbage) ELSE disk
           by == IF cut THEN [author EXCEPT ![path] = old.id] ELSE author
<1>1. /\ k \in DOMAIN open /\ path \in Paths /\ disk' = files /\ author' = by
      /\ open' = [open EXCEPT ![k].cut = @ \/ own] /\ nextId' = nextId /\ steps' \in 0 .. MaxSteps
  BY StepCounted DEF SaveFails
<1>2. /\ InstanceSound(old) /\ IsInstance(old) /\ old.id \in Nat /\ author \in [Paths -> Nat]
      /\ SavedSound(old.saved, old.path) /\ OnDisk(old, disk, author)
  BY <1>1 DEF RegistrySound, InstanceSound
<1>3. open' = [open EXCEPT ![k] = inst]
  BY <1>1
<1> HIDE DEF path, own
<1>4. /\ IsInstance(inst) /\ inst.id = old.id /\ inst.name = old.name /\ inst.tabs = old.tabs /\ inst.panes = old.panes
      /\ inst.next = old.next /\ inst.saved = old.saved /\ inst.path = old.path /\ inst.collided = old.collided
      /\ inst.cut = (old.cut \/ own)
  <2> HIDE DEF old
  <2> QED BY <1>2 DEF IsInstance, Has
<1> HIDE DEF inst
<1>5. InstanceSound(inst) /\ Replaced(k, inst)
  BY <1>1, <1>2, <1>3, <1>4 DEF InstanceSound, Replaced
<1>6. /\ DOMAIN files \subseteq Paths /\ DOMAIN disk \subseteq DOMAIN files /\ (cut => path \in DOMAIN files /\ files[path] = Garbage)
      /\ \A p \in DOMAIN disk : (~cut \/ p # path) => files[p] = disk[p]
      /\ \A p \in DOMAIN files : IsDefinition(files[p])
  BY <1>1, GarbageTyped DEF RegistrySound, With
<1>7. by \in [Paths -> Nat]
  BY <1>1, <1>2
<1>8. \A l \in DOMAIN open \ {k} : OnDisk(open[l], files, by)
  <2>1. CASE cut
    <3>1. \A l \in DOMAIN open \ {k} : open[l].id # old.id
      BY <1>1 DEF RegistrySound
    <3>2. by = [author EXCEPT ![path] = old.id] /\ \A p \in DOMAIN disk \ {path} : p \in DOMAIN files /\ files[p] = disk[p]
      BY <2>1, <1>6
    <3> HIDE DEF old, files, by
    <3> QED BY <3>1, <3>2, <1>1, <1>2, OthersOnDisk
  <2>2. CASE ~cut
    BY <2>2 DEF RegistrySound
  <2> QED BY <2>1, <2>2
<1>9. OnDisk(inst, files, by)
  <2> SUFFICES ASSUME inst.path # <<>>, by[inst.path[1]] = inst.id
               PROVE  /\ inst.path[1] \in DOMAIN files
                      /\ inst.saved = <<Kept(files[inst.path[1]])>> \/ (inst.cut /\ files[inst.path[1]] = Garbage)
    BY DEF OnDisk
  <2>1. old.path = <<old.path[1]>> /\ old.path[1] \in Paths
    BY <1>2, <1>4 DEF SavedSound
  <2>2. CASE cut /\ old.path[1] = path
    <3>1. old.path = <<path>>
      BY <2>1, <2>2
    <3>2. own
      BY <2>2, <3>1 DEF own
    <3> QED BY <2>2, <3>2, <1>4, <1>6
  <2>3. CASE ~(cut /\ old.path[1] = path)
    <3>1. by[old.path[1]] = author[old.path[1]]
      BY <2>1, <2>3, <1>1, <1>2
    <3>2. /\ old.path # <<>> /\ author[old.path[1]] = old.id
      BY <3>1, <1>4
    <3>3. /\ old.path[1] \in DOMAIN disk
          /\ old.saved = <<Kept(disk[old.path[1]])>> \/ (old.cut /\ disk[old.path[1]] = Garbage)
      BY <3>2, <1>2 DEF OnDisk
    <3>4. old.path[1] \in DOMAIN files /\ files[old.path[1]] = disk[old.path[1]]
      BY <3>3, <2>3, <1>6
    <3> HIDE DEF files, by, old
    <3> QED BY <3>3, <3>4, <1>4
  <2> QED BY <2>2, <2>3
<1> HIDE DEF files, by
<1> QED BY <1>1, <1>5, <1>6, <1>7, <1>8, <1>9, SoundReplaced

LEMMA SoundWrite ==
  ASSUME RegistrySound, NEW path \in Paths, NEW def \in Written, Write(path, def)
  PROVE  RegistrySound'
<1> DEFINE files == With(disk, path, def)
<1>1. Filed(files, path) /\ steps' \in 0 .. MaxSteps
  BY RegistryAssumption DEF Write, Filed, Running, RegistrySound
<1>2. /\ DOMAIN files = DOMAIN disk \cup {path} /\ files[path] = def
      /\ \A p \in DOMAIN disk \ {path} : p \in DOMAIN files /\ files[p] = disk[p]
  BY DEF With
<1> HIDE DEF files
<1>3. DOMAIN files \subseteq Paths /\ \A p \in DOMAIN files : IsDefinition(files[p])
  BY <1>2, RegistryAssumption DEF RegistrySound
<1> QED BY <1>1, <1>2, <1>3, SoundFiled

LEMMA SoundDelete ==
  ASSUME RegistrySound, NEW path \in Paths, Delete(path)
  PROVE  RegistrySound'
<1> DEFINE files == Restrict(disk, DOMAIN disk \ {path})
<1>1. Filed(files, path) /\ steps' \in 0 .. MaxSteps
  BY RegistryAssumption DEF Delete, Filed, Running, RegistrySound
<1>2. /\ DOMAIN files = DOMAIN disk \ {path}
      /\ \A p \in DOMAIN disk \ {path} : p \in DOMAIN files /\ files[p] = disk[p]
  BY DEF Restrict
<1> HIDE DEF files
<1>3. DOMAIN files \subseteq Paths /\ \A p \in DOMAIN files : IsDefinition(files[p])
  BY <1>2 DEF RegistrySound
<1> QED BY <1>1, <1>2, <1>3, SoundFiled

LEMMA SoundRecreate ==
  ASSUME RegistrySound, NEW k, NEW cwd, NEW job \in BOOLEAN, Recreate(k, cwd, job)
  PROVE  RegistrySound'
<1> DEFINE loaded == Load(disk, k, <<>>, cwd)
           old    == open[k]
<1>1. k \in DOMAIN open /\ steps' \in 0 .. MaxSteps
  <2>1. k \in DOMAIN open /\ \E result : Answer("recreate", result)
    BY DEF Recreate, Refuse
  <2> QED BY <2>1, StepCounted
<1>2. InstanceSound(old) /\ old.id \in Nat /\ author \in [Paths -> Nat] /\ OnDisk(old, disk, author)
  BY <1>1 DEF RegistrySound, InstanceSound
<1>3. CASE loaded.result # "loaded"
  <2>1. Refuse("recreate")
    BY <1>3 DEF Recreate
  <2> QED BY <1>1, <2>1 DEF RegistrySound, Refuse
<1>4. CASE loaded.result = "loaded" /\ job
  <2> DEFINE with == Populated(old, loaded.def)
             inst == MarkSaved(with, loaded.path)
             by   == [author EXCEPT ![loaded.path] = old.id]
  <2>1. open' = [open EXCEPT ![k] = inst] /\ author' = by /\ nextId' = nextId /\ disk' = disk
    BY <1>4 DEF Recreate, Refuse
  <2>2. loaded.path \in DOMAIN disk /\ loaded.def = disk[loaded.path]
    BY <1>4, LoadedFrom
  <2>3. loaded.path \in Paths /\ IsDefinition(loaded.def)
    BY <2>2 DEF RegistrySound
  <2> HIDE DEF loaded
  <2>4. InstanceSound(with) /\ with.id = old.id /\ Saved(with) = Kept(loaded.def)
    BY <1>2, <2>3, InstancePopulated
  <2> HIDE DEF with
  <2>5. InstanceSound(inst) /\ inst.id = old.id /\ inst.saved = <<Kept(loaded.def)>> /\ inst.path = <<loaded.path>>
    BY <2>3, <2>4, InstanceMarked
  <2> HIDE DEF inst
  <2>6. Replaced(k, inst)
    BY <2>1, <2>5 DEF Replaced
  <2>7. OnDisk(inst, disk', author')
    BY <2>1, <2>2, <2>5 DEF OnDisk
  <2>8. \A l \in DOMAIN open \ {k} : open[l].id # old.id
    BY <1>1 DEF RegistrySound
  <2>9. author' \in [Paths -> Nat] /\ DOMAIN disk' \subseteq Paths /\ \A p \in DOMAIN disk' : IsDefinition(disk'[p])
    BY <1>2, <2>1 DEF RegistrySound
  <2> HIDE DEF old
  <2>10. \A l \in DOMAIN open \ {k} : OnDisk(open[l], disk, by)
    BY <1>2, <2>3, <2>8, OthersOnDisk
  <2> QED BY <1>1, <2>1, <2>5, <2>6, <2>7, <2>9, <2>10, SoundReplaced
<1>5. CASE loaded.result = "loaded" /\ ~job
  <2> DEFINE name == loaded.def.name
             made == [old EXCEPT !.name = name, !.tabs = <<>>, !.panes = <<>>]
  <2>1. open' = [open EXCEPT ![k] = made] /\ author' = author /\ nextId' = nextId /\ disk' = disk
    BY <1>5 DEF Recreate, Refuse
  <2> HIDE DEF name
  <2>2. IsInstance(old)
    BY <1>2 DEF InstanceSound
  <2>4. /\ IsInstance(made) /\ made.id = old.id /\ made.tabs = <<>> /\ made.panes = <<>> /\ made.next = old.next
        /\ made.saved = old.saved /\ made.path = old.path /\ made.cut = old.cut /\ made.collided = old.collided
    <3> HIDE DEF old
    <3> QED BY <2>2 DEF IsInstance, Has
  <2> HIDE DEF made
  <2>5. InstanceSound(made) /\ OnDisk(made, disk, author)
    <3>1. TabsSound(made.tabs) /\ RecordsSound(made.panes) /\ Owned(made.tabs, DOMAIN made.panes)
      BY <2>4, NoItems DEF TabsSound, RecordsSound, Owned
    <3> QED BY <1>2, <2>4, <3>1 DEF InstanceSound, OnDisk
  <2>6. Replaced(k, made)
    BY <2>1, <2>4 DEF Replaced
  <2>7. /\ author' \in [Paths -> Nat] /\ DOMAIN disk' \subseteq Paths /\ \A p \in DOMAIN disk' : IsDefinition(disk'[p])
        /\ \A l \in DOMAIN open \ {k} : OnDisk(open[l], disk', author')
    BY <2>1 DEF RegistrySound
  <2> QED BY <1>1, <2>1, <2>5, <2>6, <2>7, SoundReplaced
<1> QED BY <1>3, <1>4, <1>5

LEMMA SoundOpen ==
  ASSUME RegistrySound, NEW r, NEW job \in BOOLEAN, Open(r, job)
  PROVE  RegistrySound'
<1> DEFINE key    == Effective(r)
           loaded == Loaded(r)
           def    == Definition(r, loaded)
           new    == Unopened(nextId)
           inst   == Opened(nextId, def)
           marked == IF loaded.result = "loaded" THEN MarkSaved(inst, loaded.path) ELSE inst
<1>1. /\ nextId' = nextId + 1 /\ disk' = disk
      /\ open' = IF job THEN With(open, key, marked) ELSE Restrict(open, DOMAIN open \ {key})
      /\ author' = IF job /\ loaded.result = "loaded" THEN [author EXCEPT ![loaded.path] = nextId] ELSE author
  BY DEF Open
<1>2. steps' \in 0 .. MaxSteps
  BY StepCounted DEF Open
<1>3. nextId \in Nat \ {0} /\ author \in [Paths -> Nat]
  BY DEF RegistrySound
<1>4. CASE ~job
  <2>1. Fewer(DOMAIN open \ {key})
    BY <1>1, <1>4 DEF Fewer
  <2> QED BY <1>1, <1>2, <2>1, SoundFewer
<1>5. loaded.result = "loaded" => loaded.path \in DOMAIN disk /\ loaded.def = disk[loaded.path]
  <2>1. CASE FromFile(r)
    BY <2>1, LoadedFrom DEF Loaded
  <2>2. CASE ~FromFile(r)
    BY <2>2 DEF Loaded
  <2> QED BY <2>1, <2>2
<1>6. IsDefinition(def)
  <2>1. CASE loaded.result = "loaded"
    <3>1. def = disk[loaded.path] /\ loaded.path \in DOMAIN disk
      BY <1>5, <2>1 DEF Definition
    <3> HIDE DEF def, loaded
    <3> QED BY <3>1 DEF RegistrySound
  <2>2. CASE loaded.result # "loaded"
    BY <2>2, SynthesizedTyped DEF Definition
  <2> QED BY <2>1, <2>2
<1>7. loaded.result = "loaded" => def = loaded.def /\ loaded.path \in Paths
  BY <1>5 DEF Definition, RegistrySound
<1> HIDE DEF def, loaded, key
<1>8. /\ InstanceSound(inst) /\ inst.id = nextId /\ inst.saved = <<>> /\ inst.path = <<>>
      /\ Saved(inst) = Kept(def)
  <2>1. InstanceSound(new)
    BY <1>3, InstanceNew
  <2>2. inst = Populated(new, def)
    BY DEF Opened
  <2>3. new.id = nextId /\ new.saved = <<>> /\ new.path = <<>>
    BY DEF Unopened
  <2> HIDE DEF new, inst
  <2> QED BY <1>6, <2>1, <2>2, <2>3, InstancePopulated
<1> HIDE DEF inst
<1>9. \A l \in DOMAIN open : open[l].id # nextId /\ OnDisk(open[l], disk, author)
  BY <1>3 DEF RegistrySound, InstanceSound
<1>10. CASE job /\ loaded.result = "loaded"
  <2> DEFINE with == MarkSaved(inst, loaded.path)
  <2>1. InstanceSound(with) /\ with.id = nextId /\ with.saved = <<Kept(def)>> /\ with.path = <<loaded.path>>
    BY <1>7, <1>8, <1>10, InstanceMarked
  <2>2. Added(key, with) /\ author' = [author EXCEPT ![loaded.path] = nextId]
    BY <1>1, <1>10, <2>1 DEF Added
  <2> HIDE DEF with
  <2>3. OnDisk(with, disk, author')
    BY <1>5, <1>7, <1>10, <2>1, <2>2 DEF OnDisk
  <2>4. \A l \in DOMAIN open : OnDisk(open[l], disk, [author EXCEPT ![loaded.path] = nextId])
    BY <1>3, <1>7, <1>9, <1>10, OthersOnDisk
  <2>5. author' \in [Paths -> Nat]
    BY <1>3, <2>2
  <2> QED BY <1>2, <2>1, <2>2, <2>3, <2>4, <2>5, SoundAdded
<1>11. CASE job /\ loaded.result # "loaded"
  <2>1. Added(key, inst) /\ author' = author
    BY <1>1, <1>8, <1>11 DEF Added
  <2>2. OnDisk(inst, disk, author')
    BY <1>8 DEF OnDisk
  <2> QED BY <1>2, <1>3, <1>8, <1>9, <2>1, <2>2, SoundAdded
<1> QED BY <1>4, <1>10, <1>11

(* The first of some places, where there are any.                          *)
LEMMA MinIn ==
  ASSUME NEW S \in SUBSET Nat, S # {}
  PROVE  Min(S) \in S
<1> DEFINE R == {ss \in Nat \X Nat : ss[1] < ss[2]}
<1>1. IsWellFoundedOn(R, Nat)
  BY NatLessThanWellFounded DEF OpToRel
<1>2. PICK x \in S : \A y \in S : <<y, x>> \notin R
  <2> HIDE DEF R
  <2> QED BY <1>1, WFMin
<1>3. \A y \in S : x <= y
  <2> SUFFICES ASSUME NEW y \in S, ~(x <= y) PROVE FALSE
    OBVIOUS
  <2>1. y < x /\ <<y, x>> \in Nat \X Nat
    OBVIOUS
  <2>2. <<y, x>>[1] < <<y, x>>[2]
    BY <2>1
  <2>3. <<y, x>> \in R
    BY <2>1, <2>2
  <2> QED BY <2>3, <1>2
<1>4. \E m \in S : \A y \in S : m <= y
  BY <1>3
<1>5. (CHOOSE m \in S : \A y \in S : m <= y) \in S
  BY <1>4
<1> QED BY <1>5 DEF Min

LEMMA TabFound ==
  ASSUME NEW inst, TabsSound(inst.tabs), NEW id
  PROVE  /\ TabOf(inst, id) # 0 => TabOf(inst, id) \in DOMAIN inst.tabs /\ id \in ToSet(inst.tabs[TabOf(inst, id)].panes)
         /\ (\E t \in DOMAIN inst.tabs : id \in ToSet(inst.tabs[t].panes)) => TabOf(inst, id) # 0
<1> DEFINE those == {t \in 1 .. Len(inst.tabs) : id \in ToSet(inst.tabs[t].panes)}
<1>1. DOMAIN inst.tabs = 1 .. Len(inst.tabs) /\ Len(inst.tabs) \in Nat
  BY SeqOfItems DEF TabsSound
<1>2. TabOf(inst, id) = IF those # {} THEN Min(those) ELSE 0
  BY DEF TabOf, SelectInSeq
<1>3. those \in SUBSET Nat /\ those \subseteq 1 .. Len(inst.tabs)
  BY <1>1
<1>4. those # {} => Min(those) \in those
  <2> HIDE DEF those
  <2> QED BY <1>3, MinIn
<1>5. those # {} => Min(those) # 0
  BY <1>4, <1>1
<1>6. \A t \in those : t \in DOMAIN inst.tabs /\ id \in ToSet(inst.tabs[t].panes)
  BY <1>1
<1>7. (\E t \in DOMAIN inst.tabs : id \in ToSet(inst.tabs[t].panes)) => those # {}
  BY <1>1
<1> HIDE DEF those
<1> QED BY <1>2, <1>4, <1>5, <1>6, <1>7

(* Every edit leaves a workspace sound, under the names and the id it had. *)
LEMMA AtPaneEdits ==
  ASSUME RegistrySound, NEW k \in DOMAIN open, NEW t \in DOMAIN open[k].tabs, NEW i \in DOMAIN open[k].tabs[t].panes,
         NEW given, AtPane(k, t, i, given)
  PROVE  Edited(k)
<1> DEFINE inst == open[k]
           id == inst.tabs[t].panes[i]
<1>1. InstanceSound(inst)
  BY DEF RegistrySound
<1>2. ASSUME NEW profile, Split(k, t, i, profile) PROVE Edited(k)
  <2>1. Edit(k, SplitOf(inst, t, i, profile))
    BY <1>2 DEF Split, SplitOf
  <2>2. EditOf(SplitOf(inst, t, i, profile), inst)
    BY <1>1, SplitEdits
  <2> QED BY <2>1, <2>2 DEF Edited
<1>3. ASSUME NEW name, RenamePane(k, id, name) PROVE Edited(k)
  <2> DEFINE new == IF id \in DOMAIN inst.panes THEN Recorded(inst, id, name, inst.panes[id].profile) ELSE inst
  <2>1. Edit(k, new)
    BY <1>3 DEF RenamePane
  <2>2. EditOf(new, inst)
    BY <1>1, RecordEdits, SameEdits
  <2> HIDE DEF new
  <2> QED BY <2>1, <2>2 DEF Edited
<1>4. ASSUME ClosePane(k, t, i) PROVE Edited(k)
  <2>1. Edit(k, PaneClosedOf(inst, t, i))
    BY <1>4 DEF ClosePane, PaneClosedOf
  <2>2. EditOf(PaneClosedOf(inst, t, i), inst)
    BY <1>1, ClosePaneEdits
  <2> QED BY <2>1, <2>2 DEF Edited
<1> QED BY <1>2, <1>3, <1>4 DEF AtPane

LEMMA RenameTabEdited ==
  ASSUME RegistrySound, NEW k \in DOMAIN open, NEW t \in DOMAIN open[k].tabs, NEW name, RenameTab(k, t, name)
  PROVE  Edited(k)
<1> DEFINE inst == open[k]
           new == [inst EXCEPT !.tabs[t].name = name]
<1>1. EditOf(new, inst)
  BY RenameTabEdits DEF RegistrySound
<1>2. Edit(k, new)
  BY DEF RenameTab
<1> HIDE DEF new
<1> QED BY <1>1, <1>2 DEF Edited

LEMMA ChangeProfileEdited ==
  ASSUME RegistrySound, NEW k \in DOMAIN open, NEW t \in DOMAIN open[k].tabs, NEW id \in ToSet(open[k].tabs[t].panes),
         NEW profile, ChangeProfile(k, id, profile)
  PROVE  Edited(k)
<1> DEFINE inst == open[k]
           new == Recorded(inst, id, RecordOf(inst, id).name, profile)
<1>1. EditOf(new, inst)
  <2>1. InstanceSound(inst) /\ \E u \in DOMAIN inst.tabs : id \in ToSet(inst.tabs[u].panes)
    BY DEF RegistrySound
  <2> HIDE DEF inst
  <2> QED BY <2>1, RecordEdits
<1>2. Edit(k, new)
  BY DEF ChangeProfile
<1> HIDE DEF new
<1> QED BY <1>1, <1>2 DEF Edited

LEMMA OnPaneEdits ==
  ASSUME RegistrySound, NEW k \in DOMAIN open, NEW id, OnPane(k, id)
  PROVE  Edited(k)
<1> DEFINE t == TabOf(open[k], id)
<1>1. TabsSound(open[k].tabs)
  BY DEF RegistrySound, InstanceSound
<1>2. t # 0 /\ \/ \E i \in DOMAIN open[k].tabs[t].panes : AtPane(k, t, i, RecordOf(open[k], id).profile)
               \/ \E name \in Texts : RenameTab(k, t, name)
               \/ \E profile \in Profiles : ChangeProfile(k, id, profile)
  BY DEF OnPane
<1>3. t \in DOMAIN open[k].tabs /\ id \in ToSet(open[k].tabs[t].panes)
  BY <1>1, <1>2, TabFound
<1> HIDE DEF t
<1> QED BY <1>2, <1>3, AtPaneEdits, RenameTabEdited, ChangeProfileEdited

LEMMA OnWorkspaceEdits ==
  ASSUME RegistrySound, NEW k \in DOMAIN open, OnWorkspace(k)
  PROVE  Edited(k) \/ (\E new : Rename(k, new)) \/ Save(k, <<>>)
<1>1. InstanceSound(open[k])
  BY DEF RegistrySound
<1>2. ASSUME open[k].tabs # <<>>, NEW i \in DOMAIN open[k].tabs[1].panes, AtPane(k, 1, i, NoProfile) PROVE Edited(k)
  <2>1. IsSeq(open[k].tabs)
    BY <1>1 DEF InstanceSound, TabsSound
  <2>2. 1 \in DOMAIN open[k].tabs
    <3> DEFINE s == open[k].tabs
    <3> HIDE DEF s
    <3>1. IsSeq(s) /\ s # <<>>
      BY <2>1, <1>2 DEF s
    <3>2. s \in Seq({s[j] : j \in 1 .. Len(s)}) /\ DOMAIN s = 1 .. Len(s) /\ Len(s) \in Nat
      BY <3>1, SeqOfItems
    <3>3. 1 \in DOMAIN s
      BY <3>1, <3>2
    <3> QED BY <3>3 DEF s
  <2> QED BY <2>2, <1>2, AtPaneEdits
<1>3. ASSUME NEW t \in DOMAIN open[k].tabs, CloseTab(k, t) PROVE Edited(k)
  <2>1. Edit(k, TabClosedOf(open[k], t))
    BY <1>3 DEF CloseTab, TabClosedOf
  <2>2. EditOf(TabClosedOf(open[k], t), open[k])
    BY <1>1, CloseTabEdits
  <2> QED BY <2>1, <2>2 DEF Edited
<1>4. ASSUME NEW profile, NewTab(k, profile) PROVE Edited(k)
  <2>1. Edit(k, NewTabOf(open[k], profile))
    BY <1>4 DEF NewTab, NewTabOf
  <2>2. EditOf(NewTabOf(open[k], profile), open[k])
    BY <1>1, NewTabEdits
  <2> QED BY <2>1, <2>2 DEF Edited
<1> QED BY <1>2, <1>3, <1>4, RenameTabEdited, ChangeProfileEdited DEF OnWorkspace

(* Targets lead to workspaces that are open.                               *)
LEMMA ReachedOpen ==
  ASSUME NEW target, NEW r \in Resolve(target)
  PROVE  r[1] \in DOMAIN open
<1>1. \A name : Instances(name) \subseteq DOMAIN open
  BY DEF Instances
<1>2. \A k, name : \A q \in OnlyOne(k, name) : q[1] = k
  BY DEF OnlyOne
<1>3. \A k, tab, name : \A q \in InTab(k, tab, name) : q[1] = k
  BY DEF InTab
<1>4. \A path : \A q \in ByPath(path) : q[1] \in DOMAIN open
  <2> SUFFICES ASSUME NEW path, NEW q \in ByPath(path) PROVE q[1] \in DOMAIN open
    OBVIOUS
  <2>1. \/ q \in UNION {OnlyOne(k, path[1]) : k \in DOMAIN open}
        \/ q \in UNION {OnlyOne(k, path[2]) : k \in Instances(path[1])}
        \/ q \in UNION {InTab(k, path[Len(path) - 1], path[Len(path)]) : k \in Instances(path[1])}
    BY DEF ByPath
  <2> QED BY <2>1, <1>1, <1>2, <1>3
<1>5. \/ r \in {<<k, target.number>> : k \in {q \in DOMAIN open : target.number \in DOMAIN open[q].panes}}
      \/ \E k \in DOMAIN open : r \in {<<k, id>> : id \in {p \in DOMAIN open[k].panes : NamedAs(open[k], p, target.path[1])}}
      \/ r \in ByPath(target.path)
  BY DEF Resolve
<1> QED BY <1>4, <1>5

LEMMA SoundNext == RegistrySound /\ [Next]_vars => RegistrySound'
<1> SUFFICES ASSUME RegistrySound, [Next]_vars PROVE RegistrySound'
  OBVIOUS
<1> DEFINE Kept0 == UNCHANGED <<open, nextId, disk, author>> /\ steps' \in 0 .. MaxSteps
<1>1. Kept0 => RegistrySound'
  BY DEF RegistrySound
<1>2. \A op : Refuse(op) => Kept0
  BY StepCounted DEF Refuse
<1>3. ASSUME NEW r \in Opens, OpenRefused(r) \/ OpenReused(r) \/ Open(r, TRUE) \/ Open(r, FALSE) PROVE RegistrySound'
  <2>1. OpenRefused(r) => Kept0
    BY <1>2 DEF OpenRefused
  <2>2. OpenReused(r) => Kept0
    BY StepCounted DEF OpenReused
  <2> HIDE DEF Kept0
  <2>3. Open(r, TRUE) => RegistrySound'
    BY SoundOpen
  <2>4. Open(r, FALSE) => RegistrySound'
    BY SoundOpen
  <2> QED BY <1>1, <1>3, <2>1, <2>2, <2>3, <2>4
<1>4. ASSUME NEW k \in Names, Unknown(k) \/ Close(k) PROVE RegistrySound'
  <2>1. Unknown(k) => Kept0
    BY <1>2 DEF Unknown
  <2> HIDE DEF Kept0
  <2>2. ASSUME Close(k) PROVE RegistrySound'
    <3>1. Fewer(DOMAIN open \ {k}) /\ nextId' = nextId /\ steps' \in 0 .. MaxSteps
      BY <2>2, StepCounted DEF Close, Fewer
    <3> QED BY <3>1, SoundFewer
  <2> QED BY <1>1, <1>4, <2>1, <2>2
<1>5. ASSUME NEW k \in Names, NEW cwd, Recreate(k, cwd, TRUE) \/ Recreate(k, cwd, FALSE) PROVE RegistrySound'
  BY <1>5, SoundRecreate
<1>6. ASSUME NEW k \in Names, NEW given, Save(k, given) \/ SaveFails(k, given, TRUE) \/ SaveFails(k, given, FALSE)
      PROVE  RegistrySound'
  BY <1>6, SoundSave, SoundSaveFails
<1>7. ASSUME NEW k \in Names, NEW new \in Names, Rename(k, new) \/ RenameRefused(k, new) PROVE RegistrySound'
  <2>1. RenameRefused(k, new) => Kept0
    BY <1>2 DEF RenameRefused
  <2> HIDE DEF Kept0
  <2> QED BY <1>1, <1>7, <2>1, SoundRename
<1>8. ASSUME NEW target, NEW r \in Resolve(target), OnPane(r[1], r[2]) PROVE RegistrySound'
  <2>1. r[1] \in DOMAIN open /\ Edited(r[1])
    BY <1>8, ReachedOpen, OnPaneEdits
  <2> QED BY <2>1, SoundEdit DEF Edited
<1>9. ASSUME NEW k \in DOMAIN open, OnWorkspace(k) PROVE RegistrySound'
  <2>1. Edited(k) \/ (\E new : Rename(k, new)) \/ Save(k, <<>>)
    BY <1>9, OnWorkspaceEdits
  <2>2. Edited(k) => RegistrySound'
    BY SoundEdit DEF Edited
  <2> QED BY <2>1, <2>2, SoundRename, SoundSave
<1>10. ASSUME NEW path \in Paths, Delete(path) \/ \E def \in Written : Write(path, def) PROVE RegistrySound'
  BY <1>10, SoundDelete, SoundWrite
<1>11. CASE UNCHANGED vars
  BY <1>1, <1>11 DEF vars, RegistrySound
<1> HIDE DEF Kept0
<1> QED BY <1>3, <1>4, <1>5, <1>6, <1>7, <1>8, <1>9, <1>10, <1>11 DEF Next

LEMMA SoundTyped == RegistrySound => TypeOK
<1> SUFFICES ASSUME RegistrySound PROVE TypeOK
  OBVIOUS
<1>1. ASSUME NEW k \in DOMAIN open
      PROVE  /\ \A t \in DOMAIN open[k].tabs :
                   LET ids == open[k].tabs[t].panes
                   IN  /\ \A i \in DOMAIN ids : ids[i] < open[k].tabs[t].next
                       /\ \A i, j \in DOMAIN ids : ids[i] = ids[j] => i = j
             /\ open[k].collided \/ EachItsOwn(open[k])
             /\ (open[k].saved = <<>>) = (open[k].path = <<>>)
  <2>1. InstanceSound(open[k])
    BY DEF RegistrySound
  <2>2. open[k].collided \/ EachItsOwn(open[k])
    BY <2>1, OwnedAs DEF InstanceSound
  <2>3. (open[k].saved = <<>>) = (open[k].path = <<>>)
    BY <2>1 DEF InstanceSound, SavedSound
  <2> QED BY <2>1, <2>2, <2>3 DEF InstanceSound, TabsSound, TabSound, IdsSound
<1> QED BY <1>1 DEF TypeOK, RegistrySound

LEMMA SoundOnDisk == RegistrySound => CleanMeansOnDisk
<1> SUFFICES ASSUME RegistrySound, NEW k \in DOMAIN open,
                    open[k].path # <<>>, Clean(open[k]), author[open[k].path[1]] = open[k].id
             PROVE  \/ [disk[open[k].path[1]] EXCEPT !.declares = {}, !.windows = FALSE] = Saved(open[k])
                    \/ open[k].cut /\ disk[open[k].path[1]] = Garbage
  BY DEF CleanMeansOnDisk
<1>1. \/ open[k].saved = <<Kept(disk[open[k].path[1]])>>
      \/ open[k].cut /\ disk[open[k].path[1]] = Garbage
  BY DEF RegistrySound, OnDisk
<1>2. open[k].saved = <<Saved(open[k])>>
  BY DEF Clean
<1>3. open[k].saved = <<Kept(disk[open[k].path[1]])>> => Kept(disk[open[k].path[1]]) = Saved(open[k])
  BY <1>2
<1> QED BY <1>1, <1>3 DEF Kept

(* Of items with names no other has, a name leads to its own.              *)
LEMMA Selected ==
  ASSUME NEW items, IsSeq(items), NamesUnique(items), NEW i \in DOMAIN items
  PROVE  LET found == {j \in 1 .. Len(items) : items[j].name = items[i].name}
         IN  found # {} /\ Min(found) = i
<1> DEFINE found == {j \in 1 .. Len(items) : items[j].name = items[i].name}
<1>1. DOMAIN items = 1 .. Len(items) /\ Len(items) \in Nat
  BY SeqOfItems
<1>2. found = {i}
  BY <1>1 DEF NamesUnique
<1>3. Min(found) = i
  BY <1>1, <1>2 DEF Min
<1> QED BY <1>2, <1>3

(* The pane a path names, where no other pane of the tab goes by its name. *)
LEMMA InTabFound ==
  ASSUME RegistrySound, NEW k \in DOMAIN open, NamesUnique(open[k].tabs), NEW t \in DOMAIN open[k].tabs, NEW name,
         NEW id \in ToSet(open[k].tabs[t].panes), NamedAs(open[k], id, name),
         \A other \in ToSet(open[k].tabs[t].panes) : NamedAs(open[k], other, name) => other = id
  PROVE  InTab(k, open[k].tabs[t].name, name) = {<<k, id>>}
<1> DEFINE inst == open[k]
           tabs == inst.tabs
           ids  == tabs[t].panes
           those == {j \in 1 .. Len(ids) : NamedAs(inst, ids[j], name)}
           same  == {j \in 1 .. Len(tabs) : tabs[j].name = tabs[t].name}
           a == SelectInSeq(tabs, LAMBDA x : x.name = tabs[t].name)
           b(u) == SelectInSeq(tabs[u].panes, LAMBDA x : NamedAs(inst, x, name))
           c == IF a = 0 THEN 0 ELSE b(a)
<1>1. /\ IsSeq(tabs) /\ DOMAIN tabs = 1 .. Len(tabs) /\ Len(tabs) \in Nat
      /\ DOMAIN ids = 1 .. Len(ids) /\ Len(ids) \in Nat
  BY SeqOfItems DEF RegistrySound, InstanceSound, TabsSound, TabSound, IdsSound
<1>2. a = t
  <2>1. same # {} /\ Min(same) = t
    <3> HIDE DEF tabs
    <3>1. IsSeq(tabs) /\ NamesUnique(tabs) /\ t \in DOMAIN tabs
      BY <1>1 DEF tabs
    <3> QED BY <3>1, Selected
  <2>2. a = IF same # {} THEN Min(same) ELSE 0
    BY DEF SelectInSeq
  <2> HIDE DEF same
  <2> QED BY <2>1, <2>2
<1>3. b(t) \in 1 .. Len(ids) /\ ids[b(t)] = id
  <2>1. PICK i \in DOMAIN ids : ids[i] = id
    BY DEF ToSet
  <2>2. those # {} /\ those \in SUBSET Nat
    BY <1>1, <2>1
  <2>3. b(t) = IF those # {} THEN Min(those) ELSE 0
    BY DEF SelectInSeq
  <2>4. Min(those) \in those
    <3> HIDE DEF those
    <3> QED BY <2>2, MinIn
  <2>5. b(t) \in those
    <3> HIDE DEF those
    <3> QED BY <2>2, <2>3, <2>4
  <2>6. \A j \in those : ids[j] = id
    <3> SUFFICES ASSUME NEW j \in those PROVE ids[j] = id
      OBVIOUS
    <3>1. j \in DOMAIN ids /\ NamedAs(inst, ids[j], name)
      BY <1>1
    <3>2. ids[j] \in ToSet(ids)
      BY <3>1 DEF ToSet
    <3> QED BY <3>1, <3>2
  <2> QED BY <2>5, <2>6
<1>4. InTab(k, tabs[t].name, name) = IF c = 0 THEN {} ELSE {<<k, tabs[a].panes[c]>>}
  BY DEF InTab
<1> HIDE DEF a, b
<1>5. c = b(t) /\ c # 0
  BY <1>1, <1>2, <1>3
<1> HIDE DEF c
<1> QED BY <1>2, <1>3, <1>4, <1>5

LEMMA CanonicalFound ==
  ASSUME RegistrySound, NEW k \in DOMAIN open, NEW t \in DOMAIN open[k].tabs,
         NEW id \in ToSet(open[k].tabs[t].panes), id \in DOMAIN open[k].panes, Unmistaken(k, id)
  PROVE  Resolve(Path(CanonicalPath(open[k], id))) = {<<k, id>>}
<1> DEFINE inst == open[k]
           at   == TabOf(inst, id)
           path == CanonicalPath(inst, id)
<1>1. at \in DOMAIN inst.tabs /\ id \in ToSet(inst.tabs[at].panes)
  BY TabFound DEF RegistrySound, InstanceSound
<1>2. /\ Instances(inst.name) = {k} /\ NamesUnique(inst.tabs) /\ ToSet(path) \subseteq Idents
      /\ \A other \in ToSet(inst.tabs[at].panes) : NamedAs(inst, other, inst.panes[id].name) => other = id
  BY DEF Unmistaken
<1>3. NamedAs(inst, id, inst.panes[id].name)
  BY DEF NamedAs
<1>4. /\ path # <<>> /\ Len(path) = 3
      /\ path[1] = inst.name /\ path[2] = inst.tabs[at].name /\ path[3] = inst.panes[id].name
  BY DEF CanonicalPath
<1> HIDE DEF path, at
<1>5. InTab(k, path[2], path[3]) = {<<k, id>>}
  BY <1>1, <1>2, <1>3, <1>4, InTabFound
<1>6. ByPath(path) = UNION {InTab(l, path[2], path[3]) : l \in Instances(path[1])}
  <2>1. ByPath(path) = UNION {InTab(l, path[Len(path) - 1], path[Len(path)]) : l \in Instances(path[1])}
    BY <1>2, <1>4 DEF ByPath
  <2> QED BY <1>4, <2>1
<1>7. ByPath(path) = {<<k, id>>}
  BY <1>2, <1>4, <1>5, <1>6
<1>8. Resolve(Path(path)) = ByPath(path)
  BY <1>4 DEF Resolve, Path
<1> QED BY <1>7, <1>8 DEF path

LEMMA SoundCanonical == RegistrySound => CanonicalResolves
<1> SUFFICES ASSUME RegistrySound, NEW k \in DOMAIN open, NEW t \in DOMAIN open[k].tabs,
                    NEW id \in ToSet(open[k].tabs[t].panes)
             PROVE  /\ id \in DOMAIN open[k].panes /\ Unmistaken(k, id)
                          => Resolve(Path(CanonicalPath(open[k], id))) = {<<k, id>>}
                    /\ open[k].collided \/ (id \in DOMAIN open[k].panes /\ TabOf(open[k], id) = t)
  BY SoundTyped DEF CanonicalResolves
<1>1. ASSUME ~open[k].collided PROVE id \in DOMAIN open[k].panes /\ TabOf(open[k], id) = t
  <2>1. Owned(open[k].tabs, DOMAIN open[k].panes) /\ TabsSound(open[k].tabs)
    BY <1>1 DEF RegistrySound, InstanceSound
  <2>2. TabOf(open[k], id) \in DOMAIN open[k].tabs /\ id \in ToSet(open[k].tabs[TabOf(open[k], id)].panes)
    BY <2>1, TabFound
  <2> QED BY <2>1, <2>2 DEF Owned
<1> QED BY <1>1, CanonicalFound

RegistryKept == part = "registry" => RegistrySound

LEMMA RegistryKeptNext == RegistryKept /\ [BothNext]_<<part, vars, launched>> => RegistryKept'
<1> SUFFICES ASSUME RegistryKept, [BothNext]_<<part, vars, launched>>, part' = "registry" PROVE RegistrySound'
  BY DEF RegistryKept
<1>1. part = "registry" /\ [Next]_vars
  <2>1. CASE part = "registry" /\ Next /\ UNCHANGED <<part, launched>>
    BY <2>1
  <2>2. CASE part = "sessions" /\ Sessions!Next /\ UNCHANGED <<part, vars>>
    BY <2>2
  <2>3. CASE UNCHANGED <<part, vars, launched>>
    BY <2>3
  <2> QED BY <2>1, <2>2, <2>3 DEF BothNext
<1> QED BY <1>1, SoundNext DEF RegistryKept

(* What a workspace saved or loaded last is on disk while it is not dirty, *)
(* unless its own failed save cut the file off; and the path a reply gives *)
(* for a pane leads back to the pane's id, and to the pane itself until a  *)
(* split or a new tab hands out an id another tab holds.                   *)
THEOREM SavedIsOnDisk == BothSpec => []SavedAndNamed
<1>1. BothInit => RegistryKept
  BY RegistryInit DEF BothInit, RegistryKept
<1>2. RegistryKept => SavedAndNamed
  BY SoundOnDisk, SoundCanonical DEF RegistryKept, SavedAndNamed
<1> QED BY <1>1, <1>2, RegistryKeptNext, PTL DEF BothSpec

-----------------------------------------------------------------------------
(* What a step may do: nothing when it refuses, and only a step that loads *)
(* a definition gives a workspace a name it is not open under.             *)
NamesAsWere == \A k \in DOMAIN open' : open'[k].name = k \/ (k \in DOMAIN open /\ open'[k].name = open[k].name)

Refusal == reply'.result = "refused" => UNCHANGED <<open, nextId, disk>>

Parting ==
  \A k \in DOMAIN open' :
    open'[k].name # k /\ (k \in DOMAIN open => open[k].name = k) => reply'.op \in {"open", "recreate"}

Meant == Refusal /\ Parting

LEMMA NamesKept == NamesAsWere => Parting
BY DEF NamesAsWere, Parting

LEMMA NothingOpened == open' = open => NamesAsWere
BY DEF NamesAsWere

LEMMA RefusedMeant ==
  ASSUME NEW op, Refuse(op)
  PROVE  Meant
BY NamesKept, NothingOpened DEF Refuse, Refusal, Meant

LEMMA EditMeant ==
  ASSUME NEW k \in DOMAIN open, Edited(k)
  PROVE  Meant
<1>1. PICK inst : EditOf(inst, open[k]) /\ Edit(k, inst)
  BY DEF Edited
<1>2. reply'.result = "ok" /\ open' = [open EXCEPT ![k] = inst] /\ inst.name = open[k].name
  BY <1>1 DEF Edit, Answer, EditOf
<1>3. NamesAsWere
  BY <1>2 DEF NamesAsWere
<1> QED BY <1>2, <1>3, NamesKept DEF Refusal, Meant

LEMMA RenameMeant ==
  ASSUME RegistrySound, NEW k, NEW new, Rename(k, new)
  PROVE  Meant
<1> DEFINE old  == open[k]
           inst == [old EXCEPT !.name = new]
<1>1. /\ k \in DOMAIN open /\ new \notin DOMAIN open /\ reply'.result = "ok"
      /\ open' = With(Restrict(open, DOMAIN open \ {k}), new, inst)
  BY DEF Rename, Answer
<1>2. IsInstance(old)
  BY <1>1 DEF RegistrySound, InstanceSound
<1>3. inst.name = new
  <2> HIDE DEF old
  <2> QED BY <1>2 DEF IsInstance, Has
<1> HIDE DEF inst, old
<1>4. NamesAsWere
  BY <1>1, <1>3 DEF NamesAsWere, With, Restrict
<1> QED BY <1>1, <1>4, NamesKept DEF Refusal, Meant

LEMMA SaveFailsMeant ==
  ASSUME RegistrySound, NEW k, NEW given, NEW cut \in BOOLEAN, SaveFails(k, given, cut)
  PROVE  Meant
<1> DEFINE old  == open[k]
           was  == old.cut \/ (cut /\ old.path = <<SavePath(k, given)>>)
           inst == [old EXCEPT !.cut = was]
<1>1. k \in DOMAIN open /\ open' = [open EXCEPT ![k] = inst] /\ reply'.result = "not written"
  BY DEF SaveFails, Answer
<1>2. IsInstance(old)
  BY <1>1 DEF RegistrySound, InstanceSound
<1>3. inst.name = old.name
  <2> HIDE DEF old, was
  <2> QED BY <1>2 DEF IsInstance, Has
<1> HIDE DEF inst
<1>4. NamesAsWere
  BY <1>1, <1>3 DEF NamesAsWere
<1> QED BY <1>1, <1>4, NamesKept DEF Refusal, Meant

LEMMA SaveMeant ==
  ASSUME RegistrySound, NEW k, NEW given, Save(k, given)
  PROVE  Meant
<1> DEFINE path == SavePath(k, given)
           inst == MarkSaved(open[k], path)
<1>1. k \in DOMAIN open /\ path \in Paths /\ open' = [open EXCEPT ![k] = inst] /\ reply'.result = "ok"
  BY DEF Save, Answer
<1> HIDE DEF path
<1>2. inst.name = open[k].name
  BY <1>1, InstanceMarked DEF RegistrySound
<1> HIDE DEF inst
<1>3. NamesAsWere
  BY <1>1, <1>2 DEF NamesAsWere
<1> QED BY <1>1, <1>3, NamesKept DEF Refusal, Meant

LEMMA OpenMeant ==
  ASSUME NEW r, NEW job \in BOOLEAN, Open(r, job)
  PROVE  Meant
<1>1. reply' = [op |-> "open", result |-> IF job THEN "ok" ELSE "no job"]
  BY DEF Open, Answer
<1>2. reply'.op = "open" /\ reply'.result # "refused"
  BY <1>1
<1> QED BY <1>2 DEF Refusal, Parting, Meant

LEMMA RecreateMeant ==
  ASSUME NEW k, NEW cwd, NEW job \in BOOLEAN, Recreate(k, cwd, job)
  PROVE  Meant
<1>1. Refuse("recreate") \/ reply' = [op |-> "recreate", result |-> IF job THEN "ok" ELSE "no job"]
  BY DEF Recreate, Answer
<1>2. CASE reply' = [op |-> "recreate", result |-> IF job THEN "ok" ELSE "no job"]
  <2>1. reply'.op = "recreate" /\ reply'.result # "refused"
    BY <1>2
  <2> QED BY <2>1 DEF Refusal, Parting, Meant
<1> QED BY <1>1, <1>2, RefusedMeant

LEMMA MeantNext == RegistrySound /\ Next => Meant
<1> SUFFICES ASSUME RegistrySound, Next PROVE Meant
  OBVIOUS
<1>1. ASSUME NEW r \in Opens, OpenRefused(r) \/ OpenReused(r) \/ Open(r, TRUE) \/ Open(r, FALSE) PROVE Meant
  <2>1. OpenRefused(r) => Meant
    BY RefusedMeant DEF OpenRefused
  <2>2. ASSUME OpenReused(r) PROVE Meant
    BY <2>2, NothingOpened, NamesKept DEF OpenReused, Answer, Refusal, Meant
  <2> QED BY <1>1, <2>1, <2>2, OpenMeant
<1>2. ASSUME NEW k \in Names, Unknown(k) \/ Close(k) PROVE Meant
  <2>1. Unknown(k) => Meant
    BY RefusedMeant DEF Unknown
  <2>2. ASSUME Close(k) PROVE Meant
    <3>1. reply'.result = "ok" /\ open' = Restrict(open, DOMAIN open \ {k})
      BY <2>2 DEF Close, Answer
    <3>2. NamesAsWere
      BY <3>1 DEF NamesAsWere, Restrict
    <3> QED BY <3>1, <3>2, NamesKept DEF Refusal, Meant
  <2> QED BY <1>2, <2>1, <2>2
<1>3. ASSUME NEW k \in Names, NEW cwd, Recreate(k, cwd, TRUE) \/ Recreate(k, cwd, FALSE) PROVE Meant
  BY <1>3, RecreateMeant
<1>4. ASSUME NEW k \in Names, NEW given, NEW cut \in BOOLEAN, SaveFails(k, given, cut) PROVE Meant
  BY <1>4, SaveFailsMeant
<1>5. ASSUME NEW k \in Names, NEW new \in Names, RenameRefused(k, new) PROVE Meant
  BY <1>5, RefusedMeant DEF RenameRefused
<1>6. ASSUME NEW target, NEW r \in Resolve(target), OnPane(r[1], r[2]) PROVE Meant
  <2>1. r[1] \in DOMAIN open /\ Edited(r[1])
    BY <1>6, ReachedOpen, OnPaneEdits
  <2> QED BY <2>1, EditMeant
<1>7. ASSUME NEW k \in DOMAIN open, OnWorkspace(k) PROVE Meant
  <2>1. Edited(k) \/ (\E new : Rename(k, new)) \/ Save(k, <<>>)
    BY <1>7, OnWorkspaceEdits
  <2> QED BY <2>1, EditMeant, RenameMeant, SaveMeant
<1>8. ASSUME NEW path \in Paths, Delete(path) \/ \E def \in Written : Write(path, def) PROVE Meant
  <2>1. open' = open /\ reply'.result = "ok"
    BY <1>8 DEF Delete, Write
  <2> QED BY <2>1, NothingOpened, NamesKept DEF Refusal, Meant
<1> QED BY <1>1, <1>2, <1>3, <1>4, <1>5, <1>6, <1>7, <1>8, RenameMeant, SaveMeant DEF Next

(* A request that is refused changes nothing, the workspace it would have  *)
(* recreated survives, and a workspace goes by another name than the one   *)
(* it is open under only after a definition of that name was loaded.       *)
THEOREM OnlyMeantChanges == BothSpec => ChangesMeant
<1>1. BothInit => RegistryKept
  BY RegistryInit DEF BothInit, RegistryKept
<1>2. RegistryKept /\ [BothNext]_<<part, vars, launched>> => [Refusal]_vars /\ [Parting]_vars
  <2> SUFFICES ASSUME RegistryKept, [BothNext]_<<part, vars, launched>> PROVE [Meant]_vars
    BY DEF Meant
  <2>1. CASE part = "registry" /\ Next /\ UNCHANGED <<part, launched>>
    BY <2>1, MeantNext DEF RegistryKept
  <2> QED BY <2>1 DEF BothNext
<1>3. BothSpec => [][Refusal]_vars /\ [][Parting]_vars
  BY <1>1, <1>2, RegistryKeptNext, PTL DEF BothSpec
<1> QED BY <1>3 DEF ChangesMeant, RefusalChangesNothing, NamesPartOnlyByLoading, Refusal, Parting
=============================================================================
