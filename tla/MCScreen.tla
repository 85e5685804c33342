------------------------------- MODULE MCScreen -------------------------------
(* Small screens, control functions of every kind.                         *)
EXTENDS ScreenMirror

MCSizes == {<<2, 3>>, <<3, 2>>}

MCWide == {"W"}

MCMarks == {"mark"}

Bold == Pen(<<<<1>>>>)

MCControls ==
  {With("PRINT", "a"), With("PRINT", "W"), With("PRINT", "mark"), Plainly("IMAGE"),
   Plainly("LF"), Plainly("CR"), Plainly("BS"), Plainly("HT"),
   By("CUU", 1), By("CUD", 2), By("CUF", 1), By("CUB", 1), By("CNL", 1), By("CPL", 1),
   By("CHA", 2), By("VPA", 3), At("CUP", 3, 3), At("CUP", 1, 2),
   By("ED", 0), By("ED", 1), By("ED", 2), By("EL", 0), By("EL", 1), By("EL", 2),
   By("IL", 1), By("DL", 1), By("SU", 1), By("SD", 2),
   By("DCH", 2), By("ICH", 1), By("ECH", 2),
   Bold, Pen(<<<<38, 2, 1, 2, 3>>, <<48>>, <<5>>, <<7>>>>), At("REGION", 1, 2), At("REGION", 1, -1),
   Plainly("SAVE"), Plainly("RESTORE"), Plainly("RIS"),
   With("SHAPE", "bar"), With("KEYBOARD", "kitty"),
   With("SET", "alternate"), With("RESET", "alternate"), With("RESET", "visible"),
   With("SET", "any"), With("SET", "paste"), With("TITLE", "t"), With("PROGRESS", "1"),
   With("LINK", "uri"), Plainly("NOTIFY")}

MCPreludes ==
  {<<>>,
   <<Bold, With("LINK", "uri"), With("PRINT", "a"), With("PRINT", "W"), Plainly("LF"),
     Plainly("LF"), With("PRINT", "a")>>,
   <<At("REGION", 1, 2), With("PRINT", "W"), Plainly("SAVE"), Bold>>,
   <<Plainly("LF"), Plainly("LF"), Plainly("SAVE")>>}

MCTicks ==
  {<<<<With("PRINT", "a")>>, <<With("PRINT", "mark")>>>>,
   <<<<With("PRINT", "a")>>, <<Plainly("IMAGE")>>>>,
   <<<<With("PRINT", "a"), With("PRINT", "a")>>, <<With("PRINT", "W"), By("ED", 0)>>>>,
   <<<<Plainly("LF"), With("PRINT", "a")>>, <<Plainly("CR"), Plainly("NOTIFY")>>>>,
   <<<<With("PRINT", "a"), With("PRINT", "W"), By("EL", 0)>>>>}

=============================================================================
