---------------------------- MODULE TargetUi_proofs ----------------------------
(***************************************************************************)
(* Proofs about TargetUi, for every window, terminal and number of         *)
(* targets: what is on the screen follows from counts of the rows printed, *)
(* as long as the terminal is as high as what is cleared; and what was     *)
(* there before a target is never cleared, on any terminal.                *)
(***************************************************************************)
EXTENDS TargetUi, SequenceTheorems, TLAPS

USE DEF vars, uiVars, historyVars

\* How many stages there may have been, by the last update.
Counted ==
  /\ last.variant = "None" => stages = 0
  /\ last.variant \in {"BootStart", "BootEnd"} => stages <= 1
  /\ last.variant \in {"SetupStart", "SetupEnd"} => stages <= 2

\* What the UI has made of the updates.
Judged ==
  /\ rc = IF ~last.ok THEN "none" ELSE IF last.code = 0 THEN "zero" ELSE "other"
  /\ last.code # 0 => last.variant = "CommandEnd"
  /\ errors # 0 => ~hungUp /\ ~Passed
  /\ errors = 0 /\ ~Passed => expand
  /\ expand /\ Passed => term.showCmd /\ last.variant = "CommandEnd"

\* A run without a terminal, and one on a terminal with room for it.
Printed == ~hungUp /\ ~term.attended => screen = before \o all
Drawn   == ~hungUp /\ term.attended /\ Roomy =>
             screen = (before \o Headings) \o LastOf(lines, WindowSize(lines))

\* On any terminal no more rows can be cleared than the target has printed.
Enough == ~hungUp /\ term.attended =>
            Len(screen) >= Len(before) + 1 + stages + WindowSize(lines)

Current == IF hungUp THEN lines = <<>> ELSE lines = content

IInv == /\ TypeOK /\ Counted /\ Judged
        /\ Current /\ Printed /\ Drawn
        /\ Enough /\ EarlierRowsStay
        /\ PassLeavesTwoRows /\ FailureShownWhole

-----------------------------------------------------------------------------
(***************************************************************************)
(* Facts about rows.                                                       *)
(***************************************************************************)
\* Every row is one.
LEMMA RowsTyped ==
  /\ \A n \in Nat : Heading(n) \in Row /\ Line(n) \in Row /\ Error(n) \in Row
  /\ Pass \in Row /\ Failed \in Row
BY DEF Heading, Line, Error, Pass, Failed, Row

\* Window and height are positive.
LEMMA Sizes ==
  ASSUME term \in [attended : BOOLEAN, height : Heights, showCmd : BOOLEAN]
  PROVE  term.height \in Nat \ {0} /\ Window \in Nat \ {0}
BY WindowAssumption

\* The last n of a sequence are n, and those of a sequence of n are all of it.
LEMMA LastOfProperties ==
  ASSUME NEW s \in Seq(Row), NEW n \in 0..Len(s)
  PROVE  /\ LastOf(s, n) \in Seq(Row) /\ Len(LastOf(s, n)) = n
         /\ n = 0 => LastOf(s, n) = <<>>
         /\ n = Len(s) => LastOf(s, n) = s
<1> DEFINE len == Len(s)
<1>1. len \in Nat /\ \A i \in 1..len : s[i] \in Row
  BY LenProperties
<1>2. len - n + 1 \in Int /\ len \in Int /\ \A i \in len-n+1..len : s[i] \in Row
  BY <1>1
<1>3. /\ LastOf(s, n) \in Seq(Row)
      /\ Len(LastOf(s, n)) = IF len - n + 1 <= len THEN len - (len - n + 1) + 1 ELSE 0
  <2> HIDE DEF len
  <2>1. /\ SubSeq(s, len-n+1, len) \in Seq(Row)
        /\ Len(SubSeq(s, len-n+1, len)) = IF len-n+1 <= len THEN len - (len-n+1) + 1 ELSE 0
    BY ONLY <1>2, SubSeqProperties
  <2>2. QED
    BY <2>1 DEF LastOf, len
<1>4. Len(LastOf(s, n)) = n
  BY <1>1, <1>3
<1>5. ASSUME n = 0
      PROVE  LastOf(s, n) = <<>>
  BY <1>1, <1>5, SubSeqEmpty DEF LastOf
<1>6. ASSUME n = len
      PROVE  LastOf(s, n) = s
  <2>1. len - n + 1 = 1
    BY <1>1, <1>6
  <2>2. QED
    BY <2>1, SubSeqFull DEF LastOf
<1>7. QED
  BY <1>3, <1>4, <1>5, <1>6

\* A window holds no more rows than there are, and no more than fit.
LEMMA WindowProperties ==
  ASSUME NEW l \in Seq(Row),
         term \in [attended : BOOLEAN, height : Heights, showCmd : BOOLEAN]
  PROVE  /\ WindowSize(l) \in 0..Len(l)
         /\ term.attended => WindowSize(l) <= Window /\ WindowSize(l) = Smaller(Len(l), Window)
         /\ l = <<>> => WindowSize(l) = 0
         /\ l # <<>> => WindowSize(l) > 0
         /\ ~term.attended /\ l # <<>> => WindowSize(l) = 1
BY Sizes, LenProperties, EmptySeq DEF WindowSize, Smaller

\* That of a stage that has shown nothing is empty.
LEMMA EmptyWindow ==
  ASSUME lines' = <<>>, term' = term,
         term \in [attended : BOOLEAN, height : Heights, showCmd : BOOLEAN]
  PROVE  WindowSize(lines)' = 0 /\ LastOf(lines, WindowSize(lines))' = <<>>
<1>1. <<>> \in Seq(Row) /\ Len(<<>>) = 0
  BY EmptySeq
<1>2. WindowSize(lines)' = WindowSize(<<>>)
  BY DEF WindowSize
<1>3. WindowSize(<<>>) = 0
  BY <1>1, WindowProperties
<1>4. ASSUME NEW s \in Seq(Row), Len(s) = 0
      PROVE  LastOf(s, 0) = <<>>
  <2>1. 0 \in 0..Len(s)
    BY <1>4
  <2>2. QED
    BY <2>1, LastOfProperties
<1>5. LastOf(lines, WindowSize(lines))' = LastOf(<<>>, 0)
  BY <1>2, <1>3 DEF LastOf
<1>6. QED
  BY <1>1, <1>2, <1>3, <1>4, <1>5

\* Clearing n rows leaves a beginning of what was there, at most n rows shorter.
LEMMA ClearedProperties ==
  ASSUME NEW s \in Seq(Row), NEW n \in Nat,
         term \in [attended : BOOLEAN, height : Heights, showCmd : BOOLEAN]
  PROVE  /\ Cleared(s, n) \in Seq(Row)
         /\ Len(Cleared(s, n)) <= Len(s) /\ Len(Cleared(s, n)) >= Len(s) - n
         /\ ~term.attended \/ n = 0 => Cleared(s, n) = s
         /\ term.attended /\ n <= term.height /\ n <= Len(s) => Len(Cleared(s, n)) = Len(s) - n
         /\ \A i \in 1..Len(Cleared(s, n)) : Cleared(s, n)[i] = s[i]
<1> DEFINE len == Len(s)
           m == Smaller(n, Smaller(term.height, len))
<1>1. len \in Nat /\ \A i \in 1..len : s[i] \in Row
  BY LenProperties
<1>2. CASE ~term.attended
  BY <1>1, <1>2 DEF Cleared
<1>3. CASE term.attended
  <2>1. /\ m \in 0..len /\ m <= n
        /\ n = 0 => m = 0
        /\ n <= term.height /\ n <= len => m = n
    BY <1>1, Sizes DEF Smaller
  <2>2. Cleared(s, n) = SubSeq(s, 1, len - m)
    BY <1>3 DEF Cleared
  <2>3. len - m \in Int /\ \A i \in 1..len-m : s[i] \in Row
    BY <1>1, <2>1
  <2> HIDE DEF len, m
  <2>4. /\ SubSeq(s, 1, len - m) \in Seq(Row)
        /\ Len(SubSeq(s, 1, len - m)) = IF 1 <= len - m THEN (len - m) - 1 + 1 ELSE 0
        /\ \A i \in 1..(len-m)-1+1 : SubSeq(s, 1, len - m)[i] = s[1+i-1]
    BY <2>3, SubSeqProperties
  <2>5. Len(SubSeq(s, 1, len - m)) = len - m
    BY <1>1, <2>1, <2>4
  <2>6. \A i \in 1..len-m : SubSeq(s, 1, len - m)[i] = s[i]
    BY <1>1, <2>1, <2>4
  <2>7. n = 0 => SubSeq(s, 1, len - m) = s
    <3>1. ASSUME n = 0
          PROVE  len - m = len
      BY <1>1, <2>1, <3>1
    <3>2. QED
      BY <3>1, SubSeqFull DEF len
  <2>8. /\ len - m <= len /\ len - m >= len - n
        /\ n <= term.height /\ n <= len => len - m = len - n
    BY <1>1, <2>1
  <2>9. QED
    BY <1>3, <2>2, <2>4, <2>5, <2>6, <2>7, <2>8 DEF len
<1>4. term.attended \in BOOLEAN
  OBVIOUS
<1>5. QED
  BY <1>2, <1>3, <1>4

\* Clearing as many rows as were printed last leaves what was there before.
LEMMA ClearLast ==
  ASSUME NEW s \in Seq(Row), NEW t \in Seq(Row),
         term \in [attended : BOOLEAN, height : Heights, showCmd : BOOLEAN],
         term.attended, Len(t) <= term.height
  PROVE  Cleared(s \o t, Len(t)) = s
<1> DEFINE n == Len(t)
           u == s \o t
           c == Cleared(u, n)
<1>1. n \in Nat /\ Len(s) \in Nat /\ u \in Seq(Row) /\ Len(u) = Len(s) + n
      /\ \A i \in 1..Len(s) : u[i] = s[i]
  BY LenProperties, ConcatProperties
<1>a. n <= term.height /\ n <= Len(u)
  BY <1>1
<1> HIDE DEF u, n
<1>2. c \in Seq(Row) /\ Len(c) = Len(u) - n /\ \A i \in 1..Len(c) : c[i] = u[i]
  BY <1>1, <1>a, ClearedProperties
<1>3. Len(c) = Len(s) /\ \A i \in 1..Len(c) : c[i] = s[i]
  BY <1>1, <1>2
<1>4. c = s
  <2> HIDE DEF c
  <2>1. QED
    BY <1>2, <1>3, SeqEqual
<1>5. QED
  BY <1>4 DEF u, n

\* Rows added to the second of two sequences are added to both.
LEMMA Joined ==
  ASSUME NEW s \in Seq(Row), NEW t \in Seq(Row), NEW u \in Seq(Row)
  PROVE  (s \o t) \o u = s \o (t \o u)
BY ConcatAssociative

LEMMA AppendJoined ==
  ASSUME NEW s \in Seq(Row), NEW t \in Seq(Row), NEW row \in Row
  PROVE  Append(s \o t, row) = s \o Append(t, row)
<1>1. <<row>> \in Seq(Row)
  OBVIOUS
<1>2. Append(t, row) = t \o <<row>>
  BY AppendIsConcat
<1>3. Append(s \o t, row) = (s \o t) \o <<row>>
  BY AppendIsConcat, ConcatProperties
<1>4. PICK q \in Seq(Row) : q = <<row>>
  BY <1>1
<1>5. (s \o t) \o q = s \o (t \o q)
  BY Joined
<1>6. QED
  BY <1>2, <1>3, <1>4, <1>5

LEMMA TwoRows ==
  ASSUME NEW a \in Row, NEW b \in Row
  PROVE  Append(<<a>>, b) = <<a, b>>
<1>1. <<a>> \in Seq(Row) /\ Len(<<a>>) = 1 /\ <<a>>[1] = a
  OBVIOUS
<1>2. <<a, b>> \in Seq(Row) /\ Len(<<a, b>>) = 2 /\ <<a, b>>[1] = a /\ <<a, b>>[2] = b
  OBVIOUS
<1>3. PICK p \in Seq(Row) : p = <<a>>
  BY <1>1
<1>4. PICK q \in Seq(Row) : q = <<a, b>>
  BY <1>2
<1>5. /\ Append(p, b) \in Seq(Row) /\ Len(Append(p, b)) = 2
      /\ Append(p, b)[1] = a /\ Append(p, b)[2] = b
  BY <1>1, <1>3, AppendProperties
<1>6. \A i \in 1..Len(q) : i = 1 \/ i = 2
  BY <1>2, <1>4
<1>7. Append(p, b) = q
  BY <1>2, <1>4, <1>5, <1>6, SeqEqual
<1>8. QED
  BY <1>3, <1>4, <1>7

\* A sequence begins with another.
LEMMA BeginsWith ==
  ASSUME NEW s \in Seq(Row), NEW b \in Seq(Row), Len(b) <= Len(s)
  PROVE  SubSeq(s, 1, Len(b)) = b <=> \A i \in 1..Len(b) : s[i] = b[i]
<1> DEFINE len == Len(b)
           p == SubSeq(s, 1, len)
<1>1. len \in Nat /\ Len(s) \in Nat /\ \A i \in 1..len : i \in 1..Len(s) /\ s[i] \in Row
  BY LenProperties
<1> HIDE DEF len
<1>2. p \in Seq(Row) /\ Len(p) = len /\ \A i \in 1..len : p[i] = s[i]
  <2>1. /\ SubSeq(s, 1, len) \in Seq(Row)
        /\ Len(SubSeq(s, 1, len)) = IF 1 <= len THEN len - 1 + 1 ELSE 0
        /\ \A i \in 1..len-1+1 : SubSeq(s, 1, len)[i] = s[1+i-1]
    BY <1>1, SubSeqProperties
  <2>2. QED
    BY <1>1, <2>1
<1> HIDE DEF p
<1>3. p = b <=> \A i \in 1..len : p[i] = b[i]
  BY <1>2, SeqEqual DEF len
<1>4. QED
  BY <1>2, <1>3 DEF p, len

\* The headings are a sequence of rows, to which a stage adds its own.
LEMMA HeadingsProperties ==
  ASSUME stages \in 0..3
  PROVE  /\ Headings \in Seq(Row) /\ Len(Headings) = stages + 1
         /\ \A i \in 1..stages+1 : Headings[i] = Heading(i - 1)
         /\ stages' = stages + 1 => Headings' = Append(Headings, Heading(stages + 1))
<1>1. /\ Headings \in Seq(Row) /\ Len(Headings) = stages + 1
      /\ \A i \in 1..stages+1 : Headings[i] = Heading(i - 1)
  BY RowsTyped DEF Headings
<1>2. ASSUME stages' = stages + 1
      PROVE  Headings' = Append(Headings, Heading(stages + 1))
  BY <1>2 DEF Headings
<1>3. QED
  BY <1>1, <1>2

-----------------------------------------------------------------------------
(***************************************************************************)
(* What Stage does to the screen.                                          *)
(***************************************************************************)
\* A row is printed into the window.
LEMMA PrintStep ==
  ASSUME IInv, ~hungUp, NEW row \in Row, PrintLine(row), Shows(row),
         UNCHANGED <<term, hungUp, stages>>
  PROVE  /\ {screen', lines', before', all', content'} \subseteq Seq(Row)
         /\ Current' /\ Printed' /\ Drawn' /\ Enough' /\ EarlierRowsStay'
<1> DEFINE w == WindowSize(lines)
           v == WindowSize(lines')
           c == Cleared(screen, w)
           t == LastOf(lines', v)
           h == before \o Headings
<1>1. /\ term \in [attended : BOOLEAN, height : Heights, showCmd : BOOLEAN]
      /\ screen \in Seq(Row) /\ lines \in Seq(Row) /\ before \in Seq(Row)
      /\ all \in Seq(Row) /\ content \in Seq(Row) /\ stages \in 0..3
      /\ hungUp = FALSE /\ hungUp' = FALSE
  BY DEF IInv, TypeOK
<1>2. /\ lines' = Append(lines, row) /\ all' = Append(all, row) /\ content' = Append(content, row)
      /\ lines' \in Seq(Row) /\ all' \in Seq(Row) /\ content' \in Seq(Row) /\ before' = before
      /\ lines' # <<>> /\ Len(lines') = Len(lines) + 1
  <2>1. /\ lines' = Append(lines, row) /\ all' = Append(all, row)
        /\ content' = Append(content, row) /\ before' = before
    BY DEF PrintLine, Shows
  <2>2. lines' \in Seq(Row) /\ lines' # <<>> /\ Len(lines') = Len(lines) + 1
    BY ONLY <1>1, <2>1, row \in Row, AppendProperties
  <2>3. all' \in Seq(Row) /\ content' \in Seq(Row)
    BY ONLY <1>1, <2>1, row \in Row, AppendProperties
  <2>4. QED
    BY <2>1, <2>2, <2>3
<1>3. /\ w \in 0..Len(lines) /\ v \in 0..Len(lines')
      /\ term.attended => w <= Window
      /\ ~term.attended => v = 1
      /\ Len(lines) \in Nat /\ Len(lines') \in Nat
  BY <1>1, <1>2, WindowProperties, LenProperties
<1>4. WindowSize(lines)' = v
  BY DEF WindowSize
<1>5. screen' = c \o t
  BY <1>4 DEF PrintLine
<1>6. t \in Seq(Row) /\ Len(t) = v
  BY <1>2, <1>3, LastOfProperties
<1>7. /\ c \in Seq(Row) /\ Len(c) \in Nat /\ Len(c) >= Len(screen) - w
      /\ ~term.attended => c = screen
      /\ \A i \in 1..Len(c) : c[i] = screen[i]
  <2>1. w \in Nat
    BY <1>3
  <2> HIDE DEF w
  <2>2. QED
    BY <1>1, <2>1, ClearedProperties, LenProperties
<1> HIDE DEF w, v, c, t
<1>8. /\ screen' \in Seq(Row) /\ Len(screen') = Len(c) + Len(t)
      /\ \A i \in 1..Len(c) : screen'[i] = c[i]
  <2>1. /\ c \o t \in Seq(Row) /\ Len(c \o t) = Len(c) + Len(t)
        /\ \A i \in 1..Len(c)+Len(t) : (c \o t)[i] = IF i <= Len(c) THEN c[i] ELSE t[i - Len(c)]
    BY <1>6, <1>7, ConcatProperties
  <2>2. Len(t) \in Nat
    BY <1>6, LenProperties
  <2>3. \A i \in 1..Len(c) : i \in 1..Len(c)+Len(t) /\ i <= Len(c)
    BY <1>7, <2>2
  <2>4. QED
    BY <1>5, <2>1, <2>3
<1>9. Current'
  BY <1>1, <1>2 DEF IInv, Current
<1>10. Printed'
  <2>1. ASSUME ~term.attended
        PROVE  screen' = before \o all'
    <3>1. screen = before \o all
      BY <1>1, <2>1 DEF IInv, Printed
    <3>2. t = <<row>>
      <4>1. lines'[Len(lines) + 1] = row
        BY <1>1, <1>2, AppendProperties
      <4>2. Len(lines') - v + 1 = Len(lines')
        BY <1>3, <2>1
      <4>3. t = SubSeq(lines', Len(lines'), Len(lines'))
        BY <4>2 DEF t, LastOf
      <4>4. t[1] = lines'[Len(lines')]
        <5>1. \A i \in Len(lines')..Len(lines') : lines'[i] \in Row
          BY <1>2, <4>1
        <5>2. \A i \in 1..Len(lines')-Len(lines')+1 :
                SubSeq(lines', Len(lines'), Len(lines'))[i] = lines'[Len(lines')+i-1]
          BY ONLY <1>3, <5>1, SubSeqProperties
        <5>3. QED
          BY <1>3, <4>3, <5>2
      <4>5. <<row>> \in Seq(Row) /\ Len(<<row>>) = 1 /\ <<row>>[1] = row
        OBVIOUS
      <4>6. Len(t) = Len(<<row>>) /\ \A i \in 1..Len(t) : t[i] = <<row>>[i]
        BY <1>2, <1>3, <1>6, <2>1, <4>1, <4>4, <4>5
      <4>7. QED
        BY <1>6, <4>5, <4>6, SeqEqual
    <3>3. screen' = (before \o all) \o t
      BY <1>5, <1>7, <2>1, <3>1
    <3>4. all' = all \o t
      <4>1. Append(all, row) = all \o <<row>>
        BY ONLY <1>1, row \in Row, AppendIsConcat
      <4>2. QED
        BY <1>2, <3>2, <4>1
    <3>5. (before \o all) \o t = before \o (all \o t)
      <4>1. before \in Seq(Row) /\ all \in Seq(Row) /\ t \in Seq(Row)
        BY ONLY <1>1, <1>6
      <4>2. QED
        BY ONLY <4>1, Joined
    <3>6. QED
      BY <3>3, <3>4, <3>5
  <2>2. QED
    BY <1>1, <1>2, <2>1 DEF Printed
<1>11. Drawn'
  <2>1. ASSUME term.attended, Roomy
        PROVE  screen' = h \o t
    <3>1. screen = h \o LastOf(lines, w)
      BY <1>1, <2>1 DEF IInv, Drawn, w
    <3>2. LastOf(lines, w) \in Seq(Row) /\ Len(LastOf(lines, w)) = w /\ h \in Seq(Row)
      BY <1>1, <1>3, LastOfProperties, HeadingsProperties, ConcatProperties
    <3>3. w <= term.height
      BY <1>1, <1>3, <2>1, Sizes DEF Roomy
    <3>4. c = h
      <4> HIDE DEF h
      <4>1. Cleared(h \o LastOf(lines, w), Len(LastOf(lines, w))) = h
        BY <1>1, <2>1, <3>2, <3>3, ClearLast
      <4>2. QED
        BY <3>1, <3>2, <4>1 DEF c
    <3>5. QED
      BY <1>5, <3>4
  <2>2. Headings' = Headings /\ Roomy' = Roomy
    BY DEF Headings, Roomy
  <2>3. QED
    BY <1>1, <1>2, <1>4, <2>1, <2>2 DEF Drawn, h, t
<1>12. Enough'
  <2>1. ASSUME term.attended
        PROVE  Len(screen') >= Len(before) + 1 + stages + v
    <3>1. Len(screen) >= Len(before) + 1 + stages + w
      BY <1>1, <2>1 DEF IInv, Enough, w
    <3>2. Len(screen) \in Nat /\ Len(before) \in Nat
      BY <1>1, LenProperties
    <3>3. QED
      BY ONLY <1>1, <1>3, <1>6, <1>7, <1>8, <3>1, <3>2
  <2>2. QED
    BY <1>1, <1>2, <1>4, <2>1 DEF Enough
<1>13. EarlierRowsStay'
  <2>1. Len(before) <= Len(c)
    <3>1. CASE term.attended
      <4>1. Len(screen) >= Len(before) + 1 + stages + w
        BY <1>1, <3>1 DEF IInv, Enough, w
      <4>2. Len(screen) \in Nat /\ Len(before) \in Nat
        BY <1>1, LenProperties
      <4>3. QED
        BY <1>1, <1>3, <1>7, <4>1, <4>2
    <3>2. CASE ~term.attended
      BY <1>7, <3>2 DEF IInv, EarlierRowsStay
    <3>3. QED
      BY <3>1, <3>2
  <2>2. \A i \in 1..Len(before) : screen[i] = before[i]
    BY <1>1, BeginsWith DEF IInv, EarlierRowsStay
  <2>3. Len(before) <= Len(screen') /\ Len(before) \in Nat
    BY <1>1, <1>3, <1>6, <1>7, <1>8, <2>1, LenProperties
  <2>4. \A i \in 1..Len(before) : screen'[i] = before[i]
    BY <1>7, <1>8, <2>1, <2>2, <2>3
  <2>5. QED
    BY <1>1, <1>2, <1>8, <2>3, <2>4, BeginsWith DEF EarlierRowsStay
<1>14. QED
  BY <1>1, <1>2, <1>8, <1>9, <1>10, <1>11, <1>12, <1>13

\* What is left of a stage that is dropped.
LEMMA DroppedProperties ==
  ASSUME IInv, ~hungUp
  PROVE  /\ Dropped \in Seq(Row) /\ Len(before) <= Len(Dropped)
         /\ \A i \in 1..Len(before) : Dropped[i] = before[i]
         /\ term.attended => Len(Dropped) >= Len(before) + 1 + stages
         /\ ~term.attended => Dropped = before \o all
         /\ term.attended /\ Roomy =>
              Dropped = (before \o Headings) \o (IF expand THEN lines ELSE <<>>)
<1> DEFINE w == WindowSize(lines)
           c == Cleared(screen, w)
           e == IF expand /\ term.attended THEN lines ELSE <<>>
           h == before \o Headings
<1>1. /\ term \in [attended : BOOLEAN, height : Heights, showCmd : BOOLEAN]
      /\ screen \in Seq(Row) /\ lines \in Seq(Row) /\ before \in Seq(Row)
      /\ stages \in 0..3 /\ hungUp = FALSE /\ expand \in BOOLEAN
  BY DEF IInv, TypeOK
<1>2. /\ w \in 0..Len(lines) /\ w \in Nat
      /\ term.attended => w <= Window
  BY <1>1, WindowProperties, LenProperties
<1>3. Dropped = c \o e
  BY DEF Dropped
<1> HIDE DEF w
<1>4. /\ c \in Seq(Row) /\ Len(c) \in Nat /\ Len(c) >= Len(screen) - w
      /\ ~term.attended => c = screen
      /\ \A i \in 1..Len(c) : c[i] = screen[i]
  BY <1>1, <1>2, ClearedProperties, LenProperties
<1>5. e \in Seq(Row) /\ Len(e) \in Nat
  BY <1>1, LenProperties, EmptySeq
<1>6. /\ Len(screen) \in Nat /\ Len(before) \in Nat
      /\ Len(before) <= Len(screen)
      /\ \A i \in 1..Len(before) : screen[i] = before[i]
      /\ term.attended => Len(screen) >= Len(before) + 1 + stages + w
  BY <1>1, BeginsWith, LenProperties DEF IInv, EarlierRowsStay, Enough, w
<1> HIDE DEF c, e
<1>7. /\ Dropped \in Seq(Row) /\ Len(Dropped) = Len(c) + Len(e)
      /\ \A i \in 1..Len(c) : Dropped[i] = c[i]
  <2>1. /\ c \o e \in Seq(Row) /\ Len(c \o e) = Len(c) + Len(e)
        /\ \A i \in 1..Len(c)+Len(e) : (c \o e)[i] = IF i <= Len(c) THEN c[i] ELSE e[i - Len(c)]
    BY <1>4, <1>5, ConcatProperties
  <2>2. \A i \in 1..Len(c) : i \in 1..Len(c)+Len(e) /\ i <= Len(c)
    BY <1>4, <1>5
  <2>3. QED
    BY <1>3, <2>1, <2>2
<1>8. Len(before) <= Len(c) /\ (term.attended => Len(c) >= Len(before) + 1 + stages)
  BY <1>1, <1>2, <1>4, <1>6
<1>9. \A i \in 1..Len(before) : Dropped[i] = before[i]
  BY <1>4, <1>6, <1>7, <1>8
<1>10. ASSUME ~term.attended
       PROVE  Dropped = before \o all
  <2>1. screen = before \o all
    BY <1>1, <1>10 DEF IInv, Printed
  <2>2. e = <<>>
    BY <1>10 DEF e
  <2>3. QED
    BY <1>1, <1>3, <1>4, <1>10, <2>1, <2>2, ConcatEmptySeq
<1>11. ASSUME term.attended, Roomy
       PROVE  Dropped = h \o (IF expand THEN lines ELSE <<>>)
  <2>1. screen = h \o LastOf(lines, w)
    BY <1>1, <1>11 DEF IInv, Drawn, w
  <2>2. LastOf(lines, w) \in Seq(Row) /\ Len(LastOf(lines, w)) = w /\ h \in Seq(Row)
    BY <1>1, <1>2, LastOfProperties, HeadingsProperties, ConcatProperties
  <2>3. w <= term.height
    BY <1>1, <1>2, <1>11, Sizes DEF Roomy
  <2>4. c = h
    <3> HIDE DEF h
    <3>1. Cleared(h \o LastOf(lines, w), Len(LastOf(lines, w))) = h
      BY <1>1, <1>11, <2>2, <2>3, ClearLast
    <3>2. QED
      BY <2>1, <2>2, <3>1 DEF c
  <2>5. e = IF expand THEN lines ELSE <<>>
    BY <1>11 DEF e
  <2>6. QED
    BY <1>3, <2>4, <2>5
<1>12. Len(before) <= Len(Dropped) /\ (term.attended => Len(Dropped) >= Len(before) + 1 + stages)
  BY <1>1, <1>4, <1>5, <1>6, <1>7, <1>8
<1>13. term.attended /\ Roomy =>
         Dropped = (before \o Headings) \o (IF expand THEN lines ELSE <<>>)
  BY <1>11
<1> HIDE DEF h
<1>14. QED
  BY <1>7, <1>9, <1>10, <1>12, <1>13

\* A stage is dropped and the next begins.
LEMMA NewStageStep ==
  ASSUME IInv, ~hungUp, ~expand, NewStage(Heading(stages + 1)), stages' = stages + 1,
         all' = Append(all, Heading(stages + 1)), content' = <<>>,
         UNCHANGED <<term, hungUp, before>>
  PROVE  /\ {screen', lines', before', all', content'} \subseteq Seq(Row)
         /\ Current' /\ Printed' /\ Drawn' /\ Enough' /\ EarlierRowsStay'
<1> DEFINE r == Heading(stages + 1)
<1>1. /\ term \in [attended : BOOLEAN, height : Heights, showCmd : BOOLEAN]
      /\ before \in Seq(Row) /\ all \in Seq(Row) /\ lines \in Seq(Row)
      /\ stages \in 0..3 /\ hungUp = FALSE /\ hungUp' = FALSE
      /\ r \in Row
  BY RowsTyped DEF IInv, TypeOK
<1>2. screen' = Append(Dropped, r) /\ lines' = <<>> /\ content' = <<>> /\ before' = before
  BY DEF NewStage
<1>3. /\ Dropped \in Seq(Row) /\ Len(before) <= Len(Dropped)
      /\ \A i \in 1..Len(before) : Dropped[i] = before[i]
      /\ term.attended => Len(Dropped) >= Len(before) + 1 + stages
      /\ ~term.attended => Dropped = before \o all
      /\ term.attended /\ Roomy =>
           Dropped = (before \o Headings) \o (IF expand THEN lines ELSE <<>>)
      /\ Len(Dropped) \in Nat /\ Len(before) \in Nat
  BY <1>1, DroppedProperties, LenProperties
<1>4. /\ Headings \in Seq(Row) /\ Len(Headings) = stages + 1
      /\ Headings' = Append(Headings, r)
  BY <1>1, HeadingsProperties
<1>5. /\ WindowSize(lines)' = 0 /\ LastOf(lines, WindowSize(lines))' = <<>>
      /\ <<>> \in Seq(Row) /\ Len(<<>>) = 0
  BY <1>1, <1>2, EmptyWindow, EmptySeq
<1> HIDE DEF r
<1>6. /\ screen' \in Seq(Row) /\ Len(screen') = Len(Dropped) + 1
      /\ \A i \in 1..Len(Dropped) : screen'[i] = Dropped[i]
  BY <1>1, <1>2, <1>3, AppendProperties
<1>7. all' = Append(all, r) /\ all' \in Seq(Row)
  BY <1>1, AppendProperties DEF r
<1>8. Current'
  BY <1>1, <1>2 DEF Current
<1>9. \A s, t \in Seq(Row) : Append(s \o t, r) = s \o Append(t, r)
  BY <1>1, AppendJoined
<1>10. Printed'
  <2>1. ASSUME ~term.attended
        PROVE  screen' = before \o all'
    BY <1>1, <1>2, <1>3, <1>7, <1>9, <2>1
  <2>2. QED
    BY <1>1, <1>2, <2>1 DEF Printed
<1>11. Drawn'
  <2>1. ASSUME term.attended, Roomy
        PROVE  screen' = (before \o Headings') \o <<>>
    <3>1. before \o Headings \in Seq(Row) /\ before \o Headings' \in Seq(Row)
      BY <1>1, <1>4, ConcatProperties, AppendProperties
    <3>2. Dropped = before \o Headings
      BY <1>3, <2>1, <3>1, ConcatEmptySeq
    <3>3. screen' = before \o Headings'
      BY <1>1, <1>2, <1>4, <1>9, <3>2
    <3>4. QED
      BY <3>1, <3>3, ConcatEmptySeq
  <2>2. Roomy' = Roomy
    BY DEF Roomy
  <2>3. QED
    BY <1>1, <1>2, <1>5, <2>1, <2>2 DEF Drawn
<1>12. Enough'
  BY <1>1, <1>2, <1>3, <1>5, <1>6 DEF Enough
<1>13. EarlierRowsStay'
  <2>1. \A i \in 1..Len(before) : screen'[i] = before[i]
    BY <1>3, <1>6
  <2>2. Len(before) <= Len(screen')
    BY <1>3, <1>6
  <2>3. QED
    BY <1>1, <1>2, <1>6, <2>1, <2>2, BeginsWith DEF EarlierRowsStay
<1>14. QED
  BY <1>1, <1>2, <1>5, <1>6, <1>7, <1>8, <1>10, <1>11, <1>12, <1>13

\* The senders have hung up, and the verdict is printed.
LEMMA HangUpStep ==
  ASSUME IInv, HangUp
  PROVE  /\ screen' \in Seq(Row) /\ lines' \in Seq(Row)
         /\ PassLeavesTwoRows' /\ FailureShownWhole' /\ EarlierRowsStay'
<1> DEFINE h == before \o Headings
           c == Cleared(Dropped, stages)
<1>1. /\ term \in [attended : BOOLEAN, height : Heights, showCmd : BOOLEAN]
      /\ lines \in Seq(Row) /\ before \in Seq(Row) /\ content \in Seq(Row)
      /\ stages \in 0..3 /\ hungUp = FALSE /\ errors = 0 /\ expand \in BOOLEAN
      /\ lines = content
  BY DEF IInv, TypeOK, HangUp, Ready, Current
<1>2. /\ screen' = FinalRows /\ lines' = <<>>
      /\ UNCHANGED <<term, last, before, content, stages, rc>>
  BY DEF HangUp, Protocol!HangUp
<1>3. /\ Dropped \in Seq(Row) /\ Len(before) <= Len(Dropped)
      /\ \A i \in 1..Len(before) : Dropped[i] = before[i]
      /\ term.attended => Len(Dropped) >= Len(before) + 1 + stages
      /\ term.attended /\ Roomy => Dropped = h \o (IF expand THEN lines ELSE <<>>)
      /\ Len(Dropped) \in Nat /\ Len(before) \in Nat
  BY <1>1, DroppedProperties, LenProperties
<1>4. /\ Headings \in Seq(Row) /\ Len(Headings) = stages + 1
      /\ Headings[1] = Heading(0) /\ h \in Seq(Row) /\ Len(h) = Len(before) + stages + 1
  <2>1. /\ Headings \in Seq(Row) /\ Len(Headings) = stages + 1
        /\ \A i \in 1..stages+1 : Headings[i] = Heading(i - 1)
    BY <1>1, HeadingsProperties
  <2>2. Headings[1] = Heading(0)
    BY <1>1, <2>1
  <2>3. h \in Seq(Row) /\ Len(h) = Len(before) + Len(Headings)
    BY <1>1, <2>1, ConcatProperties
  <2>4. QED
    BY <1>1, <1>3, <2>1, <2>2, <2>3
<1>5. /\ c \in Seq(Row) /\ Len(c) \in Nat /\ Len(before) <= Len(c)
      /\ \A i \in 1..Len(before) : c[i] = before[i]
  <2>1. /\ c \in Seq(Row) /\ Len(c) \in Nat /\ Len(c) >= Len(Dropped) - stages
        /\ ~term.attended => c = Dropped
        /\ \A i \in 1..Len(c) : c[i] = Dropped[i]
    <3>1. stages \in Nat
      BY <1>1
    <3>2. QED
      BY <1>1, <1>3, <3>1, ClearedProperties, LenProperties
  <2> HIDE DEF c, h
  <2>2. Len(before) <= Len(c)
    BY <1>1, <1>3, <2>1
  <2>3. QED
    BY <1>3, <2>1, <2>2
<1> HIDE DEF h
<1>6. \A s \in Seq(Row), row \in Row :
        /\ Append(s, row) \in Seq(Row) /\ Len(Append(s, row)) = Len(s) + 1
        /\ \A i \in 1..Len(s) : Append(s, row)[i] = s[i]
  BY AppendProperties
<1>7. screen' \in {Dropped, Append(c, Pass), Append(Dropped, Failed)}
  BY <1>2 DEF FinalRows
<1> HIDE DEF c
<1>8. screen' \in Seq(Row) /\ EarlierRowsStay'
  <2>1. \A s \in {Dropped, c}, row \in {Pass, Failed} :
           /\ Append(s, row) \in Seq(Row) /\ Len(before) <= Len(Append(s, row))
           /\ \A i \in 1..Len(before) : Append(s, row)[i] = before[i]
    BY <1>3, <1>5, <1>6, RowsTyped
  <2>2. /\ screen' \in Seq(Row) /\ Len(before) <= Len(screen')
        /\ \A i \in 1..Len(before) : screen'[i] = before[i]
    BY <1>3, <1>7, <2>1
  <2>3. QED
    BY <1>1, <1>2, <2>2, BeginsWith DEF EarlierRowsStay
<1>9. Passed' = Passed /\ RanAll' = RanAll /\ Roomy' = Roomy /\ Headings' = Headings
  BY <1>2 DEF Passed, RanAll, Roomy, Headings
<1>10. ASSUME Passed, term.attended, ~term.showCmd, Roomy
       PROVE  screen' = before \o <<Heading(0), Pass>>
  <2>1. rc = "zero" /\ ~expand
    BY <1>10 DEF IInv, Judged, Passed
  <2>2. Dropped = h
    BY <1>3, <1>4, <1>10, <2>1, ConcatEmptySeq
  <2>3. stages <= term.height
    BY <1>1, <1>10, Sizes DEF Roomy
  <2>4. /\ c \in Seq(Row) /\ Len(c) = Len(before) + 1
        /\ \A i \in 1..Len(c) : c[i] = h[i]
    <3>1. stages \in Nat /\ Len(h) \in Nat /\ stages <= Len(h)
      BY <1>1, <1>3, <1>4
    <3>2. /\ Len(Cleared(h, stages)) = Len(h) - stages /\ Cleared(h, stages) \in Seq(Row)
          /\ \A i \in 1..Len(Cleared(h, stages)) : Cleared(h, stages)[i] = h[i]
      BY <1>1, <1>4, <1>10, <2>3, <3>1, ClearedProperties
    <3>3. QED
      BY <1>3, <1>4, <2>2, <3>1, <3>2 DEF c
  <2>5. screen' = Append(c, Pass)
    BY <1>2, <1>10, <2>1 DEF FinalRows, c
  <2>5a. Heading(0) \in Row
    BY RowsTyped
  <2>5b. <<Heading(0)>> \in Seq(Row)
    BY ONLY <2>5a
  <2>6. PICK p \in Seq(Row) : p = <<Heading(0)>>
    BY <2>5b
  <2>7. Len(p) = 1 /\ p[1] = Heading(0)
    BY <2>6
  <2>8. c = before \o p
    <3>1. /\ before \o p \in Seq(Row) /\ Len(before \o p) = Len(before) + 1
          /\ \A i \in 1..Len(before)+1 : (before \o p)[i] =
               IF i <= Len(before) THEN before[i] ELSE p[i - Len(before)]
      BY ONLY <1>1, <2>6, <2>7, ConcatProperties
    <3>2. h[Len(before) + 1] = Heading(0)
      <4>1. \A i \in 1..Len(before)+Len(Headings) : h[i] =
               IF i <= Len(before) THEN before[i] ELSE Headings[i - Len(before)]
        BY <1>1, <1>4, ConcatProperties DEF h
      <4>2. Len(before) + 1 \in 1..Len(before)+Len(Headings)
        BY <1>1, <1>3, <1>4
      <4>3. Len(before) + 1 - Len(before) = 1 /\ ~(Len(before) + 1 <= Len(before))
        BY <1>3
      <4>4. QED
        BY <1>4, <4>1, <4>2, <4>3
    <3>3. \A i \in 1..Len(before)+1 : c[i] = (before \o p)[i]
      <4>1. ASSUME NEW i \in 1..Len(before)+1
            PROVE  c[i] = (before \o p)[i]
        <5>1. CASE i <= Len(before)
          <6>1. i \in 1..Len(before)
            BY <1>3, <5>1
          <6>2. QED
            BY <1>5, <3>1, <5>1, <6>1
        <5>2. CASE ~(i <= Len(before))
          <6>1. i = Len(before) + 1
            BY <1>3, <5>2
          <6>2. (before \o p)[i] = p[i - Len(before)] /\ i - Len(before) = 1
            BY <1>3, <3>1, <5>2, <6>1
          <6>3. c[i] = h[i]
            BY <2>4
          <6>4. QED
            BY <2>7, <3>2, <6>1, <6>2, <6>3
        <5>3. QED
          BY <5>1, <5>2
      <4>2. QED
        BY <4>1
    <3>4. QED
      BY <2>4, <3>1, <3>3, SeqEqual
  <2>9. Append(c, Pass) = before \o Append(p, Pass)
    BY <1>1, <2>8, AppendJoined, RowsTyped
  <2>10. Append(p, Pass) = <<Heading(0), Pass>>
    <3>1. Heading(0) \in Row /\ Pass \in Row
      BY RowsTyped
    <3>2. QED
      BY ONLY <2>6, <3>1, TwoRows
  <2>11. QED
    BY <2>5, <2>9, <2>10
<1>11. PassLeavesTwoRows'
  BY <1>2, <1>9, <1>10 DEF PassLeavesTwoRows
<1>12. ASSUME ~Passed, term.attended, Roomy
       PROVE  screen' = before \o Headings \o content
                        \o (IF RanAll /\ ~term.showCmd THEN <<Failed>> ELSE <<>>)
  <2>1. expand
    BY <1>1, <1>12 DEF IInv, Judged
  <2>2. Dropped = h \o content
    BY <1>1, <1>3, <1>12, <2>1
  <2>3. IF RanAll THEN rc = "other" ELSE rc = "none"
    BY <1>12 DEF IInv, Judged, Passed, RanAll
  <2>4. ASSUME RanAll, ~term.showCmd
        PROVE  screen' = (h \o content) \o <<Failed>>
    <3>1. screen' = Append(h \o content, Failed)
      BY <1>2, <2>2, <2>3, <2>4 DEF FinalRows
    <3>2. QED
      BY <1>1, <1>4, <3>1, RowsTyped, AppendIsConcat, ConcatProperties
  <2>5. ASSUME ~(RanAll /\ ~term.showCmd)
        PROVE  screen' = (h \o content) \o <<>>
    <3>1. screen' = h \o content
      BY <1>2, <2>2, <2>3, <2>5 DEF FinalRows
    <3>2. QED
      BY <1>1, <1>4, <3>1, ConcatEmptySeq, ConcatProperties
  <2>6. QED
    BY <2>4, <2>5 DEF h
<1>13. FailureShownWhole'
  BY <1>2, <1>9, <1>12 DEF FailureShownWhole
<1>14. lines' \in Seq(Row)
  BY <1>2, EmptySeq
<1>15. QED
  BY <1>8, <1>11, <1>13, <1>14

\* The next target begins below what is there.
LEMMA NextTargetStep ==
  ASSUME IInv, NextTarget
  PROVE  /\ {screen', before', all', content'} \subseteq Seq(Row)
         /\ Current' /\ Printed' /\ Drawn' /\ Enough' /\ EarlierRowsStay'
<1> DEFINE r == Heading(0)
<1>1. /\ term \in [attended : BOOLEAN, height : Heights, showCmd : BOOLEAN]
      /\ screen \in Seq(Row) /\ hungUp = TRUE /\ lines = <<>> /\ Len(screen) \in Nat
  BY LenProperties DEF IInv, TypeOK, NextTarget, Current
<1>2. /\ hungUp' = FALSE /\ before' = screen /\ screen' = Append(screen, r) /\ stages' = 0
      /\ all' = <<r>> /\ content' = <<>> /\ term' = term /\ lines' = lines
  BY DEF NextTarget
<1>3. r \in Row
  BY RowsTyped
<1> HIDE DEF r
<1>4. /\ screen' \in Seq(Row) /\ Len(screen') = Len(screen) + 1
      /\ \A i \in 1..Len(screen) : screen'[i] = screen[i]
  BY <1>1, <1>2, <1>3, AppendProperties
<1>5. <<r>> \in Seq(Row) /\ <<>> \in Seq(Row)
  BY <1>3
<1>6. screen' = screen \o <<r>>
  BY <1>1, <1>2, <1>3, AppendIsConcat
<1>7. lines' = <<>> /\ WindowSize(lines)' = 0 /\ LastOf(lines, WindowSize(lines))' = <<>>
  BY <1>1, <1>2, EmptyWindow
<1>8. Printed'
  BY <1>2, <1>6 DEF Printed
<1>9. Headings' = <<r>>
  <2>1. stages' \in 0..3
    BY <1>2
  <2>2. /\ Headings' \in Seq(Row) /\ Len(Headings') = 1 /\ Headings'[1] = r
    BY <1>2, <2>1, RowsTyped DEF Headings, r
  <2>3. PICK q \in Seq(Row) : q = <<r>>
    BY <1>5
  <2>4. Len(q) = 1 /\ q[1] = r
    BY <2>3
  <2>5. Headings' = q
    BY <2>2, <2>4, SeqEqual
  <2>6. QED
    BY <2>3, <2>5
<1>10. Drawn'
  <2>1. screen \o <<r>> \in Seq(Row)
    BY <1>4, <1>6
  <2>2. (screen \o <<r>>) \o <<>> = screen \o <<r>>
    BY <2>1, ConcatEmptySeq
  <2>3. screen' = (before' \o Headings') \o <<>>
    BY <1>2, <1>6, <1>9, <2>2
  <2>4. QED
    BY <1>7, <2>3 DEF Drawn
<1>11. Enough'
  BY <1>1, <1>2, <1>4, <1>7 DEF Enough
<1>12. EarlierRowsStay'
  <2>1. Len(screen) <= Len(screen')
    BY <1>1, <1>4
  <2>2. QED
    BY <1>1, <1>2, <1>4, <2>1, BeginsWith DEF EarlierRowsStay
<1>13. QED
  BY <1>1, <1>2, <1>4, <1>5, <1>7, <1>8, <1>10, <1>11, <1>12 DEF Current

\* Before any update nothing has gone wrong, and no stage is to be shown whole.
LEMMA ReceiveStep ==
  ASSUME IInv, NEW update, Receive(update)
  PROVE  /\ errors = 0 /\ ~hungUp /\ Passed /\ ~expand /\ rc = "zero"
         /\ \/ last.variant = "None" /\ update \in {Update("BootStart"), Failure("BootEnd")}
            \/ last.variant = "BootStart" /\ update \in {Update("BootEnd"), Failure("BootEnd")}
            \/ last.variant = "BootEnd" /\ update = Update("SetupStart")
            \/ last.variant = "SetupStart" /\ update \in {Update("SetupEnd"), Failure("SetupEnd")}
            \/ last.variant = "SetupEnd" /\ update = Update("CommandStart")
            \/ last.variant = "CommandStart" /\ update.variant = "CommandEnd"
         /\ last' = update /\ UNCHANGED <<term, interactive, hungUp, target>>
<1>1. /\ errors = 0 /\ ~hungUp /\ Protocol!Follows(last, update)
      /\ last' = update /\ UNCHANGED <<term, interactive, hungUp, target>>
  BY DEF Receive, Ready
<1>2. /\ last.ok /\ last.code = 0 /\ last.variant # "CommandEnd"
      /\ \/ last.variant = "None" /\ update \in {Update("BootStart"), Failure("BootEnd")}
         \/ last.variant = "BootStart" /\ update \in {Update("BootEnd"), Failure("BootEnd")}
         \/ last.variant = "BootEnd" /\ update = Update("SetupStart")
         \/ last.variant = "SetupStart" /\ update \in {Update("SetupEnd"), Failure("SetupEnd")}
         \/ last.variant = "SetupEnd" /\ update = Update("CommandStart")
         \/ last.variant = "CommandStart" /\ update.variant = "CommandEnd"
  <2>1. \A v : Update(v).variant = v /\ Update(v).ok /\ Update(v).code = 0
    BY DEF Update
  <2>2. NoUpdate.variant = "None" /\ NoUpdate.ok /\ NoUpdate.code = 0
    BY DEF NoUpdate
  <2>3. /\ Protocol!NoUpdate = NoUpdate
        /\ \A v : Protocol!Update(v) = Update(v) /\ Protocol!Failure(v) = Failure(v)
    BY DEF Protocol!NoUpdate, NoUpdate, Protocol!Update, Update, Protocol!Failure, Failure
  <2>4. QED
    BY <1>1, <2>1, <2>2, <2>3 DEF Protocol!Follows
<1>3. Passed /\ ~expand /\ rc = "zero"
  BY <1>1, <1>2 DEF IInv, Judged, Passed
<1>4. QED
  BY <1>1, <1>2, <1>3

\* A step that prints nothing leaves what is on the screen right.
LEMMA QuietStep ==
  ASSUME IInv, ~hungUp,
         UNCHANGED <<term, hungUp, screen, lines, stages, before, all, content>>
  PROVE  Current' /\ Printed' /\ Drawn' /\ Enough' /\ EarlierRowsStay'
<1>1. /\ WindowSize(lines)' = WindowSize(lines) /\ Headings' = Headings /\ Roomy' = Roomy
      /\ LastOf(lines, WindowSize(lines))' = LastOf(lines, WindowSize(lines))
  BY DEF WindowSize, Headings, Roomy, LastOf
<1>2. QED
  BY <1>1 DEF IInv, Current, Printed, Drawn, Enough, EarlierRowsStay

\* The verdict on a target is about its end.
LEMMA RunningStep ==
  ASSUME ~hungUp'
  PROVE  PassLeavesTwoRows' /\ FailureShownWhole'
BY DEF PassLeavesTwoRows, FailureShownWhole

-----------------------------------------------------------------------------
(***************************************************************************)
(* The invariant.                                                          *)
(***************************************************************************)
LEMMA InitIInv == Init => IInv
<1> SUFFICES ASSUME Init
             PROVE  IInv
  OBVIOUS
<1> DEFINE r == Heading(0)
<1>1. /\ term \in [attended : BOOLEAN, height : Heights, showCmd : BOOLEAN]
      /\ interactive \in BOOLEAN /\ last = NoUpdate /\ hungUp = FALSE
      /\ target = 1 /\ before = <<>> /\ screen = <<r>> /\ lines = <<>> /\ expand = FALSE
      /\ stages = 0 /\ errors = 0 /\ rc = "zero" /\ all = <<r>> /\ content = <<>>
  BY DEF Init, Protocol!Init, Protocol!NoUpdate, NoUpdate
<1>2. r \in Row
  BY RowsTyped
<1> HIDE DEF r
<1>3. <<r>> \in Seq(Row) /\ <<>> \in Seq(Row) /\ Len(<<r>>) = 1 /\ Len(<<>>) = 0
  BY <1>2
<1>4. TypeOK
  <2>1. NoUpdate \in Output
    BY DEF NoUpdate, Output
  <2>2. target \in 1..Targets
    BY <1>1, TargetsAssumption
  <2>3. {screen, lines, before, all, content} \subseteq Seq(Row)
    BY <1>1, <1>3
  <2>4. QED
    <3>1. /\ term \in [attended : BOOLEAN, height : Heights, showCmd : BOOLEAN]
          /\ last \in Output /\ interactive \in BOOLEAN
      BY <1>1, <2>1
    <3>2. /\ hungUp = FALSE /\ expand = FALSE /\ rc = "zero" /\ stages = 0 /\ errors = 0
      BY <1>1
    <3>3. hungUp \in BOOLEAN /\ expand \in BOOLEAN
      BY <3>2, Zenon
    <3>4. rc \in {"none", "zero", "other"} /\ stages \in 0..3 /\ errors \in Nat
      BY <3>2
    <3>5. QED
      BY ONLY <2>2, <2>3, <3>1, <3>3, <3>4 DEF TypeOK
<1>5. Counted /\ Judged
  BY <1>1 DEF Counted, Judged, NoUpdate, Passed
<1>6. <<>> \o <<r>> = <<r>> /\ <<r>> \o <<>> = <<r>>
  BY <1>3, ConcatEmptySeq
<1>7. WindowSize(lines) = 0 /\ LastOf(lines, 0) = <<>>
  <2>1. WindowSize(lines) = 0
    BY <1>1, <1>3, WindowProperties
  <2>2. ASSUME NEW s \in Seq(Row), Len(s) = 0
        PROVE  LastOf(s, 0) = <<>>
    <3>1. 0 \in 0..Len(s)
      BY <2>2
    <3>2. QED
      BY <3>1, LastOfProperties
  <2>3. QED
    BY <1>1, <1>3, <2>1, <2>2
<1>8. Headings = <<r>>
  <2>1. Headings \in Seq(Row) /\ Len(Headings) = 1 /\ Headings[1] = r
    BY <1>1, RowsTyped DEF Headings, r
  <2>2. PICK q \in Seq(Row) : q = <<r>>
    BY <1>3
  <2>3. Len(q) = 1 /\ q[1] = r
    BY <2>2
  <2>4. Headings = q
    BY <2>1, <2>3, SeqEqual
  <2>5. QED
    BY <2>2, <2>4
<1>9. Current /\ Printed
  BY <1>1, <1>6 DEF Current, Printed
<1>10. Drawn
  BY <1>1, <1>6, <1>7, <1>8 DEF Drawn
<1>11. Enough
  BY <1>1, <1>3, <1>7 DEF Enough
<1>12. EarlierRowsStay
  BY <1>1, <1>3, BeginsWith DEF EarlierRowsStay
<1>13. PassLeavesTwoRows /\ FailureShownWhole
  BY <1>1 DEF PassLeavesTwoRows, FailureShownWhole
<1>14. QED
  BY <1>4, <1>5, <1>9, <1>10, <1>11, <1>12, <1>13 DEF IInv

LEMMA NextIInv == IInv /\ [Next]_vars => IInv'
<1> SUFFICES ASSUME IInv, [Next]_vars
             PROVE  IInv'
  OBVIOUS
<1>1. TypeOK /\ Counted /\ Judged
  BY DEF IInv
<1>2. \A v \in Starts \cup Lines \cup Ends, code \in Nat :
        Update(v) \in Output /\ Failure(v) \in Output /\ Exited(code) \in Output
  BY DEF Update, Failure, Exited, Output, Ends
<1>3. ErrorSizes \subseteq Nat \ {0}
  BY ErrorAssumption
<1>4. CASE ReceiveStart
  <2>1. PICK v \in Starts : Receive(Update(v))
    BY <1>4 DEF ReceiveStart
  <2>2. /\ errors = 0 /\ ~hungUp /\ Passed /\ ~expand /\ rc = "zero"
        /\ \/ last.variant = "None" /\ v = "BootStart"
           \/ last.variant = "BootEnd" /\ v = "SetupStart"
           \/ last.variant = "SetupEnd" /\ v = "CommandStart"
        /\ last' = Update(v) /\ UNCHANGED <<term, interactive, hungUp, target>>
    BY <2>1, ReceiveStep DEF Update, Failure, Starts
  <2>3. /\ NewStage(Heading(stages + 1)) /\ stages' = stages + 1
        /\ all' = Append(all, Heading(stages + 1)) /\ content' = <<>>
        /\ UNCHANGED <<errors, rc, before>>
    BY <1>4 DEF ReceiveStart
  <2>4. /\ {screen', lines', before', all', content'} \subseteq Seq(Row)
        /\ Current' /\ Printed' /\ Drawn' /\ Enough' /\ EarlierRowsStay'
    BY <2>2, <2>3, NewStageStep
  <2>5. stages \in 0..2 /\ expand' = FALSE
    BY <1>1, <2>2, <2>3 DEF TypeOK, Counted, NewStage
  <2>6. TypeOK'
    <3>1. last' \in Output
      BY <1>2, <2>2 DEF Starts
    <3>2. stages' \in 0..3
      BY <2>3, <2>5
    <3>3. QED
      BY <1>1, <2>2, <2>3, <2>4, <2>5, <3>1, <3>2 DEF TypeOK
  <2>7. Counted' /\ Judged'
    BY <1>1, <2>2, <2>3, <2>5 DEF TypeOK, Counted, Judged, Passed, Update
  <2>8. QED
    BY <2>2, <2>4, <2>6, <2>7, RunningStep DEF IInv
<1>5. CASE ReceiveLine
  <2> DEFINE row == Line(Len(all))
  <2>1. /\ ~hungUp /\ PrintLine(row) /\ Shows(row)
        /\ UNCHANGED <<term, interactive, last, hungUp, target, expand, stages, errors, rc>>
    BY <1>5 DEF ReceiveLine, Ready
  <2>2. row \in Row
    BY <1>1, RowsTyped, LenProperties DEF TypeOK
  <2> HIDE DEF row
  <2>3. /\ {screen', lines', before', all', content'} \subseteq Seq(Row)
        /\ Current' /\ Printed' /\ Drawn' /\ Enough' /\ EarlierRowsStay'
    BY <2>1, <2>2, PrintStep
  <2>4. TypeOK' /\ Counted' /\ Judged'
    BY <1>1, <2>1, <2>3 DEF TypeOK, Counted, Judged, Passed
  <2>5. QED
    BY <2>1, <2>3, <2>4, RunningStep DEF IInv
<1>6. CASE ReceiveEnd
  <2>1. PICK v \in {"BootEnd", "SetupEnd"} : Receive(Update(v))
    BY <1>6 DEF ReceiveEnd
  <2>2. /\ errors = 0 /\ ~hungUp /\ Passed /\ ~expand /\ rc = "zero"
        /\ \/ last.variant = "BootStart" /\ v = "BootEnd"
           \/ last.variant = "SetupStart" /\ v = "SetupEnd"
        /\ last' = Update(v) /\ UNCHANGED <<term, interactive, hungUp, target>>
    BY <2>1, ReceiveStep DEF Update, Failure
  <2>3. UNCHANGED <<uiVars, historyVars>>
    BY <1>6 DEF ReceiveEnd
  <2>4. TypeOK'
    BY <1>1, <1>2, <2>2, <2>3 DEF TypeOK, Ends
  <2>5. Counted' /\ Judged'
    BY <1>1, <2>2, <2>3 DEF TypeOK, Counted, Judged, Passed, Update
  <2>6. QED
    BY <2>2, <2>3, <2>4, <2>5, QuietStep, RunningStep DEF IInv
<1>7. CASE ReceiveFailure
  <2>1. PICK v \in Ends : Receive(Failure(v))
    BY <1>7 DEF ReceiveFailure
  <2>2. /\ errors = 0 /\ ~hungUp /\ Passed /\ ~expand
        /\ \/ last.variant = "None" /\ v = "BootEnd"
           \/ last.variant = "BootStart" /\ v = "BootEnd"
           \/ last.variant = "SetupStart" /\ v = "SetupEnd"
           \/ last.variant = "CommandStart" /\ v = "CommandEnd"
        /\ last' = Failure(v) /\ UNCHANGED <<term, interactive, hungUp, target>>
    BY <2>1, ReceiveStep DEF Update, Failure
  <2>3. /\ errors' \in Nat \ {0} /\ rc' = "none"
        /\ UNCHANGED <<screen, lines, expand, stages, historyVars>>
    BY <1>3, <1>7 DEF ReceiveFailure
  <2>4. TypeOK'
    BY <1>1, <1>2, <2>2, <2>3 DEF TypeOK
  <2>5. Counted' /\ Judged'
    BY <1>1, <2>2, <2>3 DEF TypeOK, Counted, Judged, Passed, Failure
  <2>6. QED
    BY <2>2, <2>3, <2>4, <2>5, QuietStep, RunningStep DEF IInv
<1>8. CASE ReceiveExit
  <2>1. PICK code \in 0..1 :
          /\ Receive(Exited(code))
          /\ IF code = 0 THEN rc' = "zero" /\ UNCHANGED errors
                         ELSE rc' = "other" /\ errors' \in ErrorSizes
    BY <1>8 DEF ReceiveExit
  <2>2. /\ errors = 0 /\ ~hungUp /\ last.variant = "CommandStart"
        /\ last' = Exited(code) /\ UNCHANGED <<term, interactive, hungUp, target>>
    BY <2>1, ReceiveStep DEF Exited, Update, Failure
  <2>3. expand' = term.showCmd /\ UNCHANGED <<screen, lines, stages, historyVars>>
    BY <1>8 DEF ReceiveExit
  <2>4. TypeOK'
    <3>1. last' \in Output
      BY <1>2, <2>2 DEF Starts
    <3>2. rc' \in {"none", "zero", "other"} /\ errors' \in Nat /\ expand' \in BOOLEAN
      BY <1>1, <1>3, <2>1, <2>3 DEF TypeOK
    <3>3. QED
      BY <1>1, <2>2, <2>3, <3>1, <3>2 DEF TypeOK
  <2>5. Counted' /\ Judged'
    <3>1. last'.variant = "CommandEnd" /\ last'.ok /\ last'.code = code
      BY <2>2 DEF Exited
    <3>2. CASE code = 0
      BY <2>1, <2>2, <2>3, <3>1, <3>2 DEF Counted, Judged, Passed
    <3>3. CASE code # 0
      BY <1>3, <2>1, <2>2, <2>3, <3>1, <3>3 DEF Counted, Judged, Passed
    <3>4. QED
      BY <3>2, <3>3
  <2>6. QED
    BY <2>2, <2>3, <2>4, <2>5, QuietStep, RunningStep DEF IInv
<1>9. CASE ErrorOut
  <2> DEFINE row == Error(Len(all))
  <2>1. /\ errors > 0 /\ errors' = errors - 1 /\ expand' = (expand \/ errors' = 0)
        /\ PrintLine(row) /\ Shows(row)
        /\ UNCHANGED <<term, interactive, last, hungUp, target, stages, rc>>
    BY <1>9 DEF ErrorOut
  <2>2. row \in Row
    BY <1>1, RowsTyped, LenProperties DEF TypeOK
  <2> HIDE DEF row
  <2>3. errors # 0 /\ ~hungUp /\ ~Passed /\ errors' \in Nat /\ expand' \in BOOLEAN
    BY <1>1, <2>1 DEF TypeOK, Judged
  <2>4. /\ {screen', lines', before', all', content'} \subseteq Seq(Row)
        /\ Current' /\ Printed' /\ Drawn' /\ Enough' /\ EarlierRowsStay'
    BY <2>1, <2>2, <2>3, PrintStep
  <2>5. TypeOK' /\ Counted'
    BY <1>1, <2>1, <2>3, <2>4 DEF TypeOK, Counted
  <2>6. Judged'
    BY <1>1, <2>1, <2>3 DEF Judged, Passed
  <2>7. QED
    BY <2>1, <2>3, <2>4, <2>5, <2>6, RunningStep DEF IInv
<1>10. CASE HangUp
  <2>1. /\ errors = 0 /\ hungUp' = TRUE /\ lines' = <<>>
        /\ UNCHANGED <<term, interactive, last, target, expand, stages, errors, rc, historyVars>>
    BY <1>10 DEF HangUp, Ready, Protocol!HangUp
  <2>2. /\ screen' \in Seq(Row) /\ lines' \in Seq(Row)
        /\ PassLeavesTwoRows' /\ FailureShownWhole' /\ EarlierRowsStay'
    BY <1>10, HangUpStep
  <2>3. TypeOK' /\ Counted' /\ Judged'
    BY <1>1, <2>1, <2>2 DEF TypeOK, Counted, Judged, Passed
  <2>4. Current' /\ Printed' /\ Drawn' /\ Enough'
    BY <2>1 DEF Current, Printed, Drawn, Enough
  <2>5. QED
    BY <2>2, <2>3, <2>4 DEF IInv
<1>11. CASE NextTarget
  <2>1. /\ hungUp /\ target < Targets /\ interactive' \in BOOLEAN
        /\ last' = NoUpdate /\ hungUp' = FALSE /\ target' = target + 1
        /\ expand' = FALSE /\ stages' = 0 /\ rc' = "zero"
        /\ UNCHANGED <<term, lines, errors>>
    BY <1>11 DEF NextTarget
  <2>2. /\ {screen', before', all', content'} \subseteq Seq(Row)
        /\ Current' /\ Printed' /\ Drawn' /\ Enough' /\ EarlierRowsStay'
    BY <1>11, NextTargetStep
  <2>3. NoUpdate \in Output
    BY DEF NoUpdate, Output
  <2>4. TypeOK'
    <3>1. target' \in 1..Targets
      BY <1>1, <2>1, TargetsAssumption DEF TypeOK
    <3>2. last' \in Output /\ rc' \in {"none", "zero", "other"} /\ stages' \in 0..3
      BY <2>1, <2>3
    <3>3. QED
      BY <1>1, <2>1, <2>2, <3>1, <3>2 DEF TypeOK
  <2>5. Counted' /\ Judged'
    BY <1>1, <2>1 DEF Counted, Judged, Passed, NoUpdate
  <2>6. QED
    BY <2>1, <2>2, <2>4, <2>5, RunningStep DEF IInv
<1>12. CASE UNCHANGED vars
  <2>1. /\ WindowSize(lines)' = WindowSize(lines) /\ Headings' = Headings /\ Roomy' = Roomy
        /\ LastOf(lines, WindowSize(lines))' = LastOf(lines, WindowSize(lines))
        /\ Passed' = Passed /\ RanAll' = RanAll
    BY <1>12 DEF WindowSize, Headings, Roomy, LastOf, Passed, RanAll
  <2>2. TypeOK' /\ Counted' /\ Judged' /\ Current' /\ Printed' /\ Enough' /\ EarlierRowsStay'
    BY <1>12, <2>1
       DEF IInv, TypeOK, Counted, Judged, Current, Printed, Enough, EarlierRowsStay
  <2>3. Drawn' /\ PassLeavesTwoRows' /\ FailureShownWhole'
    BY <1>12, <2>1 DEF IInv, Drawn, PassLeavesTwoRows, FailureShownWhole
  <2>4. QED
    BY <2>2, <2>3 DEF IInv
<1>13. QED
  BY <1>4, <1>5, <1>6, <1>7, <1>8, <1>9, <1>10, <1>11, <1>12 DEF Next, Return

LEMMA Inductive == Spec => []IInv
BY InitIInv, NextIInv, PTL DEF Spec

-----------------------------------------------------------------------------
(***************************************************************************)
(* The theorems.                                                           *)
(***************************************************************************)
\* The variables of the UI have the types that the code gives them.
THEOREM TypeCorrect == Spec => []TypeOK
<1>1. IInv => TypeOK
  BY DEF IInv
<1>2. QED
  BY <1>1, Inductive, PTL

\* However the updates and lines come, what is on the screen is what the target
\* has to show: nothing of an earlier window is left, and no row twice.
THEOREM ScreenIsRight == Spec => []ScreenShowsRun
<1>1. IInv => ScreenShowsRun
  <2> SUFFICES ASSUME IInv, ~hungUp, Roomy
               PROVE  screen = IF term.attended
                                 THEN before \o Headings \o LastOf(content, Smaller(Len(content), Window))
                                 ELSE before \o all
    BY DEF ScreenShowsRun
  <2>1. CASE term.attended
    <3>1. lines = content /\ lines \in Seq(Row)
          /\ term \in [attended : BOOLEAN, height : Heights, showCmd : BOOLEAN]
      BY DEF IInv, TypeOK, Current
    <3>2. WindowSize(lines) = Smaller(Len(lines), Window)
      BY <2>1, <3>1, WindowProperties
    <3>3. QED
      BY <2>1, <3>1, <3>2 DEF IInv, Drawn
  <2>2. CASE ~term.attended
    BY <2>2 DEF IInv, Printed
  <2>3. QED
    BY <2>1, <2>2
<1>2. QED
  BY <1>1, Inductive, PTL

\* A target that passed leaves its heading and PASS: the drop of the stage and
\* the clearing of the headings clear exactly the rows between them.
THEOREM PassIsTwoRows == Spec => []PassLeavesTwoRows
<1>1. IInv => PassLeavesTwoRows
  BY DEF IInv
<1>2. QED
  BY <1>1, Inductive, PTL

\* A target that failed leaves its headings and every row of its last stage, the
\* error among them.
THEOREM FailureIsWhole == Spec => []FailureShownWhole
<1>1. IInv => FailureShownWhole
  BY DEF IInv
<1>2. QED
  BY <1>1, Inductive, PTL

\* On a terminal of any height no target clears a row of an earlier one.
THEOREM EarlierTargetsStay == Spec => []EarlierRowsStay
<1>1. IInv => EarlierRowsStay
  BY DEF IInv
<1>2. QED
  BY <1>1, Inductive, PTL
=============================================================================
