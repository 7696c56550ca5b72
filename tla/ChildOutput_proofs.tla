--------------------------- MODULE ChildOutput_proofs ---------------------------
(***************************************************************************)
(* Proofs about ChildOutput, for every text on every path, whatever the    *)
(* pipes hold: what has been read and not sent is the beginning of a line  *)
(* of the text, and what has been sent is the lines before it.             *)
(***************************************************************************)
EXTENDS ChildOutput, FiniteSetTheorems, SequenceTheorems, TLAPS

USE DEF vars, sourceVars, qemuVars, writerVars, readerVars

\* How much of the text was read, and where the line begins that is being read.
Consumed == Len(text) - Len(pipe)
Start    == Consumed - Len(line)

\* The rest after the last newline has been sent.
Flushed == pipe = <<>> /\ line = <<>> /\ text # <<>> /\ text[Len(text)] # "n"

\* What is in the pipe is the end of the text, and before it is the line.
Unread == Len(pipe) <= Len(text) /\ \A i \in 1..Len(pipe) : pipe[i] = text[Consumed + i]
InLine == ~Flushed => /\ Start \in Newlines \cup {0}
                      /\ \A i \in 1..Len(line) : line[i] = text[Start + i]

\* How a line comes out.
Rendered(s) ==
  CASE path = "boot"     -> IF Terminated(s) THEN Content(s) ELSE Front(Content(s))
    [] path = "command"  -> Content(s)
    [] path = "captured" -> Lossy(IF Terminated(s) /\ Ends(Content(s), "r")
                                    THEN Front(Content(s)) ELSE Content(s))

\* The lines that are due by a place, and those that q shows.
DueBy(n)      == {s \in Due : s[2] <= n}
Shows(q, due) == \E at \in InOrder(due) : q = [k \in DOMAIN at |-> Rendered(at[k])]
SentRight     == reader = "reads" => /\ sent \in Seq(Seq(Symbols))
                                     /\ Shows(sent, IF Flushed THEN Due ELSE DueBy(Consumed))

Bounded  == /\ writing \in Symbols => Len(text) < MaxText
            /\ path = "captured" => writer = "ended" /\ writing = "nothing"
Finished == /\ Flushed => Closed
            /\ reader = "ended" => pipe = <<>> /\ line = <<>> /\ Closed

IInv == /\ TypeOK /\ Unread /\ InLine /\ Bounded /\ Finished
        /\ SentRight /\ EveryLineOnce

-----------------------------------------------------------------------------
(***************************************************************************)
(* Facts about sequences of symbols.                                       *)
(***************************************************************************)
LEMMA Elements ==
  ASSUME NEW s \in Seq(Symbols)
  PROVE  /\ Len(s) \in Nat /\ DOMAIN s = 1..Len(s)
         /\ \A i \in 1..Len(s) : s[i] \in Symbols
         /\ s = <<>> <=> Len(s) = 0
BY LenProperties, EmptySeq, ElementOfSeq

\* A stretch of a sequence.
LEMMA Stretch ==
  ASSUME NEW s \in Seq(Symbols), NEW a \in Nat, NEW b \in Nat, b <= Len(s)
  PROVE  LET t == SubSeq(s, a + 1, b)
         IN  /\ t \in Seq(Symbols)
             /\ Len(t) = IF a < b THEN b - a ELSE 0
             /\ \A i \in 1..Len(t) : a + i \in a+1..b /\ t[i] = s[a + i]
             /\ \A j \in a+1..b : j - a \in 1..Len(t) /\ t[j - a] = s[j]
<1> DEFINE t == SubSeq(s, a + 1, b)
<1>1. Len(s) \in Nat /\ \A i \in 1..Len(s) : s[i] \in Symbols
  BY Elements
<1>2. a + 1 \in Int /\ b \in Int /\ \A i \in a+1..b : s[i] \in Symbols
  BY <1>1
<1>3. /\ t \in Seq(Symbols)
      /\ Len(t) = IF a + 1 <= b THEN b - (a + 1) + 1 ELSE 0
      /\ \A i \in 1..b-(a+1)+1 : t[i] = s[a + 1 + i - 1]
  BY ONLY <1>2, SubSeqProperties
<1> HIDE DEF t
<1>4. Len(t) = IF a < b THEN b - a ELSE 0
  BY <1>3
<1>5. ASSUME NEW i \in 1..Len(t)
      PROVE  a + i \in a+1..b /\ t[i] = s[a + i]
  <2>1. i \in 1..b-(a+1)+1 /\ a + 1 + i - 1 = a + i /\ a + i \in a+1..b
    BY <1>4
  <2>2. QED
    BY <1>3, <2>1
<1>6. ASSUME NEW j \in a+1..b
      PROVE  j - a \in 1..Len(t) /\ t[j - a] = s[j]
  <2>1. j - a \in 1..Len(t) /\ a + (j - a) = j
    BY <1>4
  <2>2. QED
    BY <1>5, <2>1
<1>7. QED
  BY <1>3, <1>4, <1>5, <1>6 DEF t

LEMMA Equal ==
  ASSUME NEW s \in Seq(Symbols), NEW t \in Seq(Symbols), Len(s) = Len(t),
         \A i \in 1..Len(s) : s[i] = t[i]
  PROVE  s = t
BY SeqEqual

\* A stretch stays what it is when the sequence grows.
LEMMA StretchGrows ==
  ASSUME NEW s \in Seq(Symbols), NEW w \in Symbols, NEW a \in Nat, NEW b \in Nat, b <= Len(s)
  PROVE  SubSeq(Append(s, w), a + 1, b) = SubSeq(s, a + 1, b)
<1> DEFINE u == Append(s, w)
           p == SubSeq(s, a + 1, b)
           q == SubSeq(u, a + 1, b)
<1>1. /\ u \in Seq(Symbols) /\ Len(u) = Len(s) + 1 /\ Len(s) \in Nat
      /\ \A i \in 1..Len(s) : u[i] = s[i]
  BY AppendProperties, Elements
<1> HIDE DEF u
<1>2. /\ p \in Seq(Symbols) /\ Len(p) = IF a < b THEN b - a ELSE 0
      /\ \A i \in 1..Len(p) : a + i \in a+1..b /\ p[i] = s[a + i]
  BY Stretch
<1>3. b <= Len(u)
  BY <1>1
<1>4. /\ q \in Seq(Symbols) /\ Len(q) = IF a < b THEN b - a ELSE 0
      /\ \A i \in 1..Len(q) : a + i \in a+1..b /\ q[i] = u[a + i]
  BY <1>1, <1>3, Stretch
<1> HIDE DEF p, q
<1>5. Len(p) = Len(q)
  BY <1>2, <1>4
<1>6. \A i \in 1..Len(q) : q[i] = p[i]
  <2>1. ASSUME NEW i \in 1..Len(q)
        PROVE  q[i] = p[i]
    <3>1. a + i \in a+1..b /\ q[i] = u[a + i] /\ p[i] = s[a + i]
      BY <1>2, <1>4, <1>5
    <3>2. a + i \in 1..Len(s)
      BY <1>1, <3>1
    <3>3. QED
      BY <1>1, <3>1, <3>2
  <2>2. QED
    BY <2>1
<1>7. QED
  BY <1>2, <1>4, <1>5, <1>6, Equal DEF p, q, u

\* The front of a sequence, and what its end is.
LEMMA FrontProperties ==
  ASSUME NEW s \in Seq(Symbols)
  PROVE  /\ Front(s) \in Seq(Symbols)
         /\ Len(Front(s)) = IF s = <<>> THEN 0 ELSE Len(s) - 1
         /\ \A i \in 1..Len(Front(s)) : Front(s)[i] = s[i]
         /\ \A w \in Symbols : Front(Append(s, w)) = s /\ Ends(Append(s, w), w)
<1>1. Len(s) \in Nat /\ (s = <<>> <=> Len(s) = 0)
  BY Elements
<1>2. ASSUME NEW t \in Seq(Symbols)
      PROVE  /\ Front(t) \in Seq(Symbols)
             /\ Len(Front(t)) = IF t = <<>> THEN 0 ELSE Len(t) - 1
             /\ \A i \in 1..Len(Front(t)) : Front(t)[i] = t[i]
  <2>1. Len(t) \in Nat /\ (t = <<>> <=> Len(t) = 0)
    BY Elements
  <2>2. CASE t = <<>>
    <3>1. Front(t) = SubSeq(t, 1, 0 - 1)
      BY <2>1, <2>2 DEF Front
    <3>2. SubSeq(t, 1, 0 - 1) = <<>>
      BY SubSeqEmpty
    <3>3. QED
      BY <2>2, <3>1, <3>2
  <2>3. CASE t # <<>>
    <3> DEFINE b == Len(t) - 1
               f == SubSeq(t, 0 + 1, b)
    <3>1. b \in Nat /\ b <= Len(t) /\ 0 + 1 = 1
      BY <2>1, <2>3
    <3>2. /\ f \in Seq(Symbols) /\ Len(f) = IF 0 < b THEN b - 0 ELSE 0
          /\ \A i \in 1..Len(f) : f[i] = t[0 + i]
      <4> HIDE DEF b
      <4>1. QED
        BY <3>1, Stretch
    <3>3. Front(t) = f
      BY <3>1 DEF Front
    <3> HIDE DEF f
    <3>4. Len(f) = b
      <4> HIDE DEF b
      <4>1. QED
        BY <3>1, <3>2
    <3>5. \A i \in 1..Len(f) : f[i] = t[i]
      BY <3>1, <3>2, <3>4
    <3>6. QED
      BY <2>3, <3>2, <3>3, <3>4, <3>5
  <2>4. QED
    BY <2>2, <2>3
<1>3. ASSUME NEW w \in Symbols
      PROVE  Front(Append(s, w)) = s /\ Ends(Append(s, w), w)
  <2> DEFINE u == Append(s, w)
  <2>1. /\ u \in Seq(Symbols) /\ Len(u) = Len(s) + 1 /\ u[Len(s) + 1] = w
        /\ \A i \in 1..Len(s) : u[i] = s[i]
    BY AppendProperties
  <2> HIDE DEF u
  <2>2. u # <<>>
    BY <1>1, <2>1, Elements
  <2>3. /\ Front(u) \in Seq(Symbols) /\ Len(Front(u)) = Len(s)
        /\ \A i \in 1..Len(Front(u)) : Front(u)[i] = u[i]
    BY <1>1, <1>2, <2>1, <2>2
  <2>4. Front(u) = s
    BY <2>1, <2>3, Equal
  <2>5. Ends(u, w)
    BY <2>1, <2>2 DEF Ends
  <2>6. QED
    BY <2>4, <2>5 DEF u
<1>4. QED
  BY <1>2, <1>3

LEMMA LossyProperties ==
  ASSUME NEW s \in Seq(Symbols)
  PROVE  /\ Lossy(s) \in Seq(Symbols) /\ Len(Lossy(s)) = Len(s)
         /\ \A i \in 1..Len(s) : Lossy(s)[i] = IF s[i] = "x" THEN "a" ELSE s[i]
BY Elements DEF Lossy, Symbols

-----------------------------------------------------------------------------
(***************************************************************************)
(* Facts about the lines of the text.                                      *)
(***************************************************************************)
LEMMA LineProperties ==
  ASSUME text \in Seq(Symbols), NEW s \in Lines
  PROVE  /\ s[1] \in Nat /\ s[2] \in Nat /\ s = <<s[1], s[2]>>
         /\ s[1] < s[2] /\ s[2] <= Len(text) + 1 /\ Len(text) \in Nat
         /\ s[1] \in Newlines \cup {0} /\ s[2] \in Newlines \cup {Len(text) + 1}
         /\ \A i \in s[1]+1..s[2]-1 : i \notin Newlines
<1>1. Len(text) \in Nat /\ Newlines \subseteq 1..Len(text)
  BY Elements DEF Newlines
<1>2. /\ s = <<s[1], s[2]>> /\ s[1] \in Newlines \cup {0}
      /\ s[2] \in Newlines \cup {Len(text) + 1} /\ s[1] < s[2]
      /\ \A i \in s[1]+1..s[2]-1 : i \notin Newlines
  BY DEF Lines, Places
<1>3. QED
  BY <1>1, <1>2

\* There are finitely many.
LEMMA LinesFinite ==
  ASSUME text \in Seq(Symbols)
  PROVE  IsFiniteSet(Due) /\ \A n : IsFiniteSet(DueBy(n))
<1>1. Len(text) \in Nat /\ 0 \in Int /\ 1 \in Int /\ Len(text) \in Int
  BY Elements
<1>2. IsFiniteSet(1..Len(text))
  BY <1>1, FS_Interval
<1>3. IsFiniteSet(Newlines)
  BY <1>2, FS_Subset DEF Newlines
<1>4. IsFiniteSet(Newlines \cup {0}) /\ IsFiniteSet(Newlines \cup {Len(text) + 1})
  BY <1>3, FS_AddElement
<1>5. IsFiniteSet(Places)
  BY <1>4, FS_Product DEF Places
<1>6. Due \subseteq Places /\ \A n : DueBy(n) \subseteq Places
  BY DEF Due, DueBy, Lines
<1>7. QED
  BY <1>5, <1>6, FS_Subset

\* Nothing of the lines depends on more than the path and the text.
LEMMA SameText ==
  ASSUME UNCHANGED <<path, text>>
  PROVE  /\ Newlines' = Newlines /\ Lines' = Lines /\ Due' = Due
         /\ \A n : DueBy(n)' = DueBy(n)
         /\ \A s : Rendered(s)' = Rendered(s)
BY DEF Newlines, Places, Lines, Due, DueBy, Rendered, Content, Terminated

\* And those that the text has had so far stay as they are when it grows.
LEMMA GrownText ==
  ASSUME text \in Seq(Symbols), NEW w \in Symbols, text' = Append(text, w), path' = path,
         NEW n \in Nat, n <= Len(text)
  PROVE  DueBy(n)' = DueBy(n) /\ \A s \in DueBy(n) : Rendered(s)' = Rendered(s)
<1>1. /\ Len(text) \in Nat /\ text' \in Seq(Symbols) /\ Len(text') = Len(text) + 1
      /\ \A i \in 1..Len(text) : text'[i] = text[i]
  BY Elements, AppendProperties
<1>2. /\ Newlines \subseteq 1..Len(text) /\ Newlines' \subseteq 1..Len(text)+1
      /\ \A i \in 1..Len(text) : i \in Newlines' <=> i \in Newlines
  BY <1>1 DEF Newlines
<1>3. ASSUME NEW a, NEW b, a \in (Newlines \cup {0}) \cup (Newlines' \cup {0}),
             b \in Newlines \cup Newlines', b <= n
      PROVE  /\ <<a, b>> \in Due' <=> <<a, b>> \in Due
             /\ Rendered(<<a, b>>)' = Rendered(<<a, b>>)
  <2> DEFINE s == <<a, b>>
  <2>1. a \in Nat /\ b \in Nat /\ b \in 1..Len(text) /\ s[1] = a /\ s[2] = b
    <3>1. a \in Nat
      BY <1>1, <1>2, <1>3
    <3>2. b \in 1..Len(text)+1
      BY <1>1, <1>2, <1>3
    <3>3. b \in Nat /\ b \in 1..Len(text)
      BY <1>1, <1>3, <3>2
    <3>4. QED
      BY <3>1, <3>3
  <2>2. b \in Newlines /\ b \in Newlines'
    BY <1>2, <1>3, <2>1
  <2>3. Terminated(s) /\ Terminated(s)'
    BY <1>1, <2>1 DEF Terminated
  <2>4. Content(s)' = Content(s)
    <3>1. b - 1 \in Nat /\ b - 1 <= Len(text)
      BY <2>1
    <3>2. SubSeq(Append(text, w), a + 1, b - 1) = SubSeq(text, a + 1, b - 1)
      BY <2>1, <3>1, StretchGrows
    <3>3. QED
      BY <2>1, <3>2 DEF Content
  <2>5. s \in Lines' <=> s \in Lines
    <3>1. CASE a < b
      <4>1. a \in Newlines' \cup {0} <=> a \in Newlines \cup {0}
        BY <1>1, <1>2, <2>1, <3>1
      <4>2. \A i \in a+1..b-1 : i \in Newlines' <=> i \in Newlines
        BY <1>1, <1>2, <2>1
      <4>3. s \in Places' <=> s \in Places
        BY <2>2, <4>1 DEF Places
      <4>4. QED
        BY <2>1, <4>2, <4>3 DEF Lines
    <3>2. CASE ~(a < b)
      BY <2>1, <3>2 DEF Lines
    <3>3. QED
      BY <3>1, <3>2
  <2>6. Rendered(s)' = Rendered(s)
    BY <2>3, <2>4 DEF Rendered
  <2>7. QED
    BY <2>3, <2>4, <2>5, <2>6 DEF Due
<1>4. ASSUME NEW s \in DueBy(n)
      PROVE  s \in DueBy(n)' /\ Rendered(s)' = Rendered(s)
  <2>1. s \in Due /\ s \in Lines /\ s[2] <= n
    BY DEF DueBy, Due
  <2>2. /\ s = <<s[1], s[2]>> /\ s[1] \in Newlines \cup {0} /\ s[2] \in Nat
        /\ s[2] \in Newlines \cup {Len(text) + 1}
    BY <2>1, LineProperties
  <2>3. s[2] \in Newlines
    BY <1>1, <2>1, <2>2
  <2>4. s \in Due' /\ Rendered(s)' = Rendered(s)
    BY <1>3, <2>1, <2>2, <2>3
  <2>5. QED
    BY <2>1, <2>4 DEF DueBy
<1>5. ASSUME NEW s \in DueBy(n)'
      PROVE  s \in DueBy(n)
  <2>1. s \in Due' /\ s \in Lines' /\ s \in Places' /\ s[2] <= n
    BY DEF DueBy, Due, Lines
  <2>2. /\ s = <<s[1], s[2]>> /\ s[1] \in Newlines' \cup {0}
        /\ s[2] \in Newlines' \cup {Len(text') + 1}
    BY <2>1 DEF Places
  <2>3. s[2] \in Newlines'
    BY <1>1, <2>1, <2>2
  <2>4. s \in Due
    BY <1>3, <2>1, <2>2, <2>3
  <2>5. QED
    BY <2>1, <2>4 DEF DueBy
<1>6. QED
  BY <1>4, <1>5

\* The line that is being read, once its end is known to be at e.
LEMMA LineRead ==
  ASSUME TypeOK, Unread, InLine, ~Flushed, NEW e, e = Consumed + 1,
         e \in Newlines \cup {Len(text) + 1}
  PROVE  /\ <<Start, e>> \in Lines /\ Content(<<Start, e>>) = line
         /\ \A s \in Lines : s[2] = e => s = <<Start, e>>
<1> DEFINE b == Start
           c == Consumed
<1>1. /\ text \in Seq(Symbols) /\ pipe \in Seq(Symbols) /\ line \in Seq(Symbols \ {"n"})
  BY DEF TypeOK
<1>2. /\ Len(text) \in Nat /\ Len(pipe) \in Nat /\ Len(line) \in Nat
      /\ Len(pipe) <= Len(text)
  BY <1>1, LenProperties DEF Unread
<1>3. /\ Newlines \subseteq 1..Len(text) /\ b \in Newlines \cup {0}
      /\ \A i \in 1..Len(line) : line[i] = text[b + i]
  BY DEF InLine, Newlines
<1>4. line \in Seq(Symbols) /\ \A i \in 1..Len(line) : line[i] # "n"
  <2>1. \A i \in 1..Len(line) : line[i] \in Symbols \ {"n"}
    BY <1>1, ElementOfSeq
  <2>2. line \in Seq(Symbols)
    BY <1>1, SeqMonotonic
  <2>3. QED
    BY <2>1, <2>2
<1>5. c \in Nat /\ b \in Nat /\ c = b + Len(line) /\ e = c + 1 /\ c <= Len(text)
  BY <1>2, <1>3 DEF Start, Consumed
<1> HIDE DEF b, c
<1>6. \A j \in b+1..c : j \notin Newlines
  <2>1. ASSUME NEW j \in b+1..c
        PROVE  j \notin Newlines
    <3>1. j - b \in 1..Len(line) /\ b + (j - b) = j
      BY <1>2, <1>5
    <3>2. text[j] # "n"
      BY <1>3, <1>4, <3>1
    <3>3. QED
      BY <3>2 DEF Newlines
  <2>2. QED
    BY <2>1
<1>7. <<b, e>> \in Lines
  <2>1. <<b, e>> \in Places
    BY <1>3 DEF Places
  <2>2. b < e /\ \A i \in b+1..e-1 : i \notin Newlines
    BY <1>2, <1>5, <1>6
  <2>3. QED
    BY <2>1, <2>2 DEF Lines
<1>8. Content(<<b, e>>) = line
  <2> DEFINE t == SubSeq(text, b + 1, c)
  <2>1. /\ t \in Seq(Symbols) /\ Len(t) = IF b < c THEN c - b ELSE 0
        /\ \A i \in 1..Len(t) : t[i] = text[b + i]
    <3>1. text \in Seq(Symbols) /\ b \in Nat /\ c \in Nat /\ c <= Len(text)
      BY <1>1, <1>5
    <3>2. QED
      BY ONLY <3>1, Stretch
  <2>2. Content(<<b, e>>) = t
    <3>1. e - 1 = c
      BY <1>5
    <3>2. QED
      BY <3>1 DEF Content
  <2> HIDE DEF t
  <2>3. Len(t) = Len(line)
    BY <1>2, <1>5, <2>1
  <2>4. \A i \in 1..Len(t) : t[i] = line[i]
    BY <1>3, <2>1, <2>3
  <2>5. QED
    BY <1>4, <2>1, <2>2, <2>3, <2>4, Equal
<1>9. ASSUME NEW s \in Lines, s[2] = e
      PROVE  s = <<b, e>>
  <2>1. /\ s[1] \in Nat /\ s = <<s[1], s[2]>> /\ s[1] < s[2]
        /\ s[1] \in Newlines \cup {0}
        /\ \A i \in s[1]+1..s[2]-1 : i \notin Newlines
    BY <1>1, LineProperties
  <2>2. ~(s[1] < b)
    <3>1. ASSUME s[1] < b
          PROVE  FALSE
      <4>1. b \in Newlines /\ b \in s[1]+1..e-1
        BY <1>2, <1>3, <1>5, <2>1, <3>1
      <4>2. QED
        BY <1>9, <2>1, <4>1
    <3>2. QED
      BY <3>1
  <2>3. ~(s[1] > b)
    <3>1. ASSUME s[1] > b
          PROVE  FALSE
      <4>1. s[1] \in Newlines /\ s[1] \in b+1..c
        BY <1>2, <1>5, <1>9, <2>1, <3>1
      <4>2. QED
        BY <1>6, <4>1
    <3>2. QED
      BY <3>1
  <2>4. s[1] = b
    BY <1>5, <2>1, <2>2, <2>3
  <2>5. QED
    BY <1>9, <2>1, <2>4
<1>10. QED
  BY <1>7, <1>8, <1>9 DEF b

\* A line that is due comes after those before it.
LEMMA OneMore ==
  ASSUME NEW D, IsFiniteSet(D), NEW s, s \notin D,
         \A d \in D : d[2] < s[2], NEW at \in InOrder(D)
  PROVE  LET n    == Cardinality(D)
             next == [k \in 1..n+1 |-> IF k <= n THEN at[k] ELSE s]
         IN  n \in Nat /\ DOMAIN at = 1..n /\ next \in InOrder(D \cup {s})
<1> DEFINE n == Cardinality(D)
           next == [k \in 1..n+1 |-> IF k <= n THEN at[k] ELSE s]
<1>1. n \in Nat /\ Cardinality(D \cup {s}) = n + 1
  BY FS_CardinalityType, FS_AddElement
<1>2. /\ at \in [1..n -> D] /\ \A j, k \in 1..n : j < k => at[j][2] < at[k][2]
  BY DEF InOrder
<1> HIDE DEF n
<1>3. next \in [1..n+1 -> D \cup {s}]
  BY <1>1, <1>2
<1>4. ASSUME NEW j \in 1..n+1, NEW k \in 1..n+1, j < k
      PROVE  next[j][2] < next[k][2]
  <2>1. j \in 1..n /\ next[j] = at[j]
    BY <1>1, <1>4
  <2>2. CASE k <= n
    <3>1. k \in 1..n /\ next[k] = at[k]
      BY <1>1, <2>2
    <3>2. QED
      BY <1>2, <1>4, <2>1, <3>1
  <2>3. CASE ~(k <= n)
    <3>1. next[k] = s
      BY <2>3
    <3>2. at[j] \in D
      BY <1>2, <2>1
    <3>3. QED
      BY <2>1, <3>1, <3>2
  <2>4. QED
    BY <2>2, <2>3
<1>5. next \in InOrder(D \cup {s})
  <2> HIDE DEF next
  <2>1. DOMAIN next = 1..n+1
    BY <1>3
  <2>2. QED
    BY <1>1, <1>3, <1>4, <2>1 DEF InOrder
<1>6. QED
  BY <1>1, <1>2, <1>5 DEF n

-----------------------------------------------------------------------------
(***************************************************************************)
(* What is sent for a line is how it should come out.                      *)
(***************************************************************************)
\* A line whose content is l.
Displayed(l, terminated) ==
  CASE path = "boot"     -> IF terminated THEN l ELSE Front(l)
    [] path = "command"  -> l
    [] path = "captured" -> Lossy(IF terminated /\ Ends(l, "r") THEN Front(l) ELSE l)

LEMMA RenderedIsDisplayed ==
  ASSUME NEW s
  PROVE  Rendered(s) = Displayed(Content(s), Terminated(s))
BY DEF Rendered, Displayed

LEMMA LossyFront ==
  ASSUME NEW s \in Seq(Symbols)
  PROVE  /\ Front(Lossy(s)) = Lossy(Front(s))
         /\ Ends(Lossy(s), "r") <=> Ends(s, "r")
         /\ Ends(Lossy(s), "n") <=> Ends(s, "n")
<1> DEFINE u == Lossy(s)
           f == Front(s)
<1>1. /\ u \in Seq(Symbols) /\ Len(u) = Len(s) /\ Len(s) \in Nat
      /\ \A i \in 1..Len(s) : u[i] = IF s[i] = "x" THEN "a" ELSE s[i]
      /\ (s = <<>> <=> Len(s) = 0) /\ (u = <<>> <=> Len(u) = 0)
  BY LossyProperties, Elements
<1>2. /\ f \in Seq(Symbols) /\ Len(f) = IF s = <<>> THEN 0 ELSE Len(s) - 1
      /\ \A i \in 1..Len(f) : f[i] = s[i]
  BY FrontProperties
<1> HIDE DEF u, f
<1>3. /\ Front(u) \in Seq(Symbols) /\ Len(Front(u)) = IF u = <<>> THEN 0 ELSE Len(u) - 1
      /\ \A i \in 1..Len(Front(u)) : Front(u)[i] = u[i]
  BY <1>1, FrontProperties
<1>4. /\ Lossy(f) \in Seq(Symbols) /\ Len(Lossy(f)) = Len(f)
      /\ \A i \in 1..Len(f) : Lossy(f)[i] = IF f[i] = "x" THEN "a" ELSE f[i]
  BY <1>2, LossyProperties
<1>5. Len(Front(u)) = Len(f)
  BY <1>1, <1>2, <1>3
<1>6. ASSUME NEW i \in 1..Len(f)
      PROVE  Front(u)[i] = Lossy(f)[i]
  <2>1. i \in 1..Len(s)
    BY <1>1, <1>2
  <2>2. QED
    BY <1>1, <1>2, <1>3, <1>4, <1>5, <2>1
<1>7. Front(u) = Lossy(f)
  BY <1>3, <1>4, <1>5, <1>6, Equal
<1>8. /\ Ends(u, "r") <=> Ends(s, "r")
      /\ Ends(u, "n") <=> Ends(s, "n")
  <2>1. CASE s = <<>>
    BY <1>1, <2>1 DEF Ends
  <2>2. CASE s # <<>>
    <3>1. u # <<>> /\ Len(s) \in 1..Len(s) /\ Len(u) = Len(s)
      BY <1>1, <2>2
    <3>2. u[Len(s)] = IF s[Len(s)] = "x" THEN "a" ELSE s[Len(s)]
      BY <1>1, <3>1
    <3>3. QED
      BY <2>2, <3>1, <3>2 DEF Ends
  <2>3. QED
    BY <2>1, <2>2
<1>9. QED
  BY <1>7, <1>8 DEF u, f

LEMMA DisplayedTyped ==
  ASSUME path \in Paths, NEW l \in Seq(Symbols), NEW terminated
  PROVE  Displayed(l, terminated) \in Seq(Symbols)
<1>1. /\ Front(l) \in Seq(Symbols) /\ Lossy(l) \in Seq(Symbols)
  BY FrontProperties, LossyProperties
<1>2. Lossy(Front(l)) \in Seq(Symbols)
  BY <1>1, LossyProperties
<1>3. QED
  BY <1>1, <1>2 DEF Displayed, Paths

\* With its newline,
LEMMA DeliveredTerminated ==
  ASSUME path \in Paths, NEW l \in Seq(Symbols)
  PROVE  Delivered(Append(l, "n")) =
           IF path = "captured" \/ ~Holds(l, "x") THEN <<Displayed(l, TRUE)>> ELSE <<>>
<1> DEFINE u == Append(l, "n")
<1>1. "n" \in Symbols /\ "x" # "n"
  BY DEF Symbols
<1>2. /\ u \in Seq(Symbols) /\ Len(u) = Len(l) + 1 /\ Len(l) \in Nat
      /\ u[Len(l) + 1] = "n" /\ \A i \in 1..Len(l) : u[i] = l[i]
      /\ Front(u) = l /\ Ends(u, "n")
  <2>1. /\ u \in Seq(Symbols) /\ Len(u) = Len(l) + 1
        /\ u[Len(l) + 1] = "n" /\ \A i \in 1..Len(l) : u[i] = l[i]
    BY <1>1, AppendProperties
  <2>2. Len(l) \in Nat
    BY Elements
  <2>3. Front(u) = l /\ Ends(u, "n")
    BY <1>1, FrontProperties
  <2>4. QED
    BY <2>1, <2>2, <2>3
<1> HIDE DEF u
<1>3. Holds(u, "x") <=> Holds(l, "x")
  <2>1. ASSUME Holds(u, "x")
        PROVE  Holds(l, "x")
    <3>1. PICK i \in 1..Len(l)+1 : u[i] = "x"
      BY <1>2, <2>1 DEF Holds
    <3>2. i # Len(l) + 1
      BY <1>1, <1>2, <3>1
    <3>3. i \in 1..Len(l) /\ l[i] = "x"
      BY <1>2, <3>1, <3>2
    <3>4. QED
      BY <3>3 DEF Holds
  <2>2. ASSUME Holds(l, "x")
        PROVE  Holds(u, "x")
    <3>1. PICK i \in 1..Len(l) : l[i] = "x"
      BY <2>2 DEF Holds
    <3>2. i \in 1..Len(u) /\ u[i] = "x"
      BY <1>2, <3>1
    <3>3. QED
      BY <3>2 DEF Holds
  <2>3. QED
    BY <2>1, <2>2
<1>4. CASE path = "captured"
  <2>1. Ends(Lossy(u), "n") /\ Front(Lossy(u)) = Lossy(l)
    BY <1>2, LossyFront
  <2>2. (Ends(Lossy(l), "r") <=> Ends(l, "r")) /\ Front(Lossy(l)) = Lossy(Front(l))
    BY LossyFront
  <2>3. Stripped(Lossy(u)) = IF Ends(l, "r") THEN Lossy(Front(l)) ELSE Lossy(l)
    BY <2>1, <2>2 DEF Stripped
  <2>4. Displayed(l, TRUE) = Stripped(Lossy(u))
    BY <1>4, <2>3 DEF Displayed
  <2>5. Delivered(u) = <<Stripped(Lossy(u))>>
    BY <1>4 DEF Delivered
  <2>6. QED
    BY <1>4, <2>4, <2>5 DEF u
<1>5. CASE path = "boot"
  <2>1. Displayed(l, TRUE) = l
    BY <1>5 DEF Displayed
  <2>2. Delivered(u) = IF Holds(u, "x") THEN <<>> ELSE <<l>>
    BY <1>2, <1>5 DEF Delivered
  <2>3. QED
    BY <1>3, <1>5, <2>1, <2>2 DEF u
<1>6. CASE path = "command"
  <2>1. Displayed(l, TRUE) = l
    BY <1>6 DEF Displayed
  <2>2. Delivered(u) = IF Holds(u, "x") THEN <<>> ELSE <<l>>
    BY <1>2, <1>6 DEF Delivered
  <2>3. QED
    BY <1>3, <1>6, <2>1, <2>2 DEF u
<1>7. QED
  BY <1>4, <1>5, <1>6 DEF Paths

\* and without.
LEMMA DeliveredUnterminated ==
  ASSUME path \in Paths, NEW l \in Seq(Symbols), ~Ends(l, "n")
  PROVE  Delivered(l) =
           IF path = "captured" \/ ~Holds(l, "x") THEN <<Displayed(l, FALSE)>> ELSE <<>>
<1>1. ~Ends(Lossy(l), "n")
  BY LossyFront
<1>2. Stripped(Lossy(l)) = Lossy(l)
  BY <1>1 DEF Stripped
<1>3. CASE path = "captured"
  BY <1>2, <1>3 DEF Delivered, Displayed
<1>4. CASE path = "boot"
  BY <1>4 DEF Delivered, Displayed
<1>5. CASE path = "command"
  BY <1>5 DEF Delivered, Displayed
<1>6. QED
  BY <1>3, <1>4, <1>5 DEF Paths

\* Sending it, the lines that have been sent are those up to its end.
LEMMA SendLine ==
  ASSUME TypeOK, Unread, InLine, ~Flushed,
         sent \in Seq(Seq(Symbols)), Shows(sent, DueBy(Consumed)),
         NEW e, e = Consumed + 1, e \in Newlines \cup {Len(text) + 1},
         e <= Len(text) \/ line # <<>>,
         NEW shown, shown = Displayed(line, e <= Len(text)),
         NEW more, more = IF path = "captured" \/ ~Holds(line, "x") THEN <<shown>> ELSE <<>>
  PROVE  /\ sent \o more \in Seq(Seq(Symbols))
         /\ Shows(sent \o more, DueBy(e))
<1>1. PICK s : s = <<Start, e>>
  OBVIOUS
<1>2. /\ path \in Paths /\ sent \in Seq(Seq(Symbols)) /\ text \in Seq(Symbols)
      /\ line \in Seq(Symbols \ {"n"}) /\ pipe \in Seq(Symbols)
  BY DEF TypeOK
<1>3. line \in Seq(Symbols)
  BY <1>2, SeqMonotonic
<1>4. Len(text) \in Nat /\ Len(pipe) \in Nat /\ Consumed \in Nat
  BY <1>2, LenProperties DEF Consumed, Unread
<1>5. e \in Nat
  BY <1>4
<1>6. /\ s \in Lines /\ Content(s) = line
      /\ \A l \in Lines : l[2] = e => l = s
  BY <1>1, LineRead
<1>7. s[2] = e
  BY <1>1
<1>8. Terminated(s) <=> e <= Len(text)
  BY <1>7 DEF Terminated
<1>9. Rendered(s) = shown /\ shown \in Seq(Symbols)
  <2>1. Rendered(s) = Displayed(line, Terminated(s))
    BY <1>6, RenderedIsDisplayed
  <2>2. Rendered(s) = shown
    BY <1>8, <2>1 DEF Displayed
  <2>3. shown \in Seq(Symbols)
    BY <1>2, <1>3, DisplayedTyped
  <2>4. QED
    BY <2>2, <2>3
<1>10. s \in Due <=> path = "captured" \/ ~Holds(line, "x")
  BY <1>6, <1>8 DEF Due
<1>11. ASSUME NEW d \in Due, d[2] <= e, d # s
       PROVE  d[2] <= Consumed
  <2>1. d \in Lines /\ d[2] \in Nat
    BY <1>2, LineProperties DEF Due
  <2>2. d[2] # e
    BY <1>6, <1>11, <2>1
  <2>3. QED
    BY <1>4, <1>11, <2>1, <2>2
<1>12. ASSUME NEW d \in DueBy(Consumed)
       PROVE  d \in Due /\ d[2] \in Nat /\ d[2] < e /\ d[2] <= e
  <2>1. d \in Due /\ d \in Lines /\ d[2] <= Consumed
    BY DEF Due, DueBy
  <2>2. d[2] \in Nat
    BY <1>2, <2>1, LineProperties
  <2>3. QED
    BY <1>4, <2>1, <2>2
<1>13. PICK at \in InOrder(DueBy(Consumed)) : sent = [k \in DOMAIN at |-> Rendered(at[k])]
  BY DEF Shows
<1>14. CASE s \in Due
  <2>1. DueBy(e) = DueBy(Consumed) \cup {s}
    <3>1. s[2] <= e
      BY <1>5, <1>7
    <3>2. s \in DueBy(e)
      BY <1>14, <3>1 DEF DueBy
    <3>3. \A d \in DueBy(Consumed) : d \in DueBy(e)
      BY <1>12 DEF DueBy
    <3>4. \A d \in DueBy(e) : d = s \/ d \in DueBy(Consumed)
      BY <1>11 DEF DueBy
    <3>5. QED
      BY <3>2, <3>3, <3>4
  <2> DEFINE n == Cardinality(DueBy(Consumed))
             next == [k \in 1..n+1 |-> IF k <= n THEN at[k] ELSE s]
             now  == [k \in DOMAIN next |-> Rendered(next[k])]
  <2>2. s \notin DueBy(Consumed) /\ \A d \in DueBy(Consumed) : d[2] < s[2]
    <3>1. ~(e < e)
      BY <1>5
    <3>2. QED
      BY <1>7, <1>12, <3>1
  <2>3. n \in Nat /\ DOMAIN at = 1..n /\ next \in InOrder(DueBy(Consumed) \cup {s})
    <3>1. IsFiniteSet(DueBy(Consumed))
      BY <1>2, LinesFinite
    <3>2. QED
      BY <1>13, <2>2, <3>1, OneMore
  <2> HIDE DEF n
  <2>4. DOMAIN sent = 1..n /\ \A k \in 1..n : sent[k] = Rendered(at[k])
    BY <1>13, <2>3
  <2>5. Len(sent) = n
    BY <1>2, <2>3, <2>4, LenProperties
  <2>6. PICK z \in Seq(Symbols) : z = Rendered(s)
    BY <1>9
  <2>7. more = <<z>>
    BY <1>9, <1>10, <1>14, <2>6
  <2> DEFINE longer == Append(sent, z)
  <2>8. /\ longer \in Seq(Seq(Symbols)) /\ Len(longer) = n + 1 /\ longer[n + 1] = z
        /\ \A k \in 1..n : longer[k] = sent[k]
    BY ONLY <1>2, <2>5, AppendProperties, z \in Seq(Symbols)
  <2>9. sent \o more = longer
    <3>1. longer = sent \o <<z>>
      BY ONLY <1>2, AppendIsConcat, z \in Seq(Symbols)
    <3>2. QED
      BY <2>7, <3>1
  <2> HIDE DEF longer
  <2>10. longer = now
    <3>1. longer \in [1..n+1 -> Seq(Symbols)]
      BY <2>8, LenProperties
    <3>2. DOMAIN next = 1..n+1
      OBVIOUS
    <3>3. ASSUME NEW k \in 1..n+1
          PROVE  longer[k] = Rendered(next[k])
      <4>1. CASE k <= n
        <5>1. k \in 1..n /\ next[k] = at[k]
          BY <2>3, <4>1
        <5>2. QED
          BY <2>4, <2>8, <5>1
      <4>2. CASE ~(k <= n)
        <5>1. k = n + 1 /\ next[k] = s
          BY <2>3, <4>2
        <5>2. QED
          BY <2>6, <2>8, <5>1
      <4>3. QED
        BY <4>1, <4>2
    <3> HIDE DEF next
    <3>4. QED
      BY <3>1, <3>2, <3>3
  <2> HIDE DEF next
  <2>11. next \in InOrder(DueBy(e))
    BY <2>1, <2>3
  <2>12. Shows(sent \o more, DueBy(e))
    BY ONLY <2>9, <2>10, <2>11 DEF Shows, now
  <2>13. QED
    BY <2>8, <2>9, <2>12
<1>15. CASE s \notin Due
  <2>1. DueBy(e) = DueBy(Consumed)
    <3>1. \A d \in DueBy(Consumed) : d \in DueBy(e)
      BY <1>12 DEF DueBy
    <3>2. \A d \in DueBy(e) : d \in DueBy(Consumed)
      BY <1>11, <1>15 DEF DueBy
    <3>3. QED
      BY <3>1, <3>2
  <2>2. more = <<>>
    BY <1>10, <1>15
  <2>3. sent \o more = sent
    BY <1>2, <2>2, ConcatEmptySeq
  <2>4. QED
    BY <1>2, <1>13, <2>1, <2>3
<1>16. QED
  BY <1>14, <1>15

-----------------------------------------------------------------------------
(***************************************************************************)
(* The invariant.                                                          *)
(***************************************************************************)
LEMMA Plain ==
  ASSUME NEW q \in Seq(Seq(Symbols))
  PROVE  q \in Seq(Seq(Symbols \cup {"truncation"}))
<1>1. Symbols \subseteq Symbols \cup {"truncation"}
  OBVIOUS
<1>2. Seq(Symbols) \subseteq Seq(Symbols \cup {"truncation"})
  BY <1>1, SeqMonotonic
<1>3. QED
  BY <1>2, SeqMonotonic

LEMMA Lengths ==
  ASSUME TypeOK
  PROVE  /\ Len(text) \in Nat /\ Len(pipe) \in Nat /\ Len(line) \in Nat
         /\ (text = <<>> <=> Len(text) = 0) /\ (pipe = <<>> <=> Len(pipe) = 0)
         /\ (line = <<>> <=> Len(line) = 0)
         /\ line \in Seq(Symbols) /\ \A i \in 1..Len(line) : line[i] # "n"
<1>1. text \in Seq(Symbols) /\ pipe \in Seq(Symbols) /\ line \in Seq(Symbols \ {"n"})
  BY DEF TypeOK
<1>2. line \in Seq(Symbols)
  BY <1>1, SeqMonotonic
<1>3. \A i \in 1..Len(line) : line[i] # "n"
  <2>1. \A i \in 1..Len(line) : line[i] \in Symbols \ {"n"}
    BY <1>1, ElementOfSeq
  <2>2. QED
    BY <2>1
<1>4. QED
  BY <1>1, <1>2, <1>3, Elements

\* Whoever moves does not change what was read and sent.
LEMMA NothingMoved ==
  ASSUME Unread, InLine, SentRight, EveryLineOnce,
         UNCHANGED <<path, text, truncated, pipe, line, reader, sent>>
  PROVE  Unread' /\ InLine' /\ SentRight' /\ EveryLineOnce' /\ (Flushed' <=> Flushed)
<1>1. Consumed' = Consumed /\ Start' = Start /\ (Flushed' <=> Flushed)
  BY DEF Consumed, Start, Flushed
<1>2. Newlines' = Newlines /\ Due' = Due /\ \A s : Rendered(s)' = Rendered(s)
  BY SameText
<1>3. Unread'
  BY <1>1 DEF Unread
<1>4. InLine'
  BY <1>1, <1>2 DEF InLine
<1>5. SentRight'
  BY <1>1, <1>2 DEF SentRight, Shows, DueBy
<1>6. EveryLineOnce'
  <2>1. \A s : Shown(s)' = Shown(s)
    BY DEF Shown, Content, Terminated
  <2>2. Markers' = Markers
    BY DEF Markers
  <2>3. QED
    BY <1>2, <2>1, <2>2 DEF EveryLineOnce
<1>7. QED
  BY <1>1, <1>3, <1>4, <1>5, <1>6

\* Of a stream that is new nothing has been read.
New == /\ path \in Paths /\ text \in Seq(Symbols) /\ pipe = text
       /\ line = <<>> /\ reader = "reads" /\ sent = <<>>

LEMMA NewRight == New => Unread /\ InLine /\ SentRight /\ EveryLineOnce /\ ~Flushed
<1> SUFFICES ASSUME New
             PROVE  Unread /\ InLine /\ SentRight /\ EveryLineOnce /\ ~Flushed
  OBVIOUS
<1>1. /\ text \in Seq(Symbols) /\ pipe = text /\ line = <<>> /\ reader = "reads" /\ sent = <<>>
  BY DEF New
<1>2. Len(text) \in Nat /\ Len(line) = 0
  BY <1>1, LenProperties, EmptySeq
<1>3. Consumed = 0 /\ Start = 0 /\ ~Flushed
  <2>1. Consumed = 0
    BY <1>1, <1>2 DEF Consumed
  <2>2. Start = 0
    BY <1>2, <2>1 DEF Start
  <2>3. ~Flushed
    BY <1>1 DEF Flushed
  <2>4. QED
    BY <2>1, <2>2, <2>3
<1>4. Unread
  BY <1>1, <1>2, <1>3 DEF Unread
<1>5. InLine
  BY <1>2, <1>3 DEF InLine
<1>6. SentRight
  <2>1. ASSUME NEW s \in DueBy(0)
        PROVE  FALSE
    <3>1. s \in Lines /\ s[2] <= 0
      BY DEF DueBy, Due
    <3>2. s[1] \in Nat /\ s[2] \in Nat /\ s[1] < s[2]
      BY <1>1, <3>1, LineProperties
    <3>3. QED
      BY <3>1, <3>2
  <2>2. DueBy(0) = {} /\ Cardinality(DueBy(0)) = 0
    BY <2>1, FS_EmptySet
  <2>3. sent \in InOrder(DueBy(0)) /\ DOMAIN sent = {}
    <3>1. DOMAIN sent = 1..0 /\ sent \in [1..0 -> {}]
      BY <1>1
    <3>2. QED
      BY <2>2, <3>1 DEF InOrder
  <2>4. sent = [k \in DOMAIN sent |-> Rendered(sent[k])]
    BY <1>1, <2>3
  <2>5. sent \in Seq(Seq(Symbols))
    BY <1>1, EmptySeq
  <2>6. QED
    BY <1>3, <2>3, <2>4, <2>5 DEF SentRight, Shows
<1>7. QED
  BY <1>1, <1>3, <1>4, <1>5, <1>6 DEF EveryLineOnce

LEMMA NewRightNext ==
  New' => Unread' /\ InLine' /\ SentRight' /\ EveryLineOnce' /\ ~Flushed'
<1>1. New => Unread /\ InLine /\ SentRight /\ EveryLineOnce /\ ~Flushed
  BY NewRight
<1>2. QED
  BY <1>1, PTL

LEMMA TextsAreSequences ==
  ASSUME NEW t \in Texts
  PROVE  t \in Seq(Symbols) /\ Len(t) <= MaxText
<1>1. PICK n \in 0..MaxText : t \in [1..n -> Symbols]
  BY DEF Texts
<1>2. n \in Nat /\ n <= MaxText
  BY <1>1, BoundsAssumption
<1>3. t \in Seq(Symbols)
  BY <1>1, <1>2, IsASeq
<1>4. Len(t) = n
  BY <1>1, <1>2, <1>3, LenProperties
<1>5. QED
  BY <1>2, <1>3, <1>4

LEMMA InitIInv == Init => IInv
<1> SUFFICES ASSUME Init
             PROVE  IInv
  OBVIOUS
<1>1. /\ path \in Paths /\ writing = "nothing" /\ stderr = 0 /\ pipe = text
      /\ line = <<>> /\ reader = "reads" /\ sent = <<>>
      /\ writer \in {"runs", "ended"} /\ (path = "captured" => writer = "ended")
  BY DEF Init
<1>2. text \in Seq(Symbols) /\ Len(text) <= MaxText /\ truncated \in BOOLEAN
      /\ (path # "captured" => Len(pipe) = 0)
  <2>1. CASE path = "captured"
    <3>1. text \in Texts /\ truncated \in BOOLEAN
      BY <2>1 DEF Init
    <3>2. QED
      BY <2>1, <3>1, TextsAreSequences
  <2>2. CASE path # "captured"
    <3>1. text = <<>> /\ truncated = FALSE
      BY <2>2 DEF Init
    <3>2. Len(text) = 0 /\ text \in Seq(Symbols) /\ truncated \in BOOLEAN
      BY <3>1, EmptySeq
    <3>3. QED
      BY <1>1, <3>2, BoundsAssumption
  <2>3. QED
    BY <2>1, <2>2
<1>3. TypeOK
  <2>1. /\ text \in Seq(Symbols) /\ pipe \in Seq(Symbols) /\ line \in Seq(Symbols \ {"n"})
        /\ sent \in Seq(Seq(Symbols \cup {"truncation"}))
    BY <1>1, <1>2, EmptySeq
  <2>2. stderr \in 0..StderrSize /\ (path # "captured" => Len(pipe) <= PipeSize)
    BY <1>1, <1>2, SizesAssumption
  <2>3. stream \in {"out_data", "err_data"} /\ qemu \in {"runs", "quits", "ended"}
        /\ telling \in BOOLEAN
    BY DEF Init
  <2>4. QED
    BY <1>1, <1>2, <2>1, <2>2, <2>3 DEF TypeOK
<1>4. Unread /\ InLine /\ SentRight /\ EveryLineOnce /\ ~Flushed
  BY <1>1, <1>2, NewRight DEF New
<1>5. Bounded /\ Finished
  <2>1. "nothing" \notin Symbols
    BY DEF Symbols
  <2>2. QED
    BY <1>1, <1>4, <2>1 DEF Bounded, Finished
<1>6. QED
  BY <1>3, <1>4, <1>5 DEF IInv

\* A writer that has yet to write has not ended: nothing was flushed.
LEMMA EndWriteKeeps ==
  ASSUME IInv, NEW w \in Symbols, qemu # "ended", writing = w, Len(pipe) < PipeSize,
         text' = Append(text, w), pipe' = Append(pipe, w), writing' = "nothing",
         UNCHANGED <<sourceVars, qemuVars, writer, readerVars>>
  PROVE  IInv'
<1>1. TypeOK /\ Unread /\ InLine /\ SentRight /\ Bounded /\ Finished /\ EveryLineOnce
  BY DEF IInv
<1>2. text \in Seq(Symbols) /\ pipe \in Seq(Symbols)
  BY <1>1 DEF TypeOK
<1>3. Len(text) \in Nat /\ Len(pipe) \in Nat /\ Len(line) \in Nat
  BY <1>1, Lengths
<1>4. /\ text' \in Seq(Symbols) /\ Len(text') = Len(text) + 1 /\ text'[Len(text) + 1] = w
      /\ \A i \in 1..Len(text) : text'[i] = text[i]
  BY <1>2, AppendProperties
<1>5. /\ pipe' \in Seq(Symbols) /\ Len(pipe') = Len(pipe) + 1 /\ pipe'[Len(pipe) + 1] = w
      /\ pipe' # <<>> /\ \A i \in 1..Len(pipe) : pipe'[i] = pipe[i]
  BY <1>2, AppendProperties
<1>6. PICK n \in Nat : n = Consumed /\ n <= Len(text) /\ n + Len(pipe) = Len(text)
  <2>1. Len(pipe) <= Len(text)
    BY <1>1 DEF Unread
  <2>2. /\ Consumed \in Nat /\ Consumed <= Len(text)
        /\ Consumed + Len(pipe) = Len(text)
    BY <1>3, <2>1 DEF Consumed
  <2>3. QED
    BY <2>2
<1>7. Consumed' = n
  BY <1>3, <1>4, <1>5, <1>6 DEF Consumed
<1>8. PICK b : b = Start /\ b = n - Len(line)
  BY <1>6 DEF Start
<1>9. Start' = b
  BY <1>7, <1>8 DEF Start
<1>10. ~Flushed /\ ~Flushed' /\ path # "captured" /\ reader = "reads"
  <2>1. path # "captured"
    BY <1>1 DEF Bounded, Symbols
  <2>2. ~Closed
    BY <2>1 DEF Closed
  <2>3. reader # "ended" /\ reader \in {"reads", "ended"}
    BY <1>1, <2>2 DEF Finished, TypeOK
  <2>4. QED
    BY <1>1, <1>5, <2>1, <2>2, <2>3 DEF Finished, Flushed
<1>11. TypeOK'
  <2>1. Len(text) < MaxText
    BY <1>1 DEF Bounded
  <2>2. Len(text') <= MaxText
    BY <1>3, <1>4, <2>1, BoundsAssumption
  <2>3. path # "captured" => Len(pipe') <= PipeSize
    BY <1>3, <1>5, SizesAssumption
  <2>4. QED
    BY <1>1, <1>4, <1>5, <2>2, <2>3 DEF TypeOK
<1>12. Unread'
  <2>1. ASSUME NEW i \in 1..Len(pipe)+1
        PROVE  pipe'[i] = text'[n + i]
    <3>1. CASE i <= Len(pipe)
      <4>1. i \in 1..Len(pipe) /\ n + i \in 1..Len(text)
        BY <1>3, <1>6, <3>1
      <4>2. pipe[i] = text[n + i]
        <5>1. \A k \in 1..Len(pipe) : pipe[k] = text[Consumed + k]
          BY <1>1 DEF Unread
        <5>2. QED
          BY <1>6, <4>1, <5>1
      <4>3. QED
        BY <1>4, <1>5, <4>1, <4>2
    <3>2. CASE ~(i <= Len(pipe))
      <4>1. i = Len(pipe) + 1 /\ n + i = Len(text) + 1
        <5>1. i = Len(pipe) + 1
          BY <1>3, <3>2
        <5>2. n + Len(pipe) = Len(text)
          BY <1>6
        <5>3. QED
          BY ONLY <1>3, <5>1, <5>2, n \in Nat
      <4>2. text'[Len(text) + 1] = w /\ pipe'[Len(pipe) + 1] = w
        BY <1>4, <1>5
      <4>3. QED
        BY ONLY <4>1, <4>2
    <3>3. QED
      BY <3>1, <3>2
  <2>2. Len(pipe') <= Len(text')
    BY <1>1, <1>3, <1>4, <1>5 DEF Unread
  <2>3. QED
    BY <1>5, <1>7, <2>1, <2>2 DEF Unread
<1>13. InLine'
  <2>1. /\ b \in Newlines \cup {0}
        /\ \A i \in 1..Len(line) : line[i] = text[b + i]
    BY <1>1, <1>8, <1>10 DEF InLine
  <2>2. b \in 0..Len(text) /\ b \in Nat
    BY <1>3, <2>1 DEF Newlines
  <2>3. b \in Newlines' \cup {0}
    BY <1>3, <1>4, <2>1 DEF Newlines
  <2>4. \A i \in 1..Len(line) : b + i \in 1..Len(text)
    BY <1>3, <1>6, <1>8, <2>2
  <2>5. \A i \in 1..Len(line) : line[i] = text'[b + i]
    BY <1>4, <2>1, <2>4
  <2>6. QED
    BY <1>9, <2>3, <2>5 DEF InLine
<1>14. SentRight'
  <2>1. DueBy(n)' = DueBy(n) /\ \A s \in DueBy(n) : Rendered(s)' = Rendered(s)
    BY <1>2, <1>6, GrownText
  <2>2. PICK at \in InOrder(DueBy(n)) : sent = [k \in DOMAIN at |-> Rendered(at[k])]
    BY <1>1, <1>6, <1>10 DEF SentRight, Shows
  <2>3. \A k \in DOMAIN at : at[k] \in DueBy(n)
    BY DEF InOrder
  <2>4. sent' = [k \in DOMAIN at |-> Rendered(at[k])']
    BY <2>1, <2>2, <2>3
  <2>5. at \in InOrder(DueBy(n)')
    BY <2>1
  <2>6. DueBy(Consumed)' = DueBy(n)'
    BY <1>7 DEF DueBy
  <2>7. sent \in Seq(Seq(Symbols))
    BY <1>1, <1>10 DEF SentRight
  <2>8. QED
    BY <1>10, <2>4, <2>5, <2>6, <2>7 DEF SentRight, Shows
<1>15. Bounded' /\ Finished'
  <2>1. "nothing" \notin Symbols
    BY DEF Symbols
  <2>2. QED
    BY <1>10, <2>1 DEF Bounded, Finished
<1>16. EveryLineOnce'
  BY <1>10 DEF EveryLineOnce
<1>17. QED
  BY <1>11, <1>12, <1>13, <1>14, <1>15, <1>16 DEF IInv

\* Reading on in a line ends none.
LEMMA ReadSymbolKeeps == IInv /\ ReadSymbol => IInv'
<1> SUFFICES ASSUME IInv, ReadSymbol
             PROVE  IInv'
  OBVIOUS
<1>1. TypeOK /\ Unread /\ InLine /\ SentRight /\ Bounded /\ Finished /\ EveryLineOnce
  BY DEF IInv
<1>2. /\ text \in Seq(Symbols) /\ pipe \in Seq(Symbols) /\ line \in Seq(Symbols \ {"n"})
  BY <1>1 DEF TypeOK
<1>3. Len(text) \in Nat /\ Len(pipe) \in Nat /\ Len(line) \in Nat
  BY <1>1, Lengths
<1>4. /\ pipe # <<>> /\ Head(pipe) # "n" /\ pipe' = Tail(pipe)
      /\ line' = Append(line, Head(pipe)) /\ reader = "reads"
      /\ UNCHANGED <<writerVars, reader, sent>>
  BY DEF ReadSymbol
<1>5. PICK w \in Symbols \ {"n"} : w = Head(pipe) /\ w = pipe[1]
  BY <1>2, <1>4, HeadTailProperties
<1>6. /\ pipe' \in Seq(Symbols) /\ Len(pipe') = Len(pipe) - 1
      /\ \A i \in 1..Len(pipe') : pipe'[i] = pipe[i + 1]
  BY <1>2, <1>4, HeadTailProperties
<1>7. /\ line' \in Seq(Symbols \ {"n"}) /\ line' # <<>> /\ Len(line') = Len(line) + 1
      /\ line'[Len(line) + 1] = w /\ \A i \in 1..Len(line) : line'[i] = line[i]
  BY <1>2, <1>4, <1>5, AppendProperties
<1>8. 1 \in 1..Len(pipe)
  BY <1>1, <1>3, <1>4, Lengths
<1>9. PICK n \in Nat : n = Consumed /\ n < Len(text) /\ n + Len(pipe) = Len(text)
  <2>1. Len(pipe) <= Len(text)
    BY <1>1 DEF Unread
  <2>2. /\ Consumed \in Nat /\ Consumed < Len(text)
        /\ Consumed + Len(pipe) = Len(text)
    BY <1>3, <1>8, <2>1 DEF Consumed
  <2>3. QED
    BY <2>2
<1>10. Consumed' = n + 1
  BY <1>3, <1>4, <1>6, <1>9 DEF Consumed
<1>11. PICK b : b = Start /\ b = n - Len(line)
  BY <1>9 DEF Start
<1>12. Start' = b
  BY <1>3, <1>7, <1>9, <1>10, <1>11 DEF Start
<1>13. ~Flushed /\ ~Flushed'
  BY <1>4, <1>7 DEF Flushed
<1>14. /\ \A i \in 1..Len(pipe) : pipe[i] = text[n + i]
       /\ text[n + 1] = w
  BY <1>1, <1>5, <1>8, <1>9 DEF Unread
<1>15. TypeOK'
  <2>1. Len(pipe') <= Len(pipe)
    BY <1>3, <1>6
  <2>2. path # "captured" => Len(pipe') <= PipeSize
    BY <1>1, <1>3, <1>6, <2>1, SizesAssumption DEF TypeOK
  <2>3. QED
    BY <1>1, <1>4, <1>6, <1>7, <2>2 DEF TypeOK
<1>16. Unread'
  <2>1. Len(pipe') <= Len(text')
    BY <1>3, <1>4, <1>6, <1>9
  <2>2. ASSUME NEW i \in 1..Len(pipe')
        PROVE  pipe'[i] = text[n + 1 + i]
    <3>1. i + 1 \in 1..Len(pipe) /\ n + (i + 1) = n + 1 + i
      BY <1>3, <1>6
    <3>2. QED
      BY <1>6, <1>14, <3>1
  <2>3. QED
    BY <1>4, <1>10, <2>1, <2>2 DEF Unread
<1>17. InLine'
  <2>1. b \in Newlines \cup {0} /\ \A i \in 1..Len(line) : line[i] = text[b + i]
    BY <1>1, <1>11, <1>13 DEF InLine
  <2>2. b + (Len(line) + 1) = n + 1
    BY <1>3, <1>9, <1>11
  <2>3. ASSUME NEW i \in 1..Len(line)+1
        PROVE  line'[i] = text[b + i]
    <3>1. CASE i \in 1..Len(line)
      BY <1>7, <2>1, <3>1
    <3>2. CASE i = Len(line) + 1
      BY <1>7, <1>14, <2>2, <3>2
    <3>3. QED
      BY <1>3, <3>1, <3>2
  <2>4. Newlines' = Newlines
    BY <1>4, SameText
  <2>5. QED
    BY <1>4, <1>7, <1>12, <2>1, <2>3, <2>4 DEF InLine
<1>18. SentRight'
  <2>1. ASSUME NEW s \in Due
        PROVE  s[2] <= n <=> s[2] <= n + 1
    <3>1. s \in Lines
      BY DEF Due
    <3>2. s[2] \in Nat /\ s[2] \in Newlines \cup {Len(text) + 1}
      BY <1>2, <3>1, LineProperties
    <3>3. s[2] # n + 1
      <4>1. n + 1 # Len(text) + 1
        BY <1>3, <1>9
      <4>2. n + 1 \notin Newlines
        BY <1>5, <1>14 DEF Newlines
      <4>3. QED
        BY <3>2, <4>1, <4>2
    <3>4. QED
      BY <3>2, <3>3
  <2>2. DueBy(n) = DueBy(n + 1)
    BY <2>1 DEF DueBy
  <2>3. Shows(sent, DueBy(n + 1)) /\ sent \in Seq(Seq(Symbols))
    BY <1>1, <1>4, <1>9, <1>13, <2>2 DEF SentRight
  <2>4. DueBy(n + 1)' = DueBy(n + 1) /\ \A s : Rendered(s)' = Rendered(s)
    BY <1>4, SameText
  <2>5. DueBy(Consumed)' = DueBy(n + 1)'
    BY <1>10 DEF DueBy
  <2>6. QED
    BY <1>4, <1>13, <2>3, <2>4, <2>5 DEF SentRight, Shows
<1>19. Bounded' /\ Finished'
  BY <1>1, <1>4, <1>13 DEF Bounded, Finished
<1>20. QED
  BY <1>4, <1>15, <1>16, <1>17, <1>18, <1>19 DEF IInv, EveryLineOnce

\* With its newline it is sent, and the next begins there.
LEMMA ReadNewlineKeeps == IInv /\ ReadNewline => IInv'
<1> SUFFICES ASSUME IInv, ReadNewline
             PROVE  IInv'
  OBVIOUS
<1>1. TypeOK /\ Unread /\ InLine /\ SentRight /\ Bounded /\ Finished /\ EveryLineOnce
  BY DEF IInv
<1>2. /\ path \in Paths /\ text \in Seq(Symbols) /\ pipe \in Seq(Symbols)
      /\ line \in Seq(Symbols \ {"n"})
  BY <1>1 DEF TypeOK
<1>3. /\ Len(text) \in Nat /\ Len(pipe) \in Nat /\ Len(line) \in Nat
      /\ line \in Seq(Symbols)
  BY <1>1, Lengths
<1>4. /\ pipe # <<>> /\ Head(pipe) = "n" /\ pipe' = Tail(pipe)
      /\ sent' = sent \o Delivered(Append(line, "n")) /\ line' = <<>>
      /\ reader = "reads" /\ reader' = "reads"
      /\ UNCHANGED writerVars
  BY DEF ReadNewline, AfterLine
<1>5. pipe[1] = "n"
  BY <1>2, <1>4, HeadTailProperties
<1>6. /\ pipe' \in Seq(Symbols) /\ Len(pipe') = Len(pipe) - 1
      /\ \A i \in 1..Len(pipe') : pipe'[i] = pipe[i + 1]
  BY <1>2, <1>4, HeadTailProperties
<1>7. 1 \in 1..Len(pipe) /\ Len(line') = 0
  BY <1>1, <1>3, <1>4, Lengths, EmptySeq
<1>8. PICK n \in Nat : n = Consumed /\ n < Len(text) /\ n + Len(pipe) = Len(text)
  <2>1. Len(pipe) <= Len(text)
    BY <1>1 DEF Unread
  <2>2. /\ Consumed \in Nat /\ Consumed < Len(text)
        /\ Consumed + Len(pipe) = Len(text)
    BY <1>3, <1>7, <2>1 DEF Consumed
  <2>3. QED
    BY <2>2
<1>9. Consumed' = n + 1
  BY <1>3, <1>4, <1>6, <1>8 DEF Consumed
<1>10. Start' = n + 1
  BY <1>7, <1>9 DEF Start
<1>11. /\ \A i \in 1..Len(pipe) : pipe[i] = text[n + i]
       /\ text[n + 1] = "n"
  BY <1>1, <1>5, <1>7, <1>8 DEF Unread
<1>12. n + 1 \in Newlines
  BY <1>3, <1>8, <1>11 DEF Newlines
<1>13. ~Flushed /\ ~Flushed'
  <2>1. ASSUME pipe' = <<>>
        PROVE  text[Len(text)] = "n"
    <3>1. Len(pipe') = 0
      BY <2>1, EmptySeq
    <3>2. Len(text) = n + 1
      <4>1. Len(pipe) = 1
        BY <1>3, <1>6, <3>1
      <4>2. QED
        BY <1>8, <4>1
    <3>3. QED
      BY <1>11, <3>2
  <2>2. QED
    BY <1>4, <2>1 DEF Flushed
<1>14. /\ sent' \in Seq(Seq(Symbols))
       /\ \E at \in InOrder(DueBy(n + 1)) : sent' = [k \in DOMAIN at |-> Rendered(at[k])]
  <2>1. PICK shown : shown = Displayed(line, TRUE)
    OBVIOUS
  <2>2. PICK more : more = IF path = "captured" \/ ~Holds(line, "x") THEN <<shown>> ELSE <<>>
    OBVIOUS
  <2>3. sent' = sent \o more
    BY <1>2, <1>3, <1>4, <2>1, <2>2, DeliveredTerminated
  <2>4. sent \in Seq(Seq(Symbols)) /\ Shows(sent, DueBy(Consumed))
    BY <1>1, <1>4, <1>13 DEF SentRight
  <2>5. PICK e : e = n + 1
    OBVIOUS
  <2>6. e = Consumed + 1 /\ e \in Newlines \cup {Len(text) + 1} /\ e <= Len(text)
    BY <1>3, <1>8, <1>12, <2>5
  <2>7. shown = Displayed(line, e <= Len(text))
    BY <2>1, <2>6 DEF Displayed
  <2>8. /\ sent \o more \in Seq(Seq(Symbols))
        /\ Shows(sent \o more, DueBy(e))
    BY <1>1, <1>13, <2>2, <2>4, <2>6, <2>7, SendLine
  <2>9. QED
    BY <2>3, <2>5, <2>8 DEF Shows
<1>15. TypeOK'
  <2>1. path # "captured" => Len(pipe') <= PipeSize
    BY <1>1, <1>3, <1>6, SizesAssumption DEF TypeOK
  <2>2. line' \in Seq(Symbols \ {"n"})
    BY <1>4, EmptySeq
  <2>3. sent' \in Seq(Seq(Symbols \cup {"truncation"}))
    BY <1>14, Plain
  <2>4. QED
    BY <1>1, <1>4, <1>6, <2>1, <2>2, <2>3 DEF TypeOK
<1>16. Unread'
  <2>1. Len(pipe') <= Len(text')
    BY <1>3, <1>4, <1>6, <1>8
  <2>2. ASSUME NEW i \in 1..Len(pipe')
        PROVE  pipe'[i] = text[n + 1 + i]
    <3>1. i + 1 \in 1..Len(pipe) /\ n + (i + 1) = n + 1 + i
      BY <1>3, <1>6
    <3>2. QED
      BY <1>6, <1>11, <3>1
  <2>3. QED
    BY <1>4, <1>9, <2>1, <2>2 DEF Unread
<1>17. InLine'
  <2>1. Newlines' = Newlines
    BY <1>4, SameText
  <2>2. QED
    BY <1>7, <1>10, <1>12, <2>1 DEF InLine
<1>18. SentRight'
  <2>1. DueBy(n + 1)' = DueBy(n + 1) /\ \A s : Rendered(s)' = Rendered(s)
    BY <1>4, SameText
  <2>2. DueBy(Consumed)' = DueBy(n + 1)'
    BY <1>9 DEF DueBy
  <2>3. QED
    BY <1>13, <1>14, <2>1, <2>2 DEF SentRight, Shows
<1>19. Bounded' /\ Finished'
  BY <1>1, <1>4, <1>13 DEF Bounded, Finished
<1>20. QED
  BY <1>4, <1>15, <1>16, <1>17, <1>18, <1>19 DEF IInv, EveryLineOnce

\* What follows the last newline is sent once there can be no more.
LEMMA ReadLastKeeps == IInv /\ ReadLast => IInv'
<1> SUFFICES ASSUME IInv, ReadLast
             PROVE  IInv'
  OBVIOUS
<1>1. TypeOK /\ Unread /\ InLine /\ SentRight /\ Bounded /\ Finished /\ EveryLineOnce
  BY DEF IInv
<1>2. /\ path \in Paths /\ text \in Seq(Symbols) /\ pipe \in Seq(Symbols)
      /\ line \in Seq(Symbols \ {"n"})
  BY <1>1 DEF TypeOK
<1>3. /\ Len(text) \in Nat /\ Len(line) \in Nat /\ line \in Seq(Symbols)
      /\ \A i \in 1..Len(line) : line[i] # "n"
  BY <1>1, Lengths
<1>4. /\ pipe = <<>> /\ line # <<>> /\ Closed /\ line' = <<>>
      /\ sent' = sent \o Delivered(line) /\ reader = "reads" /\ reader' = "reads"
      /\ UNCHANGED <<writerVars, pipe>>
  BY DEF ReadLast, AtEof, AfterLine
<1>5. Len(line) \in 1..Len(line)
  BY <1>1, <1>3, <1>4, Lengths
<1>6. Len(pipe) = 0 /\ Consumed = Len(text)
  <2>1. Len(pipe) = 0
    BY <1>4, EmptySeq
  <2>2. QED
    BY <1>3, <2>1 DEF Consumed
<1>7. ~Flushed
  BY <1>4 DEF Flushed
<1>8. text # <<>> /\ text[Len(text)] # "n"
  <2>1. /\ Start \in Newlines \cup {0} /\ Start = Len(text) - Len(line)
        /\ \A i \in 1..Len(line) : line[i] = text[Start + i]
    BY <1>1, <1>6, <1>7 DEF InLine, Start
  <2>2. Start + Len(line) = Len(text)
    BY <1>3, <2>1
  <2>3. text[Len(text)] # "n"
    BY <1>3, <1>5, <2>1, <2>2
  <2>4. Start \in Nat
    BY <2>1 DEF Newlines
  <2>5. Len(text) # 0
    BY <1>3, <1>5, <2>2, <2>4
  <2>6. QED
    BY <1>2, <2>3, <2>5, EmptySeq
<1>9. Flushed'
  BY <1>4, <1>8 DEF Flushed
<1>10. /\ sent' \in Seq(Seq(Symbols))
       /\ \E at \in InOrder(Due) : sent' = [k \in DOMAIN at |-> Rendered(at[k])]
  <2>1. PICK shown : shown = Displayed(line, FALSE)
    OBVIOUS
  <2>2. PICK more : more = IF path = "captured" \/ ~Holds(line, "x") THEN <<shown>> ELSE <<>>
    OBVIOUS
  <2>3. ~Ends(line, "n")
    BY <1>3, <1>5 DEF Ends
  <2>4. sent' = sent \o more
    BY <1>2, <1>3, <1>4, <2>1, <2>2, <2>3, DeliveredUnterminated
  <2>5. sent \in Seq(Seq(Symbols)) /\ Shows(sent, DueBy(Consumed))
    BY <1>1, <1>4, <1>7 DEF SentRight
  <2>6. PICK e : e = Len(text) + 1
    OBVIOUS
  <2>7. e = Consumed + 1 /\ e \in Newlines \cup {Len(text) + 1} /\ ~(e <= Len(text))
    BY <1>3, <1>6, <2>6
  <2>8. shown = Displayed(line, e <= Len(text))
    BY <2>1, <2>7 DEF Displayed
  <2>9. /\ sent \o more \in Seq(Seq(Symbols))
        /\ Shows(sent \o more, DueBy(e))
    BY <1>1, <1>4, <1>7, <2>2, <2>5, <2>7, <2>8, SendLine
  <2>10. DueBy(e) = Due
    <3>1. ASSUME NEW s \in Due
          PROVE  s[2] <= e
      BY <1>2, <2>6, LineProperties DEF Due
    <3>2. QED
      BY <3>1 DEF DueBy
  <2>11. QED
    BY <2>4, <2>9, <2>10 DEF Shows
<1>11. TypeOK'
  <2>1. line' \in Seq(Symbols \ {"n"})
    BY <1>4, EmptySeq
  <2>2. sent' \in Seq(Seq(Symbols \cup {"truncation"}))
    BY <1>10, Plain
  <2>3. QED
    BY <1>1, <1>4, <2>1, <2>2 DEF TypeOK
<1>12. Unread'
  <2>1. Consumed' = Consumed
    BY <1>4 DEF Consumed
  <2>2. QED
    BY <1>1, <1>4, <2>1 DEF Unread
<1>13. InLine'
  BY <1>9 DEF InLine
<1>14. SentRight'
  <2>1. Due' = Due /\ \A s : Rendered(s)' = Rendered(s)
    BY <1>4, SameText
  <2>2. QED
    BY <1>9, <1>10, <2>1 DEF SentRight, Shows
<1>15. Bounded' /\ Finished'
  BY <1>1, <1>4 DEF Bounded, Finished, Closed
<1>16. QED
  BY <1>4, <1>11, <1>12, <1>13, <1>14, <1>15 DEF IInv, EveryLineOnce

\* When there is nothing left to read, every line has been sent,
LEMMA AllSent ==
  ASSUME TypeOK, Unread, InLine, SentRight, reader = "reads", pipe = <<>>, line = <<>>
  PROVE  Shows(sent, Due)
<1>1. Len(text) \in Nat /\ text \in Seq(Symbols) /\ Len(pipe) = 0 /\ Len(line) = 0
  BY Lengths DEF TypeOK
<1>2. CASE Flushed
  BY <1>2 DEF SentRight
<1>3. CASE ~Flushed
  <2>1. Consumed = Len(text)
    BY <1>1 DEF Consumed
  <2>2. ASSUME NEW s \in Due
        PROVE  s[2] <= Consumed
    <3>1. s \in Lines /\ (Terminated(s) \/ Content(s) # <<>>)
      BY DEF Due
    <3>2. s[2] \in Nat /\ s[2] <= Len(text) + 1
      BY <1>1, <3>1, LineProperties
    <3>3. ASSUME s[2] = Len(text) + 1
          PROVE  FALSE
      <4>1. PICK e : e = Len(text) + 1
        OBVIOUS
      <4>2. e = Consumed + 1 /\ e \in Newlines \cup {Len(text) + 1}
        BY <2>1, <4>1
      <4>3. /\ Content(<<Start, e>>) = line
            /\ \A l \in Lines : l[2] = e => l = <<Start, e>>
        BY <1>3, <4>2, LineRead
      <4>4. Content(s) = <<>>
        BY <3>1, <3>3, <4>1, <4>3
      <4>5. ~Terminated(s)
        BY <1>1, <3>3 DEF Terminated
      <4>6. QED
        BY <3>1, <4>4, <4>5
    <3>4. QED
      BY <1>1, <2>1, <3>2, <3>3
  <2>3. DueBy(Consumed) = Due
    BY <2>2 DEF DueBy
  <2>4. QED
    BY <1>3, <2>3 DEF SentRight
<1>4. QED
  BY <1>2, <1>3

\* and the end of the stream adds the marker.
LEMMA ReadEofKeeps == IInv /\ ReadEof => IInv'
<1> SUFFICES ASSUME IInv, ReadEof
             PROVE  IInv'
  OBVIOUS
<1>1. TypeOK /\ Unread /\ InLine /\ SentRight /\ Bounded /\ Finished
  BY DEF IInv
<1>2. /\ reader = "reads" /\ pipe = <<>> /\ line = <<>> /\ Closed
      /\ reader' = "ended" /\ sent' = sent \o Markers
      /\ UNCHANGED <<writerVars, pipe, line>>
  BY DEF ReadEof, AtEof
<1>3. text \in Seq(Symbols) /\ sent \in Seq(Seq(Symbols))
  BY <1>1, <1>2 DEF TypeOK, SentRight
<1>4. PICK at \in InOrder(Due) : sent = [k \in DOMAIN at |-> Rendered(at[k])]
  BY <1>1, <1>2, AllSent DEF Shows
<1>5. PICK n \in Nat : n = Cardinality(Due) /\ DOMAIN at = 1..n
  <2>1. Cardinality(Due) \in Nat
    BY <1>3, LinesFinite, FS_CardinalityType
  <2>2. DOMAIN at = 1..Cardinality(Due)
    BY DEF InOrder
  <2>3. QED
    BY <2>1, <2>2
<1>6. Len(sent) = n /\ \A k \in 1..n : sent[k] = Rendered(at[k])
  <2>1. DOMAIN sent = 1..n /\ \A k \in 1..n : sent[k] = Rendered(at[k])
    BY <1>4, <1>5
  <2>2. QED
    BY <1>3, <2>1, LenProperties
<1>7. path \in Paths /\ \A s : Rendered(s) \in Shown(s)
  <2>1. path \in Paths
    BY <1>1 DEF TypeOK
  <2>2. QED
    BY <2>1 DEF Rendered, Shown, Paths
<1>8. /\ sent' \in Seq(Seq(Symbols \cup {"truncation"}))
      /\ Len(sent') = n + Len(Markers)
      /\ \A k \in 1..n : sent'[k] = sent[k]
      /\ truncated => sent'[Len(sent')] = Marker
  <2>1. sent \in Seq(Seq(Symbols \cup {"truncation"}))
    BY <1>3, Plain
  <2>2. CASE truncated
    <3>1. PICK T : T = Seq(Symbols \cup {"truncation"})
      OBVIOUS
    <3>2. Marker \in T /\ sent \in Seq(T)
      BY <2>1, <3>1 DEF Marker
    <3>3. Markers = <<Marker>> /\ Len(Markers) = 1
      BY <2>2 DEF Markers
    <3>4. sent' = Append(sent, Marker)
      <4>1. Append(sent, Marker) = sent \o <<Marker>>
        BY ONLY <3>2, AppendIsConcat
      <4>2. QED
        BY <1>2, <3>3, <4>1
    <3>5. /\ Append(sent, Marker) \in Seq(T) /\ Len(Append(sent, Marker)) = Len(sent) + 1
          /\ Append(sent, Marker)[Len(sent) + 1] = Marker
          /\ \A k \in 1..Len(sent) : Append(sent, Marker)[k] = sent[k]
      BY ONLY <3>2, AppendProperties
    <3>6. QED
      BY <1>6, <3>1, <3>3, <3>4, <3>5
  <2>3. CASE ~truncated
    <3>1. Markers = <<>> /\ Len(Markers) = 0
      BY <2>3, EmptySeq DEF Markers
    <3>2. sent' = sent
      BY <1>2, <1>3, <3>1, ConcatEmptySeq
    <3>3. QED
      BY <1>6, <2>1, <2>3, <3>1, <3>2
  <2>4. QED
    BY <2>2, <2>3
<1>9. EveryLineOnce'
  <2>1. Due' = Due /\ Markers' = Markers /\ \A s : Shown(s)' = Shown(s)
    <3>1. Due' = Due
      BY <1>2, SameText
    <3>2. Markers' = Markers /\ \A s : Shown(s)' = Shown(s)
      BY <1>2 DEF Markers, Shown, Content, Terminated
    <3>3. QED
      BY <3>1, <3>2
  <2>2. \A k \in DOMAIN at : sent'[k] \in Shown(at[k])
    BY <1>5, <1>6, <1>7, <1>8
  <2>3. Len(sent') = Cardinality(Due) + Len(Markers)
    BY <1>5, <1>8
  <2>4. truncated' = truncated /\ at \in InOrder(Due')
    BY <1>2, <2>1
  <2>5. QED
    BY <1>8, <2>1, <2>2, <2>3, <2>4 DEF EveryLineOnce
<1>10. TypeOK' /\ Bounded'
  BY <1>1, <1>2, <1>8 DEF TypeOK, Bounded
<1>11. Unread' /\ InLine'
  <2>1. Consumed' = Consumed /\ Start' = Start /\ (Flushed' <=> Flushed)
    BY <1>2 DEF Consumed, Start, Flushed
  <2>2. Newlines' = Newlines
    BY <1>2, SameText
  <2>3. QED
    BY <1>1, <1>2, <2>1, <2>2 DEF Unread, InLine
<1>12. SentRight' /\ Finished'
  BY <1>2 DEF SentRight, Finished, Closed
<1>13. QED
  BY <1>9, <1>10, <1>11, <1>12 DEF IInv

LEMMA NextStreamKeeps == IInv /\ NextStream => IInv'
<1> SUFFICES ASSUME IInv, NextStream
             PROVE  IInv'
  OBVIOUS
<1>1. TypeOK /\ Bounded
  BY DEF IInv
<1>2. /\ path = "captured" /\ stream' = "err_data" /\ text' \in Texts
      /\ truncated' \in BOOLEAN
      /\ pipe' = text' /\ line' = <<>> /\ reader' = "reads" /\ sent' = <<>>
      /\ UNCHANGED <<path, qemuVars, writer, writing>>
  BY DEF NextStream
<1>3. text' \in Seq(Symbols) /\ Len(text') <= MaxText
  BY <1>2, TextsAreSequences
<1>4. Unread' /\ InLine' /\ SentRight' /\ EveryLineOnce' /\ ~Flushed'
  <2>1. New'
    BY <1>2, <1>3 DEF New, Paths
  <2>2. QED
    BY <2>1, NewRightNext
<1>5. TypeOK'
  <2>1. line' \in Seq(Symbols \ {"n"}) /\ sent' \in Seq(Seq(Symbols \cup {"truncation"}))
    BY <1>2, EmptySeq
  <2>2. QED
    BY <1>1, <1>2, <1>3, <2>1 DEF TypeOK
<1>6. Bounded' /\ Finished'
  <2>1. "nothing" \notin Symbols
    BY DEF Symbols
  <2>2. QED
    BY <1>1, <1>2, <1>4, <2>1 DEF Bounded, Finished
<1>7. QED
  BY <1>4, <1>5, <1>6 DEF IInv

LEMMA NextIInv == IInv /\ [Next]_vars => IInv'
<1> SUFFICES ASSUME IInv, [Next]_vars
             PROVE  IInv'
  OBVIOUS
<1>1. TypeOK /\ Unread /\ InLine /\ SentRight /\ Bounded /\ Finished /\ EveryLineOnce
  BY DEF IInv
<1>2. CASE UNCHANGED <<path, text, truncated, pipe, line, reader, sent>> /\ TypeOK' /\ Bounded'
           /\ (qemu = "ended" => qemu' = "ended")
  <2>1. Unread' /\ InLine' /\ SentRight' /\ EveryLineOnce' /\ (Flushed' <=> Flushed)
    BY <1>1, <1>2, NothingMoved
  <2>2. Finished'
    BY <1>1, <1>2, <2>1 DEF Finished, Closed
  <2>3. QED
    BY <1>2, <2>1, <2>2 DEF IInv
<1>3. CASE UNCHANGED vars
  <2>1. TypeOK' /\ Bounded'
    BY <1>1, <1>3 DEF TypeOK, Bounded
  <2>2. QED
    BY <1>2, <1>3, <2>1
<1>4. CASE ReadSymbol
  BY <1>4, ReadSymbolKeeps
<1>5. CASE ReadNewline
  BY <1>5, ReadNewlineKeeps
<1>6. CASE ReadLast
  BY <1>6, ReadLastKeeps
<1>7. CASE ReadEof
  BY <1>7, ReadEofKeeps
<1>8. CASE NextStream
  BY <1>8, NextStreamKeeps
<1>9. CASE BeginWrite
  <2>1. path # "captured" /\ Len(text) < MaxText /\ writing' \in Symbols
    BY <1>1, <1>9 DEF BeginWrite, Bounded
  <2>2. UNCHANGED <<sourceVars, qemuVars, text, writer, pipe, readerVars>>
    BY <1>9 DEF BeginWrite
  <2>3. TypeOK' /\ Bounded'
    BY <1>1, <2>1, <2>2 DEF TypeOK, Bounded
  <2>4. QED
    BY <1>2, <2>2, <2>3
<1>10. CASE EndWrite
  <2>1. PICK w \in Symbols : w = writing
    BY <1>1, <1>10 DEF EndWrite, TypeOK
  <2>2. /\ qemu # "ended" /\ Len(pipe) < PipeSize
        /\ text' = Append(text, w) /\ pipe' = Append(pipe, w) /\ writing' = "nothing"
        /\ UNCHANGED <<sourceVars, qemuVars, writer, readerVars>>
    BY <1>10, <2>1 DEF EndWrite
  <2>3. QED
    BY <2>1, <2>2, EndWriteKeeps
<1>11. CASE WriterEnds
  <2>1. TypeOK' /\ Bounded'
    BY <1>1, <1>11 DEF WriterEnds, TypeOK, Bounded, Symbols
  <2>2. QED
    BY <1>2, <1>11, <2>1 DEF WriterEnds
<1>12. CASE BeginMessage
  <2>1. TypeOK' /\ Bounded'
    BY <1>1, <1>12 DEF BeginMessage, TypeOK, Bounded
  <2>2. QED
    BY <1>2, <1>12, <2>1 DEF BeginMessage
<1>13. CASE EndMessage
  <2>1. stderr' \in 0..StderrSize
    BY <1>1, <1>13, SizesAssumption DEF EndMessage, TypeOK
  <2>2. TypeOK' /\ Bounded'
    BY <1>1, <1>13, <2>1 DEF EndMessage, TypeOK, Bounded
  <2>3. QED
    BY <1>2, <1>13, <2>2 DEF EndMessage
<1>14. CASE Quit
  <2>1. TypeOK' /\ Bounded'
    BY <1>1, <1>14 DEF Quit, TypeOK, Bounded
  <2>2. QED
    BY <1>2, <1>14, <2>1 DEF Quit
<1>15. CASE QemuQuits
  <2>1. TypeOK' /\ Bounded'
    BY <1>1, <1>15 DEF QemuQuits, TypeOK, Bounded, Symbols
  <2>2. QED
    BY <1>2, <1>15, <2>1 DEF QemuQuits
<1>16. CASE QemuKilled
  <2>1. TypeOK' /\ Bounded'
    BY <1>1, <1>16 DEF QemuKilled, TypeOK, Bounded, Symbols
  <2>2. QED
    BY <1>2, <1>16, <2>1 DEF QemuKilled
<1>17. QED
  BY <1>3, <1>4, <1>5, <1>6, <1>7, <1>8, <1>9, <1>10, <1>11, <1>12, <1>13, <1>14, <1>15,
     <1>16
     DEF Next, Read, World, Over

LEMMA Inductive == Spec => []IInv
<1>1. Init => IInv
  BY InitIInv
<1>2. IInv /\ [Next]_vars => IInv'
  BY NextIInv
<1>3. QED
  BY <1>1, <1>2, PTL DEF Spec

-----------------------------------------------------------------------------
(***************************************************************************)
(* The theorems.                                                           *)
(***************************************************************************)
\* The pipe never holds more than it can, nor stderr, and no newline is left
\* inside the line that is being read.
THEOREM TypeCorrect == Spec => []TypeOK
<1>1. IInv => TypeOK
  BY DEF IInv
<1>2. QED
  BY <1>1, Inductive, PTL

\* stream_child_output, stream_command_output and run_in_vm: once all of a stream
\* has been read, the UI was sent every line of it, once and in order, but those of
\* a boot log or a command that are not UTF-8, and then what follows the last
\* newline; and after what the agent truncated the line that says so.
THEOREM EveryLineIsSent == Spec => []EveryLineOnce
<1>1. IInv => EveryLineOnce
  BY DEF IInv
<1>2. QED
  BY <1>1, Inductive, PTL
=============================================================================
