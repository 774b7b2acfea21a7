---------------------------- MODULE Readline_proofs ----------------------------
(***************************************************************************)
(* The line editor for every size of the line, the history and the row,    *)
(* every prompt and every command table: the terminal shows the line that  *)
(* would be executed, the history holds the most recent lines that fit,    *)
(* and the completion alone makes the program leave the line buffer.       *)
(***************************************************************************)
EXTENDS Readline, SequenceTheorems, FunctionTheorems, FiniteSetTheorems,
        WellFoundedInduction, TLAPS

Glyphs == Chars \cup Range(Prompt)
Terms  == [row : [1 .. Width -> Glyphs], col : 0 .. Width - 1, insert : BOOLEAN]

LEMMA Constants ==
    /\ Blank \in Chars /\ Nul \notin Chars /\ Chars \subseteq Glyphs
    /\ LineSize \in Nat /\ LineSize >= 1 /\ HistSize \in Nat /\ LineSize <= HistSize
    /\ Width \in Nat /\ Prompt \in Seq(Glyphs) /\ Len(Prompt) \in Nat
    /\ Len(Prompt) + LineSize <= Width
<1>1. Prompt \in Seq(Range(Prompt)) /\ Range(Prompt) \subseteq Glyphs
      BY ReadlineAssumption DEF Glyphs
<1>2. Prompt \in Seq(Glyphs)
      BY <1>1, SeqMonotonic
<1> QED  BY <1>2, LenProperties, ReadlineAssumption DEF Glyphs

-----------------------------------------------------------------------------
(* Least and greatest numbers, and induction: for sets, as the provers     *)
(* cannot instantiate the library's theorem                                *)

LEMMA Least ==
    ASSUME NEW T \in SUBSET Nat, T # {}
    PROVE  Min(T) \in T /\ \A m \in T : Min(T) <= m
<1> DEFINE R == OpToRel(<, Nat)
<1>1. IsWellFoundedOn(R, Nat)
      BY NatLessThanWellFounded
<1>2. \A x, y \in Nat : <<x, y>> \in R <=> x < y
      BY DEF OpToRel
<1> HIDE DEF R
<1>3. PICK x \in T : \A y \in T : ~ (<<y, x>> \in R)
      BY <1>1, WFMin
<1>4. \A y \in T : ~ (y < x)
      BY <1>2, <1>3
<1>5. \A y \in T : x <= y
      BY <1>4
<1> QED  BY <1>5 DEF Min

LEMMA Greatest ==
    ASSUME NEW T \in SUBSET Nat, T # {}, NEW n \in Nat, \A x \in T : x <= n
    PROVE  Max(T) \in T /\ \A m \in T : m <= Max(T)
<1> DEFINE U == {n - x : x \in T}
<1>1. U \in SUBSET Nat /\ U # {}
  <2>1. \A x \in T : n - x \in Nat
        OBVIOUS
  <2> QED  BY <2>1
<1>2. Min(U) \in U /\ \A m \in U : Min(U) <= m
      BY <1>1, Least
<1>3. PICK x \in T : Min(U) = n - x
      BY <1>2
<1>4. \A y \in T : x >= y
  <2> SUFFICES ASSUME NEW y \in T  PROVE x >= y
      OBVIOUS
  <2>1. n - y \in U
        OBVIOUS
  <2>2. n - x <= n - y
        BY <1>2, <1>3, <2>1
  <2> QED  BY <2>2
<1> QED  BY <1>4 DEF Max

LEMMA MinOfTwo ==
    ASSUME NEW a \in Int, NEW b \in Int
    PROVE  Min({a, b}) = IF a <= b THEN a ELSE b
BY DEF Min

LEMMA MaxOfTwo ==
    ASSUME NEW a \in Int, NEW b \in Int
    PROVE  Max({a, b}) = IF a <= b THEN b ELSE a
BY DEF Max

LEMMA Induction ==
    ASSUME NEW T, 0 \in T, \A n \in Nat : n \in T => n + 1 \in T
    PROVE  \A n \in Nat : n \in T
<1> SUFFICES ASSUME Nat \ T # {}  PROVE FALSE
    OBVIOUS
<1>1. PICK n \in Nat \ T : \A m \in Nat \ T : n <= m
      BY Least
<1>2. n # 0 /\ n - 1 \in Nat
      BY <1>1
<1>3. n - 1 \in T
      BY <1>1, <1>2
<1> QED  BY <1>1, <1>2, <1>3

-----------------------------------------------------------------------------
(* Parts of sequences                                                      *)

LEMMA PartOf ==
    ASSUME NEW S, NEW q \in Seq(S), NEW m \in 1 .. Len(q) + 1, NEW n \in 0 .. Len(q)
    PROVE  /\ SubSeq(q, m, n) \in Seq(S)
           /\ Len(SubSeq(q, m, n)) = IF m <= n THEN n - m + 1 ELSE 0
           /\ \A i \in 1 .. n - m + 1 : SubSeq(q, m, n)[i] = q[m + i - 1]
<1>1. Len(q) \in Nat
      BY LenProperties
<1>2. \A i \in m .. n : q[i] \in S
      BY <1>1, ElementOfSeq
<1> QED  BY <1>1, <1>2, SubSeqProperties

LEMMA PartOfRow ==
    ASSUME NEW S, NEW row \in [1 .. Width -> S],
           NEW m \in 1 .. Width + 1, NEW n \in 0 .. Width
    PROVE  /\ SubSeq(row, m, n) \in Seq(S)
           /\ Len(SubSeq(row, m, n)) = IF m <= n THEN n - m + 1 ELSE 0
           /\ \A i \in 1 .. n - m + 1 : SubSeq(row, m, n)[i] = row[m + i - 1]
<1>1. \A i \in m .. n : row[i] \in S
      BY Constants
<1> QED  BY <1>1, SubSeqProperties, Constants

LEMMA FrontOfRow ==
    ASSUME NEW S, NEW row \in [1 .. Width -> S], NEW n \in 0 .. Width
    PROVE  /\ SubSeq(row, 1, n) \in Seq(S) /\ Len(SubSeq(row, 1, n)) = n
           /\ \A i \in 1 .. n : SubSeq(row, 1, n)[i] = row[i]
<1> DEFINE q == SubSeq(row, 1, n)
<1>1. \A i \in 1 .. n : row[i] \in S
      BY Constants
<1>2. /\ q \in Seq(S) /\ Len(q) = IF 1 <= n THEN n - 1 + 1 ELSE 0
      /\ \A i \in 1 .. n - 1 + 1 : q[i] = row[1 + i - 1]
      BY <1>1, SubSeqProperties
<1> HIDE DEF q
<1>3. n - 1 + 1 = n /\ (~ (1 <= n) => n = 0) /\ \A i \in Int : 1 + i - 1 = i
      OBVIOUS
<1>4. Len(q) = n /\ \A i \in 1 .. n : q[i] = row[i]
      BY <1>2, <1>3
<1> QED  BY <1>2, <1>4 DEF q

LEMMA LinesAre ==
    ASSUME NEW line
    PROVE  line \in Lines <=> line \in Seq(Chars) /\ Len(line) <= LineSize - 1
<1>1. ASSUME line \in Seq(Chars) PROVE Len(line) \in Nat
      BY <1>1, LenProperties
<1>2. LineSize \in Nat
      BY Constants
<1> QED  BY <1>1, <1>2 DEF Lines

\* A line with what is from m + 1 to n cut out.
LEMMA CutOut ==
    ASSUME NEW line \in Lines, NEW m \in 0 .. Len(line), NEW n \in m .. Len(line)
    PROVE  LET new == SubSeq(line, 1, m) \o SubSeq(line, n + 1, Len(line))
           IN  /\ new \in Lines /\ Len(new) = Len(line) - (n - m)
               /\ \A i \in 1 .. Len(new) : new[i] = IF i <= m THEN line[i] ELSE line[i + (n - m)]
<1>1. line \in Seq(Chars) /\ Len(line) \in Nat /\ Len(line) <= LineSize - 1
      BY LinesAre, LenProperties
<1> DEFINE a == SubSeq(line, 1, m)
           b == SubSeq(line, n + 1, Len(line))
<1>2. /\ a \in Seq(Chars) /\ Len(a) = m
      /\ \A i \in 1 .. m : a[i] = line[i]
  <2>1. 1 \in 1 .. Len(line) + 1 /\ m \in 0 .. Len(line)
        BY <1>1
  <2> QED  BY <1>1, <2>1, PartOf
<1>3. /\ b \in Seq(Chars) /\ Len(b) = Len(line) - n
      /\ \A i \in 1 .. Len(line) - n : b[i] = line[n + i]
  <2>1. n + 1 \in 1 .. Len(line) + 1 /\ Len(line) \in 0 .. Len(line)
        BY <1>1
  <2> QED  BY <1>1, <2>1, PartOf
<1> HIDE DEF a, b
<1>4. /\ a \o b \in Seq(Chars) /\ Len(a \o b) = Len(line) - (n - m)
      /\ \A i \in 1 .. Len(a) + Len(b) :
            (a \o b)[i] = IF i <= Len(a) THEN a[i] ELSE b[i - Len(a)]
  <2>1. /\ a \o b \in Seq(Chars) /\ Len(a \o b) = Len(a) + Len(b)
        /\ \A i \in 1 .. Len(a) + Len(b) :
              (a \o b)[i] = IF i <= Len(a) THEN a[i] ELSE b[i - Len(a)]
        BY <1>2, <1>3, ConcatProperties
  <2>2. Len(a) + Len(b) = Len(line) - (n - m)
        BY <1>1, <1>2, <1>3
  <2> QED  BY <2>1, <2>2
<1>5. ASSUME NEW i \in 1 .. Len(a \o b)
      PROVE  (a \o b)[i] = IF i <= m THEN line[i] ELSE line[i + (n - m)]
  <2>1. i \in Nat /\ 1 <= i /\ i <= Len(line) - (n - m) /\ i \in 1 .. Len(a) + Len(b)
        BY <1>1, <1>2, <1>3, <1>4
  <2>2. CASE i <= m
        BY <1>2, <1>4, <2>1, <2>2
  <2>3. CASE ~ (i <= m)
    <3>1. i - m \in 1 .. Len(line) - n /\ n + (i - m) = i + (n - m)
          BY <1>1, <2>1, <2>3
    <3> QED  BY <1>2, <1>3, <1>4, <2>1, <2>3, <3>1
  <2> QED  BY <2>2, <2>3
<1>6. Len(a \o b) <= LineSize - 1
      BY <1>1, <1>4, Constants
<1>7. a \o b \in Lines
      BY <1>4, <1>6, LinesAre
<1> QED  BY <1>4, <1>5, <1>7 DEF a, b

LEMMA Inserted ==
    ASSUME NEW line \in Lines, NEW cur \in 0 .. Len(line), NEW c \in Chars,
           Len(line) < LineSize - 1
    PROVE  LET new == InsertAt(line, cur + 1, c)
           IN  /\ new \in Lines /\ Len(new) = Len(line) + 1
               /\ \A i \in 1 .. Len(new) : new[i] = IF i <= cur THEN line[i]
                                                    ELSE IF i = cur + 1 THEN c ELSE line[i - 1]
<1>1. line \in Seq(Chars) /\ Len(line) \in Nat
      BY LinesAre, LenProperties
<1> DEFINE a == SubSeq(line, 1, cur)
           b == SubSeq(line, cur + 1, Len(line))
<1>2. /\ a \in Seq(Chars) /\ Len(a) = cur
      /\ \A i \in 1 .. cur : a[i] = line[i]
  <2>1. 1 \in 1 .. Len(line) + 1 /\ cur \in 0 .. Len(line)
        BY <1>1
  <2> QED  BY <1>1, <2>1, PartOf
<1>3. /\ b \in Seq(Chars) /\ Len(b) = Len(line) - cur
      /\ \A i \in 1 .. Len(line) - cur : b[i] = line[cur + i]
  <2>1. cur + 1 \in 1 .. Len(line) + 1 /\ Len(line) \in 0 .. Len(line)
        BY <1>1
  <2> QED  BY <1>1, <2>1, PartOf
<1>4. <<c>> \in Seq(Chars) /\ Len(<<c>>) = 1 /\ <<c>>[1] = c
      OBVIOUS
<1>5. InsertAt(line, cur + 1, c) = (a \o <<c>>) \o b
  <2>1. (cur + 1) - 1 = cur
        BY <1>1
  <2>2. SubSeq(line, 1, (cur + 1) - 1) = a
        BY <2>1
  <2> QED  BY <2>2 DEF InsertAt
<1> HIDE DEF a, b
<1>6. /\ a \o <<c>> \in Seq(Chars) /\ Len(a \o <<c>>) = cur + 1
      /\ \A i \in 1 .. cur + 1 : (a \o <<c>>)[i] = IF i <= cur THEN line[i] ELSE c
      BY <1>1, <1>2, <1>4, ConcatProperties
<1>7. /\ (a \o <<c>>) \o b \in Seq(Chars) /\ Len((a \o <<c>>) \o b) = Len(line) + 1
      /\ \A i \in 1 .. Len(line) + 1 :
            ((a \o <<c>>) \o b)[i] = IF i <= cur + 1 THEN (a \o <<c>>)[i] ELSE b[i - (cur + 1)]
      BY <1>1, <1>3, <1>6, ConcatProperties
<1> DEFINE new == (a \o <<c>>) \o b
<1> HIDE DEF new
<1>8. ASSUME NEW i \in 1 .. Len(line) + 1
      PROVE  new[i] = IF i <= cur THEN line[i] ELSE IF i = cur + 1 THEN c ELSE line[i - 1]
  <2>1. CASE i <= cur + 1
        BY <1>1, <1>6, <1>7, <2>1 DEF new
  <2>2. CASE ~ (i <= cur + 1)
    <3>1. i - (cur + 1) \in 1 .. Len(line) - cur /\ cur + (i - (cur + 1)) = i - 1
          BY <1>1, <2>2
    <3>2. new[i] = b[i - (cur + 1)]
          BY <1>7, <2>2 DEF new
    <3>3. b[i - (cur + 1)] = line[i - 1]
          BY <1>3, <3>1
    <3> QED  BY <1>1, <2>2, <3>2, <3>3
  <2> QED  BY <2>1, <2>2
<1>9. Len(new) = Len(line) + 1 /\ Len(new) <= LineSize - 1
      BY <1>1, <1>7, Constants DEF new
<1>10. new \in Lines
       BY <1>7, <1>9, LinesAre DEF new
<1>11. InsertAt(line, cur + 1, c) = new
       BY <1>5 DEF new
<1> QED  BY <1>8, <1>9, <1>10, <1>11

LEMMA EmptyLine == <<>> \in Lines /\ Len(<<>>) = 0
<1>1. <<>> \in Seq(Chars) /\ Len(<<>>) = 0
      BY EmptySeq
<1>2. LineSize \in Nat /\ LineSize >= 1
      BY Constants
<1> QED  BY <1>1, <1>2 DEF Lines

-----------------------------------------------------------------------------
(* The terminal                                                            *)

\* What readline wants the terminal to show.
Shows(t, line, cur) ==
    /\ t \in Terms /\ t.row = Fit(Prompt \o line)
    /\ t.col = Len(Prompt) + cur /\ t.insert = TRUE

\* Place by place.
RowOf(line) ==
    [i \in 1 .. Width |-> IF i <= Len(Prompt) THEN Prompt[i]
                          ELSE IF i <= Len(Prompt) + Len(line) THEN line[i - Len(Prompt)]
                          ELSE Blank]

LEMMA FitLine ==
    ASSUME NEW line \in Lines
    PROVE  /\ Prompt \o line \in Seq(Glyphs)
           /\ Len(Prompt \o line) = Len(Prompt) + Len(line)
           /\ Fit(Prompt \o line) = RowOf(line)
           /\ RowOf(line) \in [1 .. Width -> Glyphs]
           /\ Len(line) \in Nat /\ Len(Prompt) + Len(line) < Width
<1>1. line \in Seq(Chars) /\ Len(line) \in Nat /\ Len(line) <= LineSize - 1
      BY LinesAre, LenProperties
<1>2. line \in Seq(Glyphs) /\ Prompt \in Seq(Glyphs)
      BY <1>1, SeqMonotonic, Constants
<1>3. /\ Prompt \o line \in Seq(Glyphs)
      /\ Len(Prompt \o line) = Len(Prompt) + Len(line)
      /\ \A i \in 1 .. Len(Prompt) + Len(line) : (Prompt \o line)[i] =
            IF i <= Len(Prompt) THEN Prompt[i] ELSE line[i - Len(Prompt)]
      BY <1>2, ConcatProperties
<1>4. Fit(Prompt \o line) = RowOf(line)
  <2>1. \A i \in 1 .. Width : (IF i <= Len(Prompt \o line) THEN (Prompt \o line)[i] ELSE Blank)
            = (IF i <= Len(Prompt) THEN Prompt[i]
               ELSE IF i <= Len(Prompt) + Len(line) THEN line[i - Len(Prompt)] ELSE Blank)
        BY <1>1, <1>3, Constants
  <2> QED  BY <2>1 DEF Fit, RowOf
<1>5. RowOf(line) \in [1 .. Width -> Glyphs]
  <2> SUFFICES ASSUME NEW i \in 1 .. Width
               PROVE  (IF i <= Len(Prompt) THEN Prompt[i]
                       ELSE IF i <= Len(Prompt) + Len(line) THEN line[i - Len(Prompt)]
                       ELSE Blank) \in Glyphs
      BY DEF RowOf
  <2>1. CASE i <= Len(Prompt)
        BY <1>2, <2>1, ElementOfSeq, Constants
  <2>2. CASE ~ (i <= Len(Prompt)) /\ i <= Len(Prompt) + Len(line)
    <3>1. i - Len(Prompt) \in 1 .. Len(line)
          BY <1>1, <2>2, Constants
    <3> QED  BY <1>2, <2>2, <3>1, ElementOfSeq
  <2>3. CASE ~ (i <= Len(Prompt)) /\ ~ (i <= Len(Prompt) + Len(line))
        BY <2>3, Constants
  <2> QED  BY <2>1, <2>2, <2>3
<1>6. Len(Prompt) + Len(line) < Width
      BY <1>1, Constants
<1> QED  BY <1>1, <1>3, <1>4, <1>5, <1>6

\* A row that is put together from a part of another one, a text, and the rest.
LEMMA Spliced ==
    ASSUME NEW row \in [1 .. Width -> Glyphs], NEW col \in 0 .. Width,
           NEW str \in Seq(Glyphs), NEW next \in 1 .. Width + 1
    PROVE  LET new == Fit((SubSeq(row, 1, col) \o str) \o SubSeq(row, next, Width))
           IN  /\ new \in [1 .. Width -> Glyphs]
               /\ \A i \in 1 .. Width :
                     new[i] = IF i <= col THEN row[i]
                              ELSE IF i <= col + Len(str) THEN str[i - col]
                              ELSE IF i - (col + Len(str)) <= Width + 1 - next
                                   THEN row[next + (i - (col + Len(str))) - 1]
                              ELSE Blank
<1> DEFINE a == SubSeq(row, 1, col)
           c == SubSeq(row, next, Width)
           b == (a \o str) \o c
<1>0. Width \in Nat /\ Len(str) \in Nat
      BY Constants, LenProperties
<1>1. a \in Seq(Glyphs) /\ Len(a) = col /\ \A i \in 1 .. col : a[i] = row[i]
      BY FrontOfRow
<1>2. /\ c \in Seq(Glyphs) /\ Len(c) = Width + 1 - next
      /\ \A i \in 1 .. Width + 1 - next : c[i] = row[next + i - 1]
  <2>1. Width \in 0 .. Width
        BY <1>0
  <2>2. /\ SubSeq(row, next, Width) \in Seq(Glyphs)
        /\ Len(SubSeq(row, next, Width)) = IF next <= Width THEN Width - next + 1 ELSE 0
        /\ \A i \in 1 .. Width - next + 1 : SubSeq(row, next, Width)[i] = row[next + i - 1]
        BY <2>1, PartOfRow
  <2> QED  BY <1>0, <2>2
<1> HIDE DEF a, c
<1>3. /\ a \o str \in Seq(Glyphs) /\ Len(a \o str) = col + Len(str)
      /\ \A i \in 1 .. col + Len(str) : (a \o str)[i] = IF i <= col THEN row[i] ELSE str[i - col]
  <2>1. /\ a \o str \in Seq(Glyphs) /\ Len(a \o str) = Len(a) + Len(str)
        /\ \A i \in 1 .. Len(a) + Len(str) :
              (a \o str)[i] = IF i <= Len(a) THEN a[i] ELSE str[i - Len(a)]
        BY <1>1, ConcatProperties
  <2> QED  BY <1>0, <1>1, <2>1
<1> DEFINE x == a \o str
<1> HIDE DEF x
<1>9. b = x \o c
      BY DEF x
<1> HIDE DEF b
<1>4. /\ b \in Seq(Glyphs) /\ Len(b) = col + Len(str) + (Width + 1 - next)
      /\ \A i \in 1 .. col + Len(str) + (Width + 1 - next) :
            b[i] = IF i <= col + Len(str) THEN x[i] ELSE c[i - (col + Len(str))]
  <2>1. x \in Seq(Glyphs) /\ Len(x) = col + Len(str)
        BY <1>3 DEF x
  <2>2. /\ b \in Seq(Glyphs) /\ Len(b) = Len(x) + Len(c)
        /\ \A i \in 1 .. Len(x) + Len(c) :
              b[i] = IF i <= Len(x) THEN x[i] ELSE c[i - Len(x)]
        BY <1>2, <1>9, <2>1, ConcatProperties
  <2> QED  BY <1>2, <2>1, <2>2
<1> DEFINE new == Fit(b)
<1>5. ASSUME NEW i \in 1 .. Width
      PROVE  /\ i <= col => new[i] = row[i]
             /\ ~ (i <= col) /\ i <= col + Len(str) => new[i] = str[i - col]
             /\ ~ (i <= col + Len(str)) /\ i - (col + Len(str)) <= Width + 1 - next
                   => new[i] = row[next + (i - (col + Len(str))) - 1]
             /\ ~ (i <= col + Len(str)) /\ ~ (i - (col + Len(str)) <= Width + 1 - next)
                   => new[i] = Blank
  <2>1. new[i] = IF i <= Len(b) THEN b[i] ELSE Blank
        BY DEF Fit
  <2>2. CASE i <= col + Len(str)
    <3>1. i \in 1 .. col + Len(str) /\ i \in 1 .. col + Len(str) + (Width + 1 - next)
          BY <1>0, <2>2
    <3>2. i <= Len(b) /\ b[i] = x[i]
          BY <1>0, <1>4, <2>2, <3>1
    <3>3. new[i] = x[i]
          BY <2>1, <3>2
    <3> QED  BY <1>0, <1>3, <2>2, <3>1, <3>3 DEF x
  <2>3. CASE ~ (i <= col + Len(str)) /\ i - (col + Len(str)) <= Width + 1 - next
    <3>1. /\ i - (col + Len(str)) \in 1 .. Width + 1 - next
          /\ i \in 1 .. col + Len(str) + (Width + 1 - next)
          BY <1>0, <2>3
    <3>2. new[i] = c[i - (col + Len(str))]
          BY <1>4, <2>1, <2>3, <3>1
    <3> QED  BY <1>0, <1>2, <2>3, <3>1, <3>2
  <2>4. CASE ~ (i <= col + Len(str)) /\ ~ (i - (col + Len(str)) <= Width + 1 - next)
    <3>1. ~ (i <= col + Len(str) + (Width + 1 - next)) /\ ~ (i <= col)
          BY <1>0, <2>4
    <3> QED  BY <1>4, <2>1, <2>4, <3>1
  <2> QED  BY <2>2, <2>3, <2>4
<1>6. new \in [1 .. Width -> Glyphs]
  <2> SUFFICES ASSUME NEW i \in 1 .. Width
               PROVE  (IF i <= Len(b) THEN b[i] ELSE Blank) \in Glyphs
      BY DEF Fit
  <2>1. Len(b) \in Nat
        BY <1>4, LenProperties
  <2>2. CASE i <= Len(b)
        BY <1>4, <2>1, <2>2, ElementOfSeq
  <2>3. CASE ~ (i <= Len(b))
        BY <2>3, Constants
  <2> QED  BY <2>2, <2>3
<1>7. new = Fit((SubSeq(row, 1, col) \o str) \o SubSeq(row, next, Width))
      BY <1>9 DEF a, c, x
<1> HIDE DEF new
<1>8. ASSUME NEW i \in 1 .. Width
      PROVE  new[i] = IF i <= col THEN row[i]
                      ELSE IF i <= col + Len(str) THEN str[i - col]
                      ELSE IF i - (col + Len(str)) <= Width + 1 - next
                           THEN row[next + (i - (col + Len(str))) - 1]
                      ELSE Blank
  <2>1. i <= col => i <= col + Len(str)
        BY <1>0
  <2> QED  BY <1>5, <2>1
<1> QED  BY <1>6, <1>7, <1>8

LEMMA LeftShows ==
    ASSUME NEW t, NEW line \in Lines, NEW cur \in 0 .. Len(line), Shows(t, line, cur),
           NEW n \in 1 .. cur
    PROVE  Shows(Left(t, n), line, cur - n)
<1>1. /\ Len(Prompt) \in Nat /\ Width \in Nat /\ Len(line) \in Nat
      /\ Len(Prompt) + Len(line) < Width
      BY FitLine, Constants
<1>2. Param(n) = n
      BY DEF Param
<1>3. Max({0, t.col - n}) = Len(Prompt) + (cur - n)
  <2>1. t.col - n = Len(Prompt) + (cur - n) /\ t.col - n \in Int /\ 0 <= t.col - n
        BY <1>1 DEF Shows
  <2>2. Max({0, t.col - n}) = IF 0 <= t.col - n THEN t.col - n ELSE 0
        BY <2>1, MaxOfTwo
  <2> QED  BY <2>1, <2>2
<1>4. Left(t, n) = [t EXCEPT !.col = Len(Prompt) + (cur - n)]
      BY <1>2, <1>3 DEF Left
<1>5. Len(Prompt) + (cur - n) \in 0 .. Width - 1
      BY <1>1
<1> QED  BY <1>4, <1>5 DEF Shows, Terms

LEMMA RightShows ==
    ASSUME NEW t, NEW line \in Lines, NEW cur \in 0 .. Len(line), Shows(t, line, cur),
           NEW n \in 1 .. Len(line) - cur
    PROVE  Shows(Right(t, n), line, cur + n)
<1>1. /\ Len(Prompt) \in Nat /\ Width \in Nat /\ Len(line) \in Nat
      /\ Len(Prompt) + Len(line) < Width
      BY FitLine, Constants
<1>2. Param(n) = n
      BY DEF Param
<1>3. Min({Width - 1, t.col + n}) = Len(Prompt) + (cur + n)
  <2>1. /\ t.col + n = Len(Prompt) + (cur + n) /\ t.col + n \in Int
        /\ Width - 1 \in Int /\ t.col + n <= Width - 1
        BY <1>1 DEF Shows
  <2>2. Min({Width - 1, t.col + n}) = IF Width - 1 <= t.col + n THEN Width - 1 ELSE t.col + n
        BY <2>1, MinOfTwo
  <2> QED  BY <2>1, <2>2
<1>4. Right(t, n) = [t EXCEPT !.col = Len(Prompt) + (cur + n)]
      BY <1>2, <1>3 DEF Right
<1>5. Len(Prompt) + (cur + n) \in 0 .. Width - 1
      BY <1>1
<1> QED  BY <1>4, <1>5 DEF Shows, Terms

LEMMA EraseShows ==
    ASSUME NEW t, NEW line \in Lines, NEW cur \in 0 .. Len(line), Shows(t, line, cur)
    PROVE  /\ SubSeq(line, 1, cur) \in Lines /\ Len(SubSeq(line, 1, cur)) = cur
           /\ Shows(EraseEol(t), SubSeq(line, 1, cur), cur)
<1> DEFINE new == SubSeq(line, 1, cur)
           row == t.row
           col == Len(Prompt) + cur
<1>1. /\ Len(Prompt) \in Nat /\ Width \in Nat /\ Len(line) \in Nat
      /\ Len(Prompt) + Len(line) < Width
      BY FitLine, Constants
<1>2. /\ row = RowOf(line) /\ row \in [1 .. Width -> Glyphs] /\ t.col = col
      /\ col = Len(Prompt) + cur /\ col \in 0 .. Width - 1 /\ col \in 0 .. Width
      BY <1>1, FitLine DEF Shows
<1>3. new \in Lines /\ Len(new) = cur /\ \A i \in 1 .. cur : new[i] = line[i]
  <2>1. line \in Seq(Chars) /\ Len(line) <= LineSize - 1
        BY LinesAre
  <2>2. 1 \in 1 .. Len(line) + 1 /\ cur \in 0 .. Len(line)
        BY <1>1
  <2>3. /\ new \in Seq(Chars) /\ Len(new) = IF 1 <= cur THEN cur - 1 + 1 ELSE 0
        /\ \A i \in 1 .. cur - 1 + 1 : new[i] = line[1 + i - 1]
        BY <2>1, <2>2, PartOf
  <2>4. Len(new) = cur /\ Len(new) <= LineSize - 1
        BY <1>1, <2>1, <2>3, Constants
  <2>5. new \in Lines
        BY <2>3, <2>4, LinesAre
  <2> QED  BY <2>3, <2>4, <2>5
<1> HIDE DEF new, row, col
<1>8. row \in [1 .. Width -> Glyphs] /\ col \in 0 .. Width
      BY <1>2
<1>4. /\ SubSeq(row, 1, col) \in Seq(Glyphs) /\ Len(SubSeq(row, 1, col)) = col
      /\ \A i \in 1 .. col : SubSeq(row, 1, col)[i] = row[i]
      BY <1>8, FrontOfRow
<1>5. Fit(SubSeq(row, 1, col)) = RowOf(new)
  <2>1. ASSUME NEW i \in 1 .. Width
        PROVE  (IF i <= Len(SubSeq(row, 1, col)) THEN SubSeq(row, 1, col)[i] ELSE Blank)
                = (IF i <= Len(Prompt) THEN Prompt[i]
                   ELSE IF i <= Len(Prompt) + Len(new) THEN new[i - Len(Prompt)] ELSE Blank)
    <3>1. row[i] = IF i <= Len(Prompt) THEN Prompt[i]
                   ELSE IF i <= Len(Prompt) + Len(line) THEN line[i - Len(Prompt)] ELSE Blank
          BY <1>2 DEF RowOf
    <3>2. CASE i <= Len(Prompt)
          BY <1>1, <1>2, <1>4, <3>1, <3>2
    <3>3. CASE ~ (i <= Len(Prompt)) /\ i <= col
      <4>1. i - Len(Prompt) \in 1 .. cur /\ i \in 1 .. col /\ i <= Len(Prompt) + Len(line)
            BY <1>1, <1>2, <3>3
      <4> QED  BY <1>3, <1>4, <3>1, <3>3, <4>1
    <3>4. CASE ~ (i <= col)
      <4>1. ~ (i <= Len(Prompt))
            BY <1>1, <1>2, <3>4
      <4>2. ~ (i <= Len(Prompt) + Len(new))
            BY <1>2, <1>3, <3>4
      <4> QED  BY <1>4, <3>4, <4>1, <4>2
    <3> QED  BY <1>1, <1>2, <3>2, <3>3, <3>4
  <2> QED  BY <2>1 DEF Fit, RowOf
<1>6. EraseEol(t) = [t EXCEPT !.row = RowOf(new)]
      BY <1>2, <1>5 DEF EraseEol, Before, row
<1>7. /\ RowOf(new) = Fit(Prompt \o new) /\ RowOf(new) \in [1 .. Width -> Glyphs]
      BY <1>3, FitLine
<1> QED  BY <1>2, <1>3, <1>6, <1>7 DEF Shows, Terms, new

LEMMA DelShows ==
    ASSUME NEW t, NEW line \in Lines, NEW cur \in 0 .. Len(line), Shows(t, line, cur),
           NEW n \in 1 .. Len(line) - cur
    PROVE  Shows(Del(t, n), SubSeq(line, 1, cur) \o SubSeq(line, cur + n + 1, Len(line)), cur)
<1> DEFINE new == SubSeq(line, 1, cur) \o SubSeq(line, cur + n + 1, Len(line))
           row == t.row
           col == Len(Prompt) + cur
           cut == Fit(SubSeq(row, 1, col) \o SubSeq(row, col + n + 1, Width))
<1>1. /\ Len(Prompt) \in Nat /\ Width \in Nat /\ Len(line) \in Nat
      /\ Len(Prompt) + Len(line) < Width
      BY FitLine, Constants
<1>2. /\ row = RowOf(line) /\ row \in [1 .. Width -> Glyphs] /\ t.col = col
      /\ col = Len(Prompt) + cur /\ col \in 0 .. Width - 1 /\ col \in 0 .. Width
      BY <1>1, FitLine DEF Shows
<1>3. /\ new \in Lines /\ Len(new) = Len(line) - n
      /\ \A i \in 1 .. Len(line) - n : new[i] = IF i <= cur THEN line[i] ELSE line[i + n]
  <2>1. cur + n \in cur .. Len(line) /\ (cur + n) - cur = n
        BY <1>1
  <2>2. /\ new \in Lines /\ Len(new) = Len(line) - ((cur + n) - cur)
        /\ \A i \in 1 .. Len(new) :
              new[i] = IF i <= cur THEN line[i] ELSE line[i + ((cur + n) - cur)]
        BY <2>1, CutOut
  <2> QED  BY <2>1, <2>2
<1> HIDE DEF new, row, col
<1>8. row \in [1 .. Width -> Glyphs] /\ col \in 0 .. Width
      BY <1>2
<1>4. ASSUME NEW i \in 1 .. Width
      PROVE  cut[i] = IF i <= col THEN row[i]
                      ELSE IF i + n <= Width THEN row[i + n] ELSE Blank
  <2>1. col + n + 1 \in 1 .. Width + 1
        BY <1>1, <1>2
  <2>2. <<>> \in Seq(Glyphs) /\ Len(<<>>) = 0
        BY EmptySeq
  <2>3. SubSeq(row, 1, col) \o <<>> = SubSeq(row, 1, col)
    <3>1. SubSeq(row, 1, col) \in Seq(Glyphs)
      <4>1. 1 \in 1 .. Width + 1
            BY <1>1
      <4> QED  BY <1>2, <2>1, <4>1, PartOfRow
    <3> QED  BY <3>1, ConcatEmptySeq
  <2>6. cut = Fit((SubSeq(row, 1, col) \o <<>>) \o SubSeq(row, col + n + 1, Width))
        BY <2>3
  <2>4. cut[i] = IF i <= col THEN row[i]
                 ELSE IF i <= col + Len(<<>>) THEN <<>>[i - col]
                 ELSE IF i - (col + Len(<<>>)) <= Width + 1 - (col + n + 1)
                      THEN row[col + n + 1 + (i - (col + Len(<<>>))) - 1]
                 ELSE Blank
    <3> DEFINE next == col + n + 1
               str  == <<>>
    <3>1. /\ next \in 1 .. Width + 1 /\ str \in Seq(Glyphs)
          /\ cut = Fit((SubSeq(row, 1, col) \o str) \o SubSeq(row, next, Width))
          BY <2>1, <2>2, <2>6
    <3> HIDE DEF cut, next, str
    <3>2. cut[i] = IF i <= col THEN row[i]
                   ELSE IF i <= col + Len(str) THEN str[i - col]
                   ELSE IF i - (col + Len(str)) <= Width + 1 - next
                        THEN row[next + (i - (col + Len(str))) - 1]
                   ELSE Blank
          BY <1>8, <3>1, Spliced
    <3> QED  BY <3>2 DEF next, str
  <2> HIDE DEF cut
  <2>5. /\ col + Len(<<>>) = col
        /\ (i - (col + Len(<<>>)) <= Width + 1 - (col + n + 1)) <=> i + n <= Width
        /\ col + n + 1 + (i - (col + Len(<<>>))) - 1 = i + n
        BY <1>1, <1>2, <2>2
  <2> QED  BY <2>4, <2>5
<1>5. cut = RowOf(new)
  <2>1. ASSUME NEW i \in 1 .. Width  PROVE cut[i] = RowOf(new)[i]
    <3> HIDE DEF cut
    <3>1. \A j \in 1 .. Width : row[j] =
             IF j <= Len(Prompt) THEN Prompt[j]
             ELSE IF j <= Len(Prompt) + Len(line) THEN line[j - Len(Prompt)] ELSE Blank
          BY <1>2 DEF RowOf
    <3>2. RowOf(new)[i] = IF i <= Len(Prompt) THEN Prompt[i]
                          ELSE IF i <= Len(Prompt) + Len(new) THEN new[i - Len(Prompt)] ELSE Blank
          BY DEF RowOf
    <3>3. CASE i <= Len(Prompt)
          BY <1>1, <1>2, <1>4, <3>1, <3>2, <3>3
    <3>4. CASE ~ (i <= Len(Prompt)) /\ i <= col
      <4>1. /\ i - Len(Prompt) \in 1 .. Len(line) - n /\ i - Len(Prompt) <= cur
            /\ i <= Len(Prompt) + Len(line) /\ i <= Len(Prompt) + Len(new)
            BY <1>1, <1>2, <1>3, <3>4
      <4> QED  BY <1>3, <1>4, <3>1, <3>2, <3>4, <4>1
    <3>5. CASE ~ (i <= col) /\ i <= Len(Prompt) + (Len(line) - n)
      <4>1. /\ i - Len(Prompt) \in 1 .. Len(line) - n /\ ~ (i - Len(Prompt) <= cur)
            /\ i + n \in 1 .. Width /\ i + n <= Len(Prompt) + Len(line) /\ i + n <= Width
            /\ ~ (i <= Len(Prompt)) /\ ~ (i + n <= Len(Prompt)) /\ i <= Len(Prompt) + Len(new)
            /\ i + n - Len(Prompt) = i - Len(Prompt) + n
            BY <1>1, <1>2, <1>3, <3>5
      <4>2. cut[i] = line[i - Len(Prompt) + n]
        <5>1. cut[i] = row[i + n]
              BY <1>4, <3>5, <4>1
        <5>2. row[i + n] = line[(i + n) - Len(Prompt)]
              BY <3>1, <4>1
        <5> QED  BY <4>1, <5>1, <5>2
      <4>3. RowOf(new)[i] = line[i - Len(Prompt) + n]
            BY <1>3, <3>2, <4>1
      <4> QED  BY <4>2, <4>3
    <3>6. CASE ~ (i <= col) /\ ~ (i <= Len(Prompt) + (Len(line) - n))
      <4>1. /\ ~ (i <= Len(Prompt)) /\ ~ (i + n <= Len(Prompt))
            /\ ~ (i + n <= Len(Prompt) + Len(line)) /\ ~ (i <= Len(Prompt) + Len(new))
            /\ i + n <= Width => i + n \in 1 .. Width
            BY <1>1, <1>2, <1>3, <3>6
      <4>2. cut[i] = Blank
            BY <1>4, <3>1, <3>6, <4>1
      <4> QED  BY <3>2, <4>1, <4>2
    <3> QED  BY <1>1, <1>2, <3>3, <3>4, <3>5, <3>6
  <2> QED  BY <2>1 DEF Fit, RowOf
<1>6. Del(t, n) = [t EXCEPT !.row = RowOf(new)]
      BY <1>2, <1>5 DEF Del, Before, Param, row
<1>7. /\ RowOf(new) = Fit(Prompt \o new) /\ RowOf(new) \in [1 .. Width -> Glyphs]
      BY <1>3, FitLine
<1> QED  BY <1>2, <1>3, <1>6, <1>7 DEF Shows, Terms, new

LEMMA PutShows ==
    ASSUME NEW t, NEW line \in Lines, NEW cur \in 0 .. Len(line), Shows(t, line, cur),
           NEW c \in Chars, Len(line) < LineSize - 1
    PROVE  Shows(Put(t, <<c>>), InsertAt(line, cur + 1, c), cur + 1)
<1> DEFINE new == InsertAt(line, cur + 1, c)
           row == t.row
           col == Len(Prompt) + cur
           put == Fit((SubSeq(row, 1, col) \o <<c>>) \o SubSeq(row, col + 1, Width))
<1>1. /\ Len(Prompt) \in Nat /\ Width \in Nat /\ Len(line) \in Nat
      /\ Len(Prompt) + Len(line) < Width
      BY FitLine, Constants
<1>2. /\ row = RowOf(line) /\ row \in [1 .. Width -> Glyphs] /\ t.col = col
      /\ col = Len(Prompt) + cur /\ col \in 0 .. Width - 1 /\ t.insert = TRUE
      BY <1>1, FitLine DEF Shows
<1>3. /\ new \in Lines /\ Len(new) = Len(line) + 1
      /\ \A i \in 1 .. Len(line) + 1 :
            new[i] = IF i <= cur THEN line[i] ELSE IF i = cur + 1 THEN c ELSE line[i - 1]
      BY Inserted
<1>4. Len(Prompt) + Len(new) < Width
      BY <1>3, FitLine
<1> HIDE DEF new, row, col
<1>5. /\ row \in [1 .. Width -> Glyphs] /\ col \in 0 .. Width
      /\ <<c>> \in Seq(Glyphs) /\ Len(<<c>>) = 1 /\ col + 1 \in 1 .. Width + 1
  <2>1. c \in Glyphs
        BY Constants
  <2> QED  BY <1>1, <1>2, <2>1
<1>6. \A i \in 1 .. Width :
         put[i] = IF i <= col THEN row[i]
                  ELSE IF i <= col + Len(<<c>>) THEN <<c>>[i - col]
                  ELSE IF i - (col + Len(<<c>>)) <= Width + 1 - (col + 1)
                       THEN row[col + 1 + (i - (col + Len(<<c>>))) - 1]
                  ELSE Blank
      BY <1>5, Spliced
<1>7. ASSUME NEW i \in 1 .. Width
      PROVE  put[i] = IF i <= col THEN row[i] ELSE IF i = col + 1 THEN c ELSE row[i - 1]
  <2> HIDE DEF put
  <2>1. /\ i <= col + Len(<<c>>) <=> i <= col \/ i = col + 1
        /\ i - (col + Len(<<c>>)) <= Width + 1 - (col + 1)
        /\ col + 1 + (i - (col + Len(<<c>>))) - 1 = i - 1
        BY <1>1, <1>2, <1>5
  <2>2. i = col + 1 => <<c>>[i - col] = c /\ ~ (i <= col)
    <3>1. i = col + 1 => i - col = 1
          BY <1>2
    <3> QED  BY <1>2, <3>1
  <2> QED  BY <1>6, <2>1, <2>2
<1>8. put = RowOf(new)
  <2>1. ASSUME NEW i \in 1 .. Width  PROVE put[i] = RowOf(new)[i]
    <3> HIDE DEF put
    <3>1. \A j \in 1 .. Width : row[j] =
             IF j <= Len(Prompt) THEN Prompt[j]
             ELSE IF j <= Len(Prompt) + Len(line) THEN line[j - Len(Prompt)] ELSE Blank
          BY <1>2 DEF RowOf
    <3>2. RowOf(new)[i] = IF i <= Len(Prompt) THEN Prompt[i]
                          ELSE IF i <= Len(Prompt) + Len(new) THEN new[i - Len(Prompt)] ELSE Blank
          BY DEF RowOf
    <3>3. CASE i <= Len(Prompt)
          BY <1>1, <1>2, <1>7, <3>1, <3>2, <3>3
    <3>4. CASE ~ (i <= Len(Prompt)) /\ i <= col
      <4>1. /\ i - Len(Prompt) \in 1 .. Len(line) + 1 /\ i - Len(Prompt) <= cur
            /\ i <= Len(Prompt) + Len(line) /\ i <= Len(Prompt) + Len(new)
            BY <1>1, <1>2, <1>3, <3>4
      <4> QED  BY <1>3, <1>7, <3>1, <3>2, <3>4, <4>1
    <3>5. CASE i = col + 1
      <4>1. /\ i - Len(Prompt) \in 1 .. Len(line) + 1 /\ i - Len(Prompt) = cur + 1
            /\ ~ (i - Len(Prompt) <= cur) /\ ~ (i <= Len(Prompt)) /\ ~ (i <= col)
            /\ i <= Len(Prompt) + Len(new)
            BY <1>1, <1>2, <1>3, <3>5
      <4>2. put[i] = c
            BY <1>7, <3>5, <4>1
      <4>3. new[i - Len(Prompt)] = c
            BY <1>3, <4>1
      <4> QED  BY <3>2, <4>1, <4>2, <4>3
    <3>6. CASE ~ (i <= col + 1) /\ i <= Len(Prompt) + (Len(line) + 1)
      <4>1. /\ i - Len(Prompt) \in 1 .. Len(line) + 1 /\ ~ (i - Len(Prompt) <= cur)
            /\ i - Len(Prompt) # cur + 1 /\ i # col + 1 /\ ~ (i <= col)
            /\ i - 1 \in 1 .. Width /\ i - 1 <= Len(Prompt) + Len(line)
            /\ ~ (i <= Len(Prompt)) /\ ~ (i - 1 <= Len(Prompt)) /\ i <= Len(Prompt) + Len(new)
            /\ (i - 1) - Len(Prompt) = (i - Len(Prompt)) - 1
            BY <1>1, <1>2, <1>3, <3>6
      <4>2. put[i] = line[(i - Len(Prompt)) - 1]
        <5>1. put[i] = row[i - 1]
              BY <1>7, <4>1
        <5>2. row[i - 1] = line[(i - 1) - Len(Prompt)]
              BY <3>1, <4>1
        <5> QED  BY <4>1, <5>1, <5>2
      <4>3. RowOf(new)[i] = line[(i - Len(Prompt)) - 1]
            BY <1>3, <3>2, <4>1
      <4> QED  BY <4>2, <4>3
    <3>7. CASE ~ (i <= col + 1) /\ ~ (i <= Len(Prompt) + (Len(line) + 1))
      <4>1. /\ ~ (i <= Len(Prompt)) /\ ~ (i - 1 <= Len(Prompt)) /\ i # col + 1 /\ ~ (i <= col)
            /\ ~ (i - 1 <= Len(Prompt) + Len(line)) /\ ~ (i <= Len(Prompt) + Len(new))
            /\ i - 1 \in 1 .. Width
            BY <1>1, <1>2, <1>3, <3>7
      <4>2. put[i] = Blank
            BY <1>7, <3>1, <4>1
      <4> QED  BY <3>2, <4>1, <4>2
    <3>8. i <= col + 1 => i <= col \/ i = col + 1
          BY <1>2
    <3> QED  BY <3>3, <3>4, <3>5, <3>6, <3>7, <3>8
  <2> QED  BY <2>1 DEF Fit, RowOf
<1> HIDE DEF put
<1>9. Min({Width - 1, col + 1}) = col + 1 /\ col + 1 \in 0 .. Width - 1
  <2>1. Width - 1 \in Int /\ col + 1 \in Int /\ col + 1 <= Width - 1 /\ 0 <= col + 1
        BY <1>1, <1>2, <1>3, <1>4
  <2>2. Min({Width - 1, col + 1}) = IF Width - 1 <= col + 1 THEN Width - 1 ELSE col + 1
        BY <2>1, MinOfTwo
  <2> QED  BY <2>1, <2>2
<1>10. Put(t, <<c>>) = [t EXCEPT !.row = RowOf(new), !.col = col + 1]
       BY <1>2, <1>5, <1>8, <1>9 DEF Put, Before, row, put
<1>11. /\ RowOf(new) = Fit(Prompt \o new) /\ RowOf(new) \in [1 .. Width -> Glyphs]
       /\ col + 1 = Len(Prompt) + (cur + 1)
       BY <1>1, <1>2, <1>3, FitLine
<1> QED  BY <1>3, <1>9, <1>10, <1>11 DEF Shows, Terms, new

LEMMA TermIs ==
    ASSUME NEW r, NEW p, NEW b, NEW t \in [row : {r}, col : {p}, insert : {b}]
    PROVE  t = [row |-> r, col |-> p, insert |-> b]
OBVIOUS

\* A reprint makes the terminal show the line whatever it has shown before.
LEMMA ReprintShows ==
    ASSUME NEW r, NEW p, NEW line \in Lines, NEW cur \in 0 .. Len(line)
    PROVE  Shows(Reprint([row |-> r, col |-> p, insert |-> TRUE], line, cur), line, cur)
<1> DEFINE t == [row |-> r, col |-> p, insert |-> TRUE]
           e == [row |-> Fit(<<>>), col |-> 0, insert |-> TRUE]
           str == Prompt \o line
           put == Fit((SubSeq(e.row, 1, 0) \o str) \o SubSeq(e.row, 1, Width))
           shown == Put(e, str)
<1>1. /\ Len(Prompt) \in Nat /\ Width \in Nat /\ Len(line) \in Nat
      /\ Len(Prompt) + Len(line) < Width /\ str \in Seq(Glyphs)
      /\ Len(str) = Len(Prompt) + Len(line) /\ Fit(str) = RowOf(line)
      /\ RowOf(line) \in [1 .. Width -> Glyphs]
      BY FitLine, Constants
<1>2. EraseEol([t EXCEPT !.col = 0]) = e
  <2> DEFINE u == [row |-> r, col |-> 0, insert |-> TRUE]
  <2>1. Before(u) = <<>>
    <3>1. SubSeq(r, 1, 0) = <<>>
          BY SubSeqEmpty
    <3> QED  BY <3>1 DEF Before
  <2>2. [t EXCEPT !.col = 0] = u
    <3>1. t \in [row : {r}, col : {p}, insert : {TRUE}]
          OBVIOUS
    <3>2. [t EXCEPT !.col = 0] \in [row : {r}, col : {0}, insert : {TRUE}]
          BY <3>1
    <3> QED  BY <3>2, TermIs
  <2>3. EraseEol(u) = [u EXCEPT !.row = Fit(<<>>)]
        BY <2>1 DEF EraseEol
  <2>4. [u EXCEPT !.row = Fit(<<>>)] = e
    <3>1. u \in [row : {r}, col : {0}, insert : {TRUE}]
          OBVIOUS
    <3>2. [u EXCEPT !.row = Fit(<<>>)] \in [row : {Fit(<<>>)}, col : {0}, insert : {TRUE}]
          BY <3>1
    <3> QED  BY <3>2, TermIs
  <2> QED  BY <2>2, <2>3, <2>4
<1>3. /\ e.row \in [1 .. Width -> Glyphs] /\ \A i \in 1 .. Width : e.row[i] = Blank
      /\ 0 \in 0 .. Width /\ 1 \in 1 .. Width + 1
  <2>1. Len(<<>>) = 0 /\ Blank \in Glyphs
        BY Constants, EmptySeq
  <2>2. \A i \in 1 .. Width : ~ (i <= Len(<<>>))
        BY <2>1
  <2>3. Fit(<<>>) = [i \in 1 .. Width |-> Blank]
        BY <2>2 DEF Fit
  <2> QED  BY <1>1, <2>1, <2>3
<1> HIDE DEF str
<1>4. put = Fit(str)
  <2>1. \A i \in 1 .. Width :
           put[i] = IF i <= 0 THEN e.row[i]
                    ELSE IF i <= 0 + Len(str) THEN str[i - 0]
                    ELSE IF i - (0 + Len(str)) <= Width + 1 - 1
                         THEN e.row[1 + (i - (0 + Len(str))) - 1]
                    ELSE Blank
    <3> HIDE DEF e
    <3> QED  BY <1>1, <1>3, Spliced
  <2>2. ASSUME NEW i \in 1 .. Width
        PROVE  put[i] = IF i <= Len(str) THEN str[i] ELSE Blank
    <3> HIDE DEF put, e
    <3>1. CASE i <= Len(str)
          BY <1>1, <2>1, <3>1
    <3>2. CASE ~ (i <= Len(str))
      <4>1. 1 + (i - (0 + Len(str))) - 1 \in 1 .. Width /\ ~ (i <= 0) /\ ~ (i <= 0 + Len(str))
            BY <1>1, <3>2
      <4>2. put[i] = Blank
            BY <1>3, <2>1, <4>1
      <4> QED  BY <3>2, <4>2
    <3> QED  BY <3>1, <3>2
  <2> QED  BY <2>2 DEF Fit
<1>5. Min({Width - 1, 0 + Len(str)}) = Len(str) /\ Len(str) \in 0 .. Width - 1
  <2>1. /\ Width - 1 \in Int /\ 0 + Len(str) = Len(str) /\ Len(str) \in Int
        /\ Len(str) <= Width - 1 /\ 0 <= Len(str)
        BY <1>1
  <2>2. Min({Width - 1, Len(str)}) = IF Width - 1 <= Len(str) THEN Width - 1 ELSE Len(str)
        BY <2>1, MinOfTwo
  <2> QED  BY <2>1, <2>2
<1>6. shown = [row |-> RowOf(line), col |-> Len(str), insert |-> TRUE]
  <2>1. shown = [e EXCEPT !.row = Fit((SubSeq(e.row, 1, e.col) \o str)
                                        \o SubSeq(e.row, e.col + 1, Width)),
                         !.col = Min({Width - 1, e.col + Len(str)})]
        BY DEF Put, Before
  <2>2. e.col = 0 /\ e.col + 1 = 1
        OBVIOUS
  <2>3. shown = [e EXCEPT !.row = put, !.col = Len(str)]
        BY <1>5, <2>1, <2>2
  <2> HIDE DEF put, shown
  <2> QED  BY <1>1, <1>4, <2>3
<1>7. Shows(shown, line, Len(line))
  <2>1. /\ Fit(Prompt \o line) = RowOf(line) /\ Len(str) = Len(Prompt) + Len(line)
        /\ RowOf(line) \in [1 .. Width -> Glyphs]
        BY <1>1, FitLine
  <2> HIDE DEF shown
  <2> QED  BY <1>5, <1>6, <2>1 DEF Shows, Terms
<1>8. CASE cur < Len(line)
  <2>1. /\ Len(line) - cur \in 1 .. Len(line) /\ Len(line) \in 0 .. Len(line)
        /\ Len(line) - (Len(line) - cur) = cur
        BY <1>1, <1>8
  <2>2. Shows(Left(shown, Len(line) - cur), line, cur)
    <3> HIDE DEF shown
    <3> QED  BY <1>7, <2>1, LeftShows
  <2> QED  BY <1>2, <1>8, <2>2 DEF Reprint, str
<1>9. CASE ~ (cur < Len(line))
  <2>1. cur = Len(line)
        BY <1>1, <1>9
  <2> QED  BY <1>2, <1>7, <1>9, <2>1 DEF Reprint, str
<1> QED  BY <1>8, <1>9

-----------------------------------------------------------------------------
(* Lines in a buffer: pos[k] is where line k ends                          *)

Text == Chars \cup {Nul}

Adds(pos, ls) ==
    /\ pos \in [0 .. Len(ls) -> Nat] /\ pos[0] = 0
    /\ \A k \in 1 .. Len(ls) : pos[k] = pos[k - 1] + Len(ls[k]) + 1

Holds(buf, ls, pos) ==
    /\ buf \in Seq(Text) /\ ls \in Seq(Seq(Chars))
    /\ Adds(pos, ls) /\ pos[Len(ls)] = Len(buf)
    /\ \A k \in 1 .. Len(ls) :
          /\ buf[pos[k]] = Nul
          /\ \A j \in 1 .. Len(ls[k]) : buf[pos[k - 1] + j] = ls[k][j]

LEMMA LineLength ==
    ASSUME NEW ls \in Seq(Seq(Chars))
    PROVE  /\ Len(ls) \in Nat
           /\ \A k \in 1 .. Len(ls) : ls[k] \in Seq(Chars) /\ Len(ls[k]) \in Nat
<1>1. Len(ls) \in Nat
      BY LenProperties
<1>2. ASSUME NEW k \in 1 .. Len(ls)  PROVE ls[k] \in Seq(Chars) /\ Len(ls[k]) \in Nat
  <2>1. ls[k] \in Seq(Chars)
        BY ElementOfSeq
  <2> QED  BY <2>1, LenProperties
<1> QED  BY <1>1, <1>2

\* Every line takes at least its terminator.
LEMMA Increasing ==
    ASSUME NEW ls \in Seq(Seq(Chars)), NEW pos, Adds(pos, ls),
           NEW i \in 0 .. Len(ls), NEW j \in i .. Len(ls)
    PROVE  pos[i] + (j - i) <= pos[j]
<1> DEFINE T == {d \in Nat : i + d <= Len(ls) => pos[i] + d <= pos[i + d]}
<1>1. Len(ls) \in Nat /\ pos \in [0 .. Len(ls) -> Nat]
      BY LineLength DEF Adds
<1>2. 0 \in T
      BY <1>1
<1>3. ASSUME NEW d \in Nat, d \in T  PROVE d + 1 \in T
  <2> SUFFICES ASSUME i + (d + 1) <= Len(ls)  PROVE pos[i] + (d + 1) <= pos[i + (d + 1)]
      OBVIOUS
  <2>1. /\ i + (d + 1) \in 1 .. Len(ls) /\ i + (d + 1) - 1 = i + d
        /\ i + d \in 0 .. Len(ls) /\ i + (d + 1) \in 0 .. Len(ls)
        BY <1>1
  <2>2. pos[i + (d + 1)] = pos[i + d] + Len(ls[i + (d + 1)]) + 1
        BY <2>1 DEF Adds
  <2>3. Len(ls[i + (d + 1)]) \in Nat
        BY <2>1, LineLength
  <2>4. pos[i] + d <= pos[i + d]
        BY <1>1, <1>3, <2>1
  <2>5. pos[i] \in Nat /\ pos[i + d] \in Nat
        BY <1>1, <2>1
  <2> DEFINE a == pos[i]
             b == pos[i + d]
             c == pos[i + (d + 1)]
             n == Len(ls[i + (d + 1)])
  <2>6. c = b + n + 1 /\ n \in Nat /\ a + d <= b /\ a \in Nat /\ b \in Nat
        BY <2>2, <2>3, <2>4, <2>5
  <2> HIDE DEF a, b, c, n
  <2>7. a + (d + 1) <= c
        BY <2>6
  <2> QED  BY <2>7 DEF a, c
<1> HIDE DEF T
<1>4. \A d \in Nat : d \in T
      BY <1>2, <1>3, Induction
<1>5. j - i \in Nat /\ i + (j - i) = j /\ j <= Len(ls)
      BY <1>1
<1> QED  BY <1>4, <1>5 DEF T

LEMMA Ordered ==
    ASSUME NEW buf, NEW ls, NEW pos, Holds(buf, ls, pos), NEW k \in 0 .. Len(ls)
    PROVE  /\ Len(ls) \in Nat /\ Len(buf) \in Nat /\ pos[k] \in 0 .. Len(buf)
           /\ k > 0 => /\ pos[k] \in 1 .. Len(buf) /\ pos[k] = pos[k - 1] + Len(ls[k]) + 1
                       /\ pos[k - 1] \in 0 .. Len(buf) /\ Len(ls[k]) \in Nat
<1>1. /\ ls \in Seq(Seq(Chars)) /\ buf \in Seq(Text) /\ Adds(pos, ls)
      /\ pos[Len(ls)] = Len(buf)
      BY DEF Holds
<1>2. Len(ls) \in Nat /\ Len(buf) \in Nat /\ pos \in [0 .. Len(ls) -> Nat]
      BY <1>1, LenProperties DEF Adds
<1>3. ASSUME NEW j \in 0 .. Len(ls)  PROVE pos[j] \in 0 .. Len(buf)
  <2>1. Len(ls) \in j .. Len(ls)
        BY <1>2
  <2>2. pos[j] + (Len(ls) - j) <= Len(buf)
        BY <1>1, <2>1, Increasing
  <2>3. pos[j] \in Nat
        BY <1>2
  <2> QED  BY <1>2, <2>2, <2>3
<1>4. ASSUME k > 0
      PROVE  /\ pos[k] \in 1 .. Len(buf) /\ pos[k] = pos[k - 1] + Len(ls[k]) + 1
             /\ pos[k - 1] \in 0 .. Len(buf) /\ Len(ls[k]) \in Nat
  <2>1. k \in 1 .. Len(ls) /\ k - 1 \in 0 .. Len(ls)
        BY <1>2, <1>4
  <2>2. pos[k] = pos[k - 1] + Len(ls[k]) + 1
        BY <1>1, <2>1 DEF Adds
  <2>3. Len(ls[k]) \in Nat
        BY <1>1, <2>1, LineLength
  <2>4. pos[k] \in 0 .. Len(buf) /\ pos[k - 1] \in 0 .. Len(buf)
        BY <1>3, <2>1
  <2> QED  BY <1>2, <2>2, <2>3, <2>4
<1> QED  BY <1>2, <1>3, <1>4

\* No terminator is inside a line.
LEMMA NoNulInside ==
    ASSUME NEW buf, NEW ls, NEW pos, Holds(buf, ls, pos), NEW k \in 1 .. Len(ls),
           NEW p \in pos[k - 1] + 1 .. pos[k] - 1
    PROVE  buf[p] # Nul
<1>1. /\ k \in 0 .. Len(ls) /\ k > 0 /\ ls \in Seq(Seq(Chars))
      BY DEF Holds
<1>2. /\ pos[k] = pos[k - 1] + Len(ls[k]) + 1 /\ pos[k - 1] \in Nat /\ Len(ls[k]) \in Nat
      BY <1>1, Ordered
<1>3. p - pos[k - 1] \in 1 .. Len(ls[k]) /\ pos[k - 1] + (p - pos[k - 1]) = p
      BY <1>2
<1>4. buf[p] = ls[k][p - pos[k - 1]]
      BY <1>3 DEF Holds
<1>5. ls[k] \in Seq(Chars)
      BY <1>1, LineLength
<1>6. ls[k][p - pos[k - 1]] \in Chars
      BY <1>3, <1>5, ElementOfSeq
<1> QED  BY <1>4, <1>6, Constants

LEMMA NextEnd ==
    ASSUME NEW buf, NEW ls, NEW pos, Holds(buf, ls, pos), NEW k \in 1 .. Len(ls)
    PROVE  Min({p \in pos[k - 1] + 1 .. Len(buf) : buf[p] = Nul}) = pos[k]
<1> DEFINE T == {p \in pos[k - 1] + 1 .. Len(buf) : buf[p] = Nul}
<1>1. k \in 0 .. Len(ls) /\ k > 0
      OBVIOUS
<1>2. /\ Len(buf) \in Nat /\ pos[k] \in 1 .. Len(buf) /\ pos[k] = pos[k - 1] + Len(ls[k]) + 1
      /\ pos[k - 1] \in 0 .. Len(buf) /\ Len(ls[k]) \in Nat
      BY <1>1, Ordered
<1>3. T \in SUBSET Nat
      BY <1>2
<1>4. pos[k] \in T
      BY <1>2 DEF Holds
<1>5. ASSUME NEW p \in T  PROVE p >= pos[k]
  <2> SUFFICES ASSUME p < pos[k]  PROVE FALSE
      BY <1>2, <1>3
  <2>1. p \in pos[k - 1] + 1 .. pos[k] - 1
        BY <1>2
  <2> QED  BY <2>1, NoNulInside
<1> HIDE DEF T
<1>6. Min(T) \in T /\ \A m \in T : Min(T) <= m
      BY <1>3, <1>4, Least
<1>7. Min(T) >= pos[k] /\ Min(T) <= pos[k] /\ Min(T) \in Nat /\ pos[k] \in Nat
      BY <1>3, <1>4, <1>5, <1>6
<1>8. Min(T) = pos[k]
      BY <1>7
<1> QED  BY <1>8 DEF T

\* f is the recursive function of LineStart.
Starts(f, buf, n) ==
    f = [k \in 0 .. n |-> IF k = 0 THEN 0
                          ELSE Min({p \in f[k - 1] + 1 .. Len(buf) : buf[p] = Nul})]

LEMMA LineStartIs ==
    ASSUME NEW buf, NEW ls, NEW pos, Holds(buf, ls, pos), NEW n \in 0 .. Len(ls)
    PROVE  LineStart(buf, n) = pos[n]
<1> DEFINE g == [k \in 0 .. n |-> pos[k]]
           f == CHOOSE st : Starts(st, buf, n)
<1>1. LineStart(buf, n) = f[n]
      BY DEF LineStart, Starts
<1>2. Len(ls) \in Nat /\ pos[0] = 0 /\ n \in Nat
      BY LineLength DEF Holds, Adds
<1>3. Starts(g, buf, n)
  <2>1. ASSUME NEW k \in 0 .. n
        PROVE  pos[k] = IF k = 0 THEN 0
                        ELSE Min({p \in g[k - 1] + 1 .. Len(buf) : buf[p] = Nul})
    <3>1. CASE k = 0
          BY <1>2, <3>1
    <3>2. CASE k # 0
      <4>1. k \in 1 .. Len(ls) /\ k - 1 \in 0 .. n
            BY <1>2, <3>2
      <4>2. g[k - 1] = pos[k - 1]
            BY <4>1
      <4>3. Min({p \in pos[k - 1] + 1 .. Len(buf) : buf[p] = Nul}) = pos[k]
            BY <4>1, NextEnd
      <4> QED  BY <3>2, <4>2, <4>3
    <3> QED  BY <3>1, <3>2
  <2> QED  BY <2>1 DEF Starts
<1> HIDE DEF g
<1>4. Starts(f, buf, n)
      BY <1>3
<1> HIDE DEF f
<1> DEFINE T == {k \in Nat : k <= n => f[k] = pos[k]}
<1>5. 0 \in T
      BY <1>2, <1>4 DEF Starts
<1>6. ASSUME NEW k \in Nat, k \in T  PROVE k + 1 \in T
  <2> SUFFICES ASSUME k + 1 <= n  PROVE f[k + 1] = pos[k + 1]
      OBVIOUS
  <2>1. k + 1 \in 0 .. n /\ k + 1 \in 1 .. Len(ls) /\ (k + 1) - 1 = k /\ k + 1 # 0 /\ k <= n
        BY <1>2
  <2>2. f[k] = pos[k]
        BY <1>6, <2>1
  <2>3. f[k + 1] = Min({p \in f[(k + 1) - 1] + 1 .. Len(buf) : buf[p] = Nul})
        BY <1>4, <2>1 DEF Starts
  <2>4. Min({p \in pos[(k + 1) - 1] + 1 .. Len(buf) : buf[p] = Nul}) = pos[k + 1]
        BY <2>1, NextEnd
  <2> QED  BY <2>1, <2>2, <2>3, <2>4
<1> HIDE DEF T
<1>7. \A k \in Nat : k \in T
      BY <1>5, <1>6, Induction
<1>8. f[n] = pos[n]
      BY <1>2, <1>7 DEF T
<1> QED  BY <1>1, <1>8

\* What hist_get reads is the line that was stored.
LEMMA LineIs ==
    ASSUME NEW buf, NEW ls, NEW pos, Holds(buf, ls, pos), NEW i \in 0 .. Len(ls) - 1
    PROVE  SubSeq(buf, LineStart(buf, i) + 1, LineStart(buf, i + 1) - 1) = ls[i + 1]
<1>1. ls \in Seq(Seq(Chars)) /\ Len(ls) \in Nat
      BY LineLength DEF Holds
<1>2. i + 1 \in 1 .. Len(ls) /\ i + 1 \in 0 .. Len(ls) /\ i \in 0 .. Len(ls) /\ (i + 1) - 1 = i
      BY <1>1
<1>3. LineStart(buf, i) = pos[i] /\ LineStart(buf, i + 1) = pos[i + 1]
      BY <1>2, LineStartIs
<1>4. ls[i + 1] \in Seq(Chars) /\ Len(ls[i + 1]) \in Nat
      BY <1>1, <1>2, LineLength
<1> DEFINE n == Len(ls[i + 1])
           a == pos[i]
<1>5. pos[i + 1] = a + n + 1 /\ a \in Nat
  <2>1. i + 1 > 0 /\ i + 1 \in 0 .. Len(ls)
        BY <1>2
  <2>2. pos[i + 1] = pos[(i + 1) - 1] + Len(ls[i + 1]) + 1 /\ pos[(i + 1) - 1] \in 0 .. Len(buf)
        BY <2>1, Ordered
  <2> QED  BY <1>2, <2>2
<1>6. \A j \in 1 .. n : buf[a + j] = ls[i + 1][j] /\ ls[i + 1][j] \in Chars
  <2>1. \A j \in 1 .. n : buf[pos[(i + 1) - 1] + j] = ls[i + 1][j]
        BY <1>2 DEF Holds
  <2>2. \A j \in 1 .. n : ls[i + 1][j] \in Chars
        BY <1>4, ElementOfSeq
  <2> QED  BY <1>2, <2>1, <2>2
<1>7. SubSeq(buf, LineStart(buf, i) + 1, LineStart(buf, i + 1) - 1) = SubSeq(buf, a + 1, a + n)
  <2>1. pos[i + 1] - 1 = a + n
        BY <1>4, <1>5
  <2> QED  BY <1>3, <2>1
<1> HIDE DEF a, n
<1>8. n \in Nat /\ n = Len(ls[i + 1])
      BY <1>4 DEF n
<1>9. ASSUME NEW q \in a + 1 .. a + n  PROVE buf[q] \in Chars
  <2>1. q - a \in 1 .. n /\ a + (q - a) = q
        BY <1>5, <1>8
  <2> QED  BY <1>6, <2>1
<1>10. /\ SubSeq(buf, a + 1, a + n) \in Seq(Chars)
       /\ Len(SubSeq(buf, a + 1, a + n)) = n
       /\ \A j \in 1 .. n : SubSeq(buf, a + 1, a + n)[j] = buf[a + j]
  <2>1. a + 1 \in Int /\ a + n \in Int
        BY <1>5, <1>8
  <2>2. /\ SubSeq(buf, a + 1, a + n) \in Seq(Chars)
        /\ Len(SubSeq(buf, a + 1, a + n)) = IF a + 1 <= a + n THEN (a + n) - (a + 1) + 1 ELSE 0
        /\ \A j \in 1 .. (a + n) - (a + 1) + 1 : SubSeq(buf, a + 1, a + n)[j] = buf[a + 1 + j - 1]
        BY <1>9, <2>1, SubSeqProperties
  <2>3. (a + n) - (a + 1) + 1 = n /\ \A j \in 1 .. n : a + 1 + j - 1 = a + j
        BY <1>5, <1>8
  <2>4. IF a + 1 <= a + n THEN (a + n) - (a + 1) + 1 = n ELSE n = 0
        BY <1>5, <1>8
  <2> QED  BY <2>2, <2>3, <2>4
<1>11. \A j \in 1 .. n : SubSeq(buf, a + 1, a + n)[j] = ls[i + 1][j]
       BY <1>6, <1>10
<1>12. SubSeq(buf, a + 1, a + n) = ls[i + 1]
       BY <1>4, <1>8, <1>10, <1>11, SeqEqual
<1> QED  BY <1>7, <1>12

\* There are as many terminators as lines.
LEMMA CountOfLines ==
    ASSUME NEW buf, NEW ls, NEW pos, Holds(buf, ls, pos)
    PROVE  Cardinality({p \in 1 .. Len(buf) : buf[p] = Nul}) = Len(ls)
<1> DEFINE T == {p \in 1 .. Len(buf) : buf[p] = Nul}
           F == [k \in 1 .. Len(ls) |-> pos[k]]
<1>1. /\ Len(ls) \in Nat /\ Len(buf) \in Nat /\ pos[0] = 0 /\ pos[Len(ls)] = Len(buf)
      /\ ls \in Seq(Seq(Chars)) /\ Adds(pos, ls) /\ pos \in [0 .. Len(ls) -> Nat]
      BY LenProperties DEF Holds, Adds
<1>2. F \in [1 .. Len(ls) -> T]
  <2> SUFFICES ASSUME NEW k \in 1 .. Len(ls)  PROVE pos[k] \in T
      OBVIOUS
  <2>1. k \in 0 .. Len(ls) /\ k > 0
        OBVIOUS
  <2>2. pos[k] \in 1 .. Len(buf)
        BY <2>1, Ordered
  <2>3. buf[pos[k]] = Nul
        BY DEF Holds
  <2> QED  BY <2>2, <2>3
<1>3. ASSUME NEW i \in 1 .. Len(ls), NEW j \in 1 .. Len(ls), i < j  PROVE pos[i] # pos[j]
  <2>1. i \in 0 .. Len(ls) /\ j \in i .. Len(ls) /\ j - i > 0
        BY <1>1, <1>3
  <2>2. pos[i] + (j - i) <= pos[j]
        BY <1>1, <2>1, Increasing
  <2>3. j \in 0 .. Len(ls)
        OBVIOUS
  <2>4. pos[i] \in Nat /\ pos[j] \in Nat
        BY <1>1, <2>1, <2>3
  <2> QED  BY <2>1, <2>2, <2>4
<1>4. \A i, j \in 1 .. Len(ls) : F[i] = F[j] => i = j
  <2> SUFFICES ASSUME NEW i \in 1 .. Len(ls), NEW j \in 1 .. Len(ls), F[i] = F[j]
               PROVE  i = j
      OBVIOUS
  <2>1. pos[i] = pos[j]
        OBVIOUS
  <2>2. ~ (i < j) /\ ~ (j < i)
        BY <1>3, <2>1
  <2> QED  BY <1>1, <2>2
<1>5. ASSUME NEW p \in T  PROVE \E k \in 1 .. Len(ls) : F[k] = p
  <2> DEFINE U == {k \in 0 .. Len(ls) : pos[k] >= p}
  <2>1. U \in SUBSET Nat /\ Len(ls) \in U
        BY <1>1
  <2>2. PICK k \in U : \A m \in U : k <= m
    <3> HIDE DEF U
    <3> QED  BY <2>1, Least
  <2>3. k \in 0 .. Len(ls) /\ pos[k] >= p /\ p \in 1 .. Len(buf) /\ buf[p] = Nul
        BY <2>2
  <2>4. k # 0
        BY <1>1, <2>3
  <2>5. k - 1 \in 0 .. Len(ls) /\ k \in 1 .. Len(ls) /\ ~ (k <= k - 1)
        BY <1>1, <2>3, <2>4
  <2>6. ~ (pos[k - 1] >= p)
        BY <2>2, <2>5
  <2>7. pos[k - 1] \in Nat /\ pos[k] \in Nat
        BY <1>1, <2>5
  <2>8. pos[k] # p => p \in pos[k - 1] + 1 .. pos[k] - 1
        BY <2>3, <2>6, <2>7
  <2>9. pos[k] = p
        BY <2>3, <2>5, <2>8, NoNulInside
  <2> QED  BY <2>5, <2>9
<1> HIDE DEF T, F
<1>6. F \in Bijection(1 .. Len(ls), T)
      BY <1>2, <1>4, <1>5, Fun_IsBij
<1>7. ExistsBijection(1 .. Len(ls), T)
      BY <1>6 DEF ExistsBijection
<1>8. Cardinality(T) = Len(ls)
      BY <1>1, <1>7, FS_CountingElements
<1> QED  BY <1>8 DEF T

\* Without its first lines.
LEMMA DropHolds ==
    ASSUME NEW buf, NEW ls, NEW pos, Holds(buf, ls, pos), NEW n \in 0 .. Len(ls)
    PROVE  LET rest == SubSeq(ls, n + 1, Len(ls))
               new  == SubSeq(buf, pos[n] + 1, Len(buf))
           IN  /\ Len(rest) = Len(ls) - n /\ Len(new) = Len(buf) - pos[n]
               /\ \A k \in 1 .. Len(rest) : rest[k] = ls[n + k]
               /\ \E p : Holds(new, rest, p)
<1> DEFINE rest == SubSeq(ls, n + 1, Len(ls))
           new  == SubSeq(buf, pos[n] + 1, Len(buf))
           q    == [k \in 0 .. Len(ls) - n |-> pos[n + k] - pos[n]]
<1>1. /\ Len(ls) \in Nat /\ Len(buf) \in Nat /\ pos[Len(ls)] = Len(buf)
      /\ ls \in Seq(Seq(Chars)) /\ buf \in Seq(Text) /\ Adds(pos, ls)
      /\ pos \in [0 .. Len(ls) -> Nat]
      BY LenProperties DEF Holds, Adds
<1>2. pos[n] \in 0 .. Len(buf)
      BY Ordered
<1>3. /\ rest \in Seq(Seq(Chars)) /\ Len(rest) = Len(ls) - n
      /\ \A k \in 1 .. Len(rest) : rest[k] = ls[n + k]
  <2>1. n + 1 \in 1 .. Len(ls) + 1 /\ Len(ls) \in 0 .. Len(ls)
        BY <1>1
  <2>2. /\ rest \in Seq(Seq(Chars))
        /\ Len(rest) = IF n + 1 <= Len(ls) THEN Len(ls) - (n + 1) + 1 ELSE 0
        /\ \A k \in 1 .. Len(ls) - (n + 1) + 1 : rest[k] = ls[n + 1 + k - 1]
        BY <1>1, <2>1, PartOf
  <2>3. Len(rest) = Len(ls) - n /\ Len(ls) - (n + 1) + 1 = Len(ls) - n
        BY <1>1, <2>2
  <2>4. n \in Int /\ \A k \in Int : n + 1 + k - 1 = n + k
        OBVIOUS
  <2> HIDE DEF rest
  <2> QED  BY <2>2, <2>3, <2>4
<1>4. /\ new \in Seq(Text) /\ Len(new) = Len(buf) - pos[n]
      /\ \A i \in 1 .. Len(buf) - pos[n] : new[i] = buf[pos[n] + i]
  <2>1. pos[n] + 1 \in 1 .. Len(buf) + 1 /\ Len(buf) \in 0 .. Len(buf)
        BY <1>1, <1>2
  <2>2. /\ new \in Seq(Text)
        /\ Len(new) = IF pos[n] + 1 <= Len(buf) THEN Len(buf) - (pos[n] + 1) + 1 ELSE 0
        /\ \A i \in 1 .. Len(buf) - (pos[n] + 1) + 1 : new[i] = buf[pos[n] + 1 + i - 1]
        BY <1>1, <2>1, PartOf
  <2>3. Len(new) = Len(buf) - pos[n] /\ Len(buf) - (pos[n] + 1) + 1 = Len(buf) - pos[n]
        BY <1>1, <1>2, <2>2
  <2>4. \A i \in 1 .. Len(buf) - pos[n] : pos[n] + 1 + i - 1 = pos[n] + i
        BY <1>1, <1>2
  <2> HIDE DEF new
  <2> QED  BY <2>2, <2>3, <2>4
<1> HIDE DEF rest, new
<1>5. ASSUME NEW k \in 0 .. Len(ls) - n
      PROVE  q[k] \in Nat /\ q[k] = pos[n + k] - pos[n] /\ n + k \in 0 .. Len(ls)
  <2>1. n + k \in 0 .. Len(ls) /\ n + k \in n .. Len(ls) /\ (n + k) - n = k /\ k \in Nat
        BY <1>1
  <2>2. pos[n] + ((n + k) - n) <= pos[n + k]
        BY <1>1, <2>1, Increasing
  <2>3. pos[n] \in Nat /\ pos[n + k] \in Nat
        BY <1>1, <2>1
  <2> QED  BY <2>1, <2>2, <2>3
<1>6. ASSUME NEW k \in 1 .. Len(rest)
      PROVE  /\ n + k \in 1 .. Len(ls) /\ (n + k) - 1 = n + (k - 1) /\ rest[k] = ls[n + k]
             /\ k \in 0 .. Len(ls) - n /\ k - 1 \in 0 .. Len(ls) - n
             /\ q[k] = pos[n + k] - pos[n] /\ q[k - 1] = pos[(n + k) - 1] - pos[n]
             /\ pos[n + k] \in Nat /\ pos[(n + k) - 1] \in Nat
             /\ Len(ls[n + k]) \in Nat /\ pos[n + k] = pos[(n + k) - 1] + Len(ls[n + k]) + 1
             /\ q[k] = q[k - 1] + Len(ls[n + k]) + 1 /\ q[k - 1] \in Nat
             /\ pos[n + k] <= Len(buf)
  <2>1. /\ n + k \in 1 .. Len(ls) /\ (n + k) - 1 = n + (k - 1) /\ n + k \in 0 .. Len(ls)
        /\ n + k > 0
        /\ k \in 0 .. Len(ls) - n /\ k - 1 \in 0 .. Len(ls) - n
        BY <1>1, <1>3
  <2>2. q[k] = pos[n + k] - pos[n] /\ q[k - 1] = pos[(n + k) - 1] - pos[n] /\ q[k - 1] \in Nat
    <3> HIDE DEF q
    <3> QED  BY <1>5, <2>1
  <2>3. /\ pos[n + k] \in 1 .. Len(buf) /\ pos[(n + k) - 1] \in 0 .. Len(buf)
        /\ Len(ls[n + k]) \in Nat /\ pos[n + k] = pos[(n + k) - 1] + Len(ls[n + k]) + 1
        BY <2>1, Ordered
  <2>4. pos[n + k] \in Nat /\ pos[(n + k) - 1] \in Nat /\ pos[n] \in Nat
        BY <1>1, <1>2, <2>3
  <2>5. pos[n + k] <= Len(buf)
        BY <2>3
  <2>6. q[k] = q[k - 1] + Len(ls[n + k]) + 1
    <3> HIDE DEF q
    <3> DEFINE x == pos[n + k]
               y == pos[(n + k) - 1]
               z == pos[n]
               L == Len(ls[n + k])
    <3>1. /\ q[k] = x - z /\ q[k - 1] = y - z /\ x = y + L + 1 /\ L \in Nat
          /\ x \in Nat /\ y \in Nat /\ z \in Nat
          BY <2>2, <2>3, <2>4
    <3>2. L = Len(ls[n + k])
          OBVIOUS
    <3> HIDE DEF x, y, z, L
    <3> QED  BY <3>1, <3>2
  <2> QED  BY <1>3, <2>1, <2>2, <2>3, <2>4, <2>5, <2>6
<1>7. Adds(q, rest)
  <2>1. q \in [0 .. Len(rest) -> Nat]
        BY <1>3, <1>5
  <2>2. q[0] = 0
    <3>1. 0 \in 0 .. Len(ls) - n /\ n + 0 = n /\ pos[n] - pos[n] = 0
          BY <1>1, <1>2
    <3> QED  BY <3>1
  <2>3. \A k \in 1 .. Len(rest) : q[k] = q[k - 1] + Len(rest[k]) + 1
    <3> HIDE DEF q
    <3> QED  BY <1>6
  <2> HIDE DEF q
  <2> QED  BY <2>1, <2>2, <2>3 DEF Adds
<1>8. q[Len(rest)] = Len(new)
  <2>1. Len(rest) \in 0 .. Len(ls) - n /\ n + Len(rest) = Len(ls)
        BY <1>1, <1>3
  <2> QED  BY <1>1, <1>4, <2>1
<1>9. ASSUME NEW k \in 1 .. Len(rest)
      PROVE  /\ new[q[k]] = Nul
             /\ \A j \in 1 .. Len(rest[k]) : new[q[k - 1] + j] = rest[k][j]
  <2> HIDE DEF q
  <2> DEFINE K == n + k
             L == Len(ls[n + k])
             a == pos[K - 1]
  <2>1. /\ K \in 1 .. Len(ls) /\ rest[k] = ls[K] /\ q[k] = pos[K] - pos[n]
        /\ q[k - 1] = a - pos[n] /\ q[k - 1] \in Nat /\ pos[K] \in Nat /\ a \in Nat
        /\ L \in Nat /\ pos[K] = a + L + 1 /\ pos[K] <= Len(buf) /\ L = Len(rest[k])
        BY <1>6
  <2>2. /\ buf[pos[K]] = Nul
        /\ \A j \in 1 .. L : buf[a + j] = rest[k][j]
        BY <2>1 DEF Holds
  <2> HIDE DEF K, L, a
  <2> DEFINE z == pos[n]
             y == pos[K]
  <2>0. /\ q[k] = y - z /\ q[k - 1] = a - z /\ q[k - 1] \in Nat /\ y \in Nat /\ a \in Nat
        /\ L \in Nat /\ y = a + L + 1 /\ y <= Len(buf) /\ Len(buf) \in Nat
        /\ z \in Nat /\ z = pos[n] /\ y = pos[K]
        BY <1>1, <1>2, <2>1
  <2> HIDE DEF z, y
  <2>3. q[k] \in 1 .. Len(buf) - z /\ z + q[k] = y
    <3> DEFINE b == q[k]
               N == Len(buf)
    <3>1. /\ b = y - z /\ a - z \in Nat /\ y \in Nat /\ a \in Nat /\ L \in Nat
          /\ y = a + L + 1 /\ y <= N /\ N \in Nat /\ z \in Nat
          BY <2>0
    <3> HIDE DEF b, N
    <3>2. b \in 1 .. N - z /\ z + b = y
          BY <3>1
    <3> QED  BY <3>2 DEF b, N
  <2>4. ASSUME NEW j \in 1 .. L
        PROVE  q[k - 1] + j \in 1 .. Len(buf) - z /\ z + (q[k - 1] + j) = a + j
    <3> DEFINE b == q[k - 1]
               N == Len(buf)
    <3>1. /\ b = a - z /\ b \in Nat /\ y \in Nat /\ a \in Nat /\ L \in Nat
          /\ y = a + L + 1 /\ y <= N /\ N \in Nat /\ z \in Nat /\ j \in 1 .. L
          BY <2>0
    <3> HIDE DEF b, N
    <3>2. b + j \in 1 .. N - z /\ z + (b + j) = a + j
          BY <3>1
    <3> QED  BY <3>2 DEF b, N
  <2>5. new[q[k]] = Nul
        BY <1>4, <2>0, <2>2, <2>3
  <2>6. \A j \in 1 .. L : new[q[k - 1] + j] = rest[k][j]
        BY <1>4, <2>0, <2>2, <2>4
  <2> QED  BY <2>1, <2>5, <2>6
<1> HIDE DEF q
<1>10. Holds(new, rest, q)
       BY <1>3, <1>4, <1>7, <1>8, <1>9 DEF Holds
<1> QED  BY <1>3, <1>4, <1>10 DEF rest, new

\* With one line more.
LEMMA PushHolds ==
    ASSUME NEW buf, NEW ls, NEW pos, Holds(buf, ls, pos), NEW str \in Seq(Chars)
    PROVE  LET new == buf \o Append(str, Nul)
           IN  /\ Len(new) = Len(buf) + Len(str) + 1
               /\ \E p : Holds(new, Append(ls, str), p)
<1> DEFINE all == Append(ls, str)
           new == buf \o Append(str, Nul)
           end == Len(buf) + Len(str) + 1
           q   == [k \in 0 .. Len(ls) + 1 |-> IF k <= Len(ls) THEN pos[k] ELSE end]
<1>1. /\ Len(ls) \in Nat /\ Len(buf) \in Nat /\ pos[Len(ls)] = Len(buf) /\ pos[0] = 0
      /\ ls \in Seq(Seq(Chars)) /\ buf \in Seq(Text) /\ Adds(pos, ls)
      /\ pos \in [0 .. Len(ls) -> Nat] /\ Len(str) \in Nat
      BY LenProperties DEF Holds, Adds
<1>2. /\ all \in Seq(Seq(Chars)) /\ Len(all) = Len(ls) + 1
      /\ \A k \in 1 .. Len(ls) : all[k] = ls[k]
      /\ all[Len(ls) + 1] = str
      BY <1>1, AppendProperties
<1>3. /\ Append(str, Nul) \in Seq(Text) /\ Len(Append(str, Nul)) = Len(str) + 1
      /\ \A j \in 1 .. Len(str) : Append(str, Nul)[j] = str[j]
      /\ Append(str, Nul)[Len(str) + 1] = Nul
  <2>1. str \in Seq(Text) /\ Nul \in Text
    <3>1. Chars \subseteq Text /\ Nul \in Text
          BY DEF Text
    <3> QED  BY <3>1, SeqMonotonic
  <2> QED  BY <2>1, AppendProperties
<1>4. /\ new \in Seq(Text) /\ Len(new) = end
      /\ \A i \in 1 .. Len(buf) : new[i] = buf[i]
      /\ \A j \in 1 .. Len(str) : new[Len(buf) + j] = str[j]
      /\ new[end] = Nul
  <2> DEFINE nx == Append(str, Nul)
  <2>1. /\ new \in Seq(Text) /\ Len(new) = Len(buf) + Len(nx)
        /\ \A i \in 1 .. Len(buf) + Len(nx) :
              new[i] = IF i <= Len(buf) THEN buf[i] ELSE nx[i - Len(buf)]
        BY <1>1, <1>3, ConcatProperties
  <2> HIDE DEF nx, new
  <2>2. Len(nx) = Len(str) + 1 /\ (\A j \in 1 .. Len(str) : nx[j] = str[j]) /\ nx[Len(str) + 1] = Nul
        BY <1>3 DEF nx
  <2>3. Len(new) = end
        BY <1>1, <2>1, <2>2
  <2>4. \A i \in 1 .. Len(buf) : i \in 1 .. Len(buf) + Len(nx) /\ i <= Len(buf)
        BY <1>1, <2>2
  <2>5. \A j \in 1 .. Len(str) + 1 : /\ Len(buf) + j \in 1 .. Len(buf) + Len(nx)
                                     /\ ~ (Len(buf) + j <= Len(buf))
                                     /\ (Len(buf) + j) - Len(buf) = j
        BY <1>1, <2>2
  <2>6. \A j \in 1 .. Len(str) + 1 : new[Len(buf) + j] = nx[j]
        BY <2>1, <2>5
  <2>7. end = Len(buf) + (Len(str) + 1) /\ Len(str) + 1 \in 1 .. Len(str) + 1
        /\ 1 .. Len(str) \subseteq 1 .. Len(str) + 1
        BY <1>1
  <2>8. new[end] = Nul
        BY <2>2, <2>6, <2>7
  <2>9. \A j \in 1 .. Len(str) : new[Len(buf) + j] = str[j]
        BY <2>2, <2>6, <2>7
  <2> QED  BY <2>1, <2>3, <2>4, <2>8, <2>9
<1> HIDE DEF all, new
<1>5. ASSUME NEW k \in 1 .. Len(ls)
      PROVE  /\ k \in 1 .. Len(all) /\ all[k] = ls[k] /\ q[k] = pos[k] /\ q[k - 1] = pos[k - 1]
             /\ pos[k] \in 1 .. Len(buf) /\ pos[k] = pos[k - 1] + Len(ls[k]) + 1
             /\ pos[k - 1] \in 0 .. Len(buf) /\ Len(ls[k]) \in Nat
  <2>1. /\ k \in 0 .. Len(ls) + 1 /\ k - 1 \in 0 .. Len(ls) + 1 /\ k <= Len(ls)
        /\ k - 1 <= Len(ls) /\ k \in 0 .. Len(ls) /\ k > 0
        BY <1>1
  <2>2. q[k] = pos[k] /\ q[k - 1] = pos[k - 1]
        BY <2>1
  <2>3. /\ pos[k] \in 1 .. Len(buf) /\ pos[k] = pos[k - 1] + Len(ls[k]) + 1
        /\ pos[k - 1] \in 0 .. Len(buf) /\ Len(ls[k]) \in Nat
        BY <2>1, Ordered
  <2>4. k \in 1 .. Len(all)
        BY <1>1, <1>2
  <2> QED  BY <1>2, <2>2, <2>3, <2>4
<1>6. q[Len(ls) + 1] = end /\ q[(Len(ls) + 1) - 1] = Len(buf) /\ q[0] = 0
  <2>1. /\ Len(ls) + 1 \in 0 .. Len(ls) + 1 /\ ~ (Len(ls) + 1 <= Len(ls))
        /\ (Len(ls) + 1) - 1 = Len(ls) /\ Len(ls) \in 0 .. Len(ls) + 1 /\ Len(ls) <= Len(ls)
        /\ 0 \in 0 .. Len(ls) + 1 /\ 0 <= Len(ls)
        BY <1>1
  <2> QED  BY <1>1, <2>1
<1>7. q \in [0 .. Len(all) -> Nat]
  <2>1. end \in Nat
        BY <1>1
  <2>2. \A k \in 0 .. Len(ls) + 1 : k <= Len(ls) => pos[k] \in Nat
        BY <1>1
  <2> QED  BY <1>2, <2>1, <2>2
<1> HIDE DEF q
<1>8. ASSUME NEW k \in 1 .. Len(all)  PROVE k \in 1 .. Len(ls) \/ k = Len(ls) + 1
      BY <1>1, <1>2
<1>9. ASSUME NEW k \in 1 .. Len(all)
      PROVE  /\ q[k] = q[k - 1] + Len(all[k]) + 1
             /\ new[q[k]] = Nul
             /\ \A j \in 1 .. Len(all[k]) : new[q[k - 1] + j] = all[k][j]
  <2>1. CASE k \in 1 .. Len(ls)
    <3>1. /\ all[k] = ls[k] /\ q[k] = pos[k] /\ q[k - 1] = pos[k - 1]
          /\ pos[k] \in 1 .. Len(buf) /\ pos[k] = pos[k - 1] + Len(ls[k]) + 1
          /\ pos[k - 1] \in 0 .. Len(buf) /\ Len(ls[k]) \in Nat
          BY <1>5, <2>1
    <3>2. buf[pos[k]] = Nul /\ \A j \in 1 .. Len(ls[k]) : buf[pos[k - 1] + j] = ls[k][j]
          BY <2>1 DEF Holds
    <3>3. ASSUME NEW j \in 1 .. Len(ls[k])  PROVE pos[k - 1] + j \in 1 .. Len(buf)
      <4> DEFINE a == pos[k - 1]
                 L == Len(ls[k])
                 N == Len(buf)
      <4>1. /\ a \in Nat /\ L \in Nat /\ N \in Nat /\ a + L + 1 <= N
            /\ j \in 1 .. L
            BY <1>1, <3>1
      <4> HIDE DEF a, L, N
      <4>2. a + j \in 1 .. N
            BY <4>1
      <4> QED  BY <4>2 DEF a, N
    <3>4. \A j \in 1 .. Len(ls[k]) : new[pos[k - 1] + j] = ls[k][j]
          BY <1>4, <3>2, <3>3
    <3>5. new[pos[k]] = Nul
          BY <1>4, <3>1, <3>2
    <3> QED  BY <3>1, <3>4, <3>5
  <2>2. CASE k = Len(ls) + 1
    <3>1. all[k] = str /\ q[k] = end /\ q[k - 1] = Len(buf)
          BY <1>2, <1>6, <2>2
    <3> HIDE DEF end
    <3>2. end = Len(buf) + Len(str) + 1
          BY DEF end
    <3> QED  BY <1>4, <3>1, <3>2
  <2> QED  BY <1>8, <2>1, <2>2
<1>10. Adds(q, all)
       BY <1>6, <1>7, <1>9 DEF Adds
<1>11. q[Len(all)] = Len(new)
       BY <1>2, <1>4, <1>6
<1>12. Holds(new, all, q)
       BY <1>2, <1>4, <1>9, <1>10, <1>11 DEF Holds
<1> QED  BY <1>4, <1>12 DEF new, all

-----------------------------------------------------------------------------
(* The history holds the most recent lines                                 *)

\* ls are the last lines of ent, and the one before them does not fit.
Keeps(hist, ent, ls, pos) ==
    /\ Holds(hist.buf, ls, pos) /\ Len(hist.buf) <= HistSize
    /\ hist.lines = Len(ls) /\ Len(ls) <= Len(ent)
    /\ \A k \in 1 .. Len(ls) : ls[k] = ent[Len(ent) - Len(ls) + k]
    /\ Len(ls) < Len(ent) => Len(hist.buf) + Len(ent[Len(ent) - Len(ls)]) + 1 > HistSize

Recent(hist, ent) == \E ls, pos : Keeps(hist, ent, ls, pos)

LEMMA KeepsIs ==
    ASSUME NEW hist, NEW ent, NEW ls, NEW pos, Keeps(hist, ent, ls, pos)
    PROVE  /\ Holds(hist.buf, ls, pos) /\ ls \in Seq(Seq(Chars))
           /\ Len(ls) \in Nat /\ Len(hist.buf) \in Nat /\ hist.lines = Len(ls)
           /\ pos[0] = 0 /\ pos[Len(ls)] = Len(hist.buf)
           /\ \A n \in 0 .. Len(ls) : /\ LineStart(hist.buf, n) = pos[n]
                                      /\ pos[n] \in 0 .. Len(hist.buf)
<1>1. Holds(hist.buf, ls, pos) /\ hist.lines = Len(ls)
      BY DEF Keeps
<1>2. /\ ls \in Seq(Seq(Chars)) /\ hist.buf \in Seq(Text)
      /\ pos[0] = 0 /\ pos[Len(ls)] = Len(hist.buf)
      BY <1>1 DEF Holds, Adds
<1>3. Len(ls) \in Nat /\ Len(hist.buf) \in Nat
      BY <1>2, LenProperties
<1>4. ASSUME NEW n \in 0 .. Len(ls)
      PROVE  LineStart(hist.buf, n) = pos[n] /\ pos[n] \in 0 .. Len(hist.buf)
      BY <1>1, LineStartIs, Ordered
<1> QED  BY <1>1, <1>2, <1>3, <1>4

\* What hist_add drops and appends keeps the history recent: it drops lines
\* only as long as the new one does not fit.
LEMMA AddKeeps ==
    ASSUME NEW hist, NEW ent \in Seq(Lines), NEW str \in Lines, Recent(hist, ent)
    PROVE  /\ Recent(hist_add(hist, str), Append(ent, str))
           /\ hist_add(hist, str).lines \in Nat \ {0}
<1>1. PICK ls, pos : Keeps(hist, ent, ls, pos)
      BY DEF Recent
<1>2. /\ Holds(hist.buf, ls, pos) /\ ls \in Seq(Seq(Chars))
      /\ Len(ls) \in Nat /\ Len(hist.buf) \in Nat /\ hist.lines = Len(ls)
      /\ pos[0] = 0 /\ pos[Len(ls)] = Len(hist.buf)
      /\ \A n \in 0 .. Len(ls) : /\ LineStart(hist.buf, n) = pos[n]
                                 /\ pos[n] \in 0 .. Len(hist.buf)
      BY <1>1, KeepsIs
<1>3. /\ str \in Seq(Chars) /\ Len(str) \in Nat /\ HistSize \in Nat
      /\ ~ (Len(str) + 1 > HistSize) /\ Len(ent) \in Nat
  <2>1. str \in Seq(Chars) /\ Len(str) \in Nat /\ Len(ent) \in Nat
        BY LinesAre, LenProperties
  <2>2. Len(str) <= LineSize - 1
        BY LinesAre
  <2> QED  BY <2>1, <2>2, Constants
<1> DEFINE U == {n \in 0 .. hist.lines : Used(hist, n, str) <= HistSize}
           n == Min(U)
           new == Appended(hist, n, str)
           rest == SubSeq(ls, n + 1, Len(ls))
           all == Append(rest, str)
           ent2 == Append(ent, str)
           B == Len(hist.buf)
           L == Len(str)
<1>4. \A m \in 0 .. Len(ls) : Used(hist, m, str) = B - pos[m] + L + 1
      BY <1>2 DEF Used
<1>5. Len(ls) \in U /\ U \in SUBSET Nat
  <2>1. Len(ls) \in 0 .. Len(ls)
        BY <1>2
  <2>2. B - pos[Len(ls)] + L + 1 <= HistSize
        BY <1>2, <1>3
  <2> QED  BY <1>2, <1>4, <2>1, <2>2
<1>6. n \in U /\ \A m \in U : n <= m
  <2> HIDE DEF U
  <2> QED  BY <1>5, Least
<1>7. n \in 0 .. Len(ls) /\ B - pos[n] + L + 1 <= HistSize
  <2> HIDE DEF n
  <2> QED  BY <1>2, <1>4, <1>6
<1>8. n # 0 => n - 1 \in 0 .. Len(ls) /\ B - pos[n - 1] + L + 1 > HistSize
  <2> SUFFICES ASSUME n # 0
               PROVE  n - 1 \in 0 .. Len(ls) /\ B - pos[n - 1] + L + 1 > HistSize
      OBVIOUS
  <2> HIDE DEF n
  <2>1. n - 1 \in 0 .. Len(ls) /\ ~ (n <= n - 1)
        BY <1>2, <1>7
  <2>2. n - 1 \notin U
        BY <1>6, <2>1
  <2>3. ~ (B - pos[n - 1] + L + 1 <= HistSize)
        BY <1>2, <1>4, <2>1, <2>2
  <2>4. pos[n - 1] \in 0 .. B
        BY <1>2, <2>1
  <2> HIDE DEF U
  <2> QED  BY <1>2, <1>3, <2>1, <2>3, <2>4
<1>9. hist_add(hist, str) = new
      BY <1>3 DEF hist_add
<1> HIDE DEF n, U
<1>10. /\ new.buf = SubSeq(hist.buf, pos[n] + 1, Len(hist.buf)) \o Append(str, Nul)
       /\ new.lines = Len(ls) + 1 - n
       BY <1>2, <1>7 DEF Appended
<1> HIDE DEF new
<1>11. /\ Len(rest) = Len(ls) - n
       /\ Len(SubSeq(hist.buf, pos[n] + 1, Len(hist.buf))) = B - pos[n]
       /\ \A k \in 1 .. Len(rest) : rest[k] = ls[n + k]
       /\ \E p : Holds(SubSeq(hist.buf, pos[n] + 1, Len(hist.buf)), rest, p)
  <2> DEFINE buf == hist.buf
             part == SubSeq(buf, pos[n] + 1, Len(buf))
  <2>1. Holds(buf, ls, pos) /\ n \in 0 .. Len(ls)
        BY <1>2, <1>7
  <2> HIDE DEF buf
  <2>2. /\ Len(rest) = Len(ls) - n /\ Len(part) = Len(buf) - pos[n]
        /\ \A k \in 1 .. Len(rest) : rest[k] = ls[n + k]
        /\ \E p : Holds(part, rest, p)
        BY <2>1, DropHolds
  <2> QED  BY <2>2 DEF buf
<1>12. PICK p : Holds(SubSeq(hist.buf, pos[n] + 1, Len(hist.buf)), rest, p)
       BY <1>11
<1>13. /\ Len(new.buf) = (B - pos[n]) + L + 1
       /\ \E q : Holds(new.buf, all, q)
  <2> DEFINE part == SubSeq(hist.buf, pos[n] + 1, Len(hist.buf))
  <2>1. Holds(part, rest, p)
        BY <1>12
  <2>2. Len(part) = B - pos[n] /\ new.buf = part \o Append(str, Nul)
        BY <1>10, <1>11
  <2> HIDE DEF part, rest
  <2>3. /\ Len(part \o Append(str, Nul)) = Len(part) + L + 1
        /\ \E q : Holds(part \o Append(str, Nul), Append(rest, str), q)
        BY <1>3, <2>1, PushHolds
  <2> QED  BY <2>2, <2>3
<1>14. PICK q : Holds(new.buf, all, q)
       BY <1>13
<1>15. /\ Len(all) = Len(ls) - n + 1
       /\ \A k \in 1 .. Len(ls) - n : all[k] = ls[n + k]
       /\ all[Len(ls) - n + 1] = str
  <2>1. rest \in Seq(Seq(Chars))
        BY <1>12 DEF Holds
  <2> HIDE DEF rest
  <2>2. /\ Len(all) = Len(rest) + 1 /\ all[Len(rest) + 1] = str
        /\ \A k \in 1 .. Len(rest) : all[k] = rest[k]
        BY <1>3, <2>1, AppendProperties
  <2> HIDE DEF all
  <2> QED  BY <1>11, <2>2
<1>16. /\ Len(ent2) = Len(ent) + 1 /\ ent2[Len(ent) + 1] = str
       /\ \A k \in 1 .. Len(ent) : ent2[k] = ent[k]
       BY AppendProperties
<1> HIDE DEF rest, all, ent2
<1>17. /\ Len(ls) <= Len(ent)
       /\ \A k \in 1 .. Len(ls) : ls[k] = ent[Len(ent) - Len(ls) + k]
       /\ Len(ls) < Len(ent) => B + Len(ent[Len(ent) - Len(ls)]) + 1 > HistSize
       BY <1>1 DEF Keeps
<1>18. n \in Nat /\ n <= Len(ls) /\ pos[n] \in Nat /\ pos[n] <= B
       BY <1>2, <1>7
<1>19. ASSUME NEW k \in 1 .. Len(all)  PROVE all[k] = ent2[Len(ent2) - Len(all) + k]
  <2>1. Len(ent2) - Len(all) + k = Len(ent) - Len(ls) + (n + k)
        BY <1>2, <1>3, <1>15, <1>16, <1>18
  <2>2. CASE k \in 1 .. Len(ls) - n
    <3>1. n + k \in 1 .. Len(ls) /\ Len(ent) - Len(ls) + (n + k) \in 1 .. Len(ent)
      <4> DEFINE E == Len(ent)
                 M == Len(ls)
      <4>1. /\ E \in Nat /\ M \in Nat /\ M <= E /\ n \in Nat /\ n <= M
            /\ k \in 1 .. M - n
            BY <1>2, <1>3, <1>17, <1>18, <2>2
      <4> HIDE DEF E, M
      <4>2. n + k \in 1 .. M /\ E - M + (n + k) \in 1 .. E
            BY <4>1
      <4> QED  BY <4>2 DEF E, M
    <3>2. all[k] = ls[n + k] /\ ls[n + k] = ent[Len(ent) - Len(ls) + (n + k)]
          BY <1>15, <1>17, <2>2, <3>1
    <3>3. ent2[Len(ent) - Len(ls) + (n + k)] = ent[Len(ent) - Len(ls) + (n + k)]
          BY <1>16, <3>1
    <3> QED  BY <2>1, <3>2, <3>3
  <2>3. CASE k = Len(ls) - n + 1
    <3>1. Len(ent) - Len(ls) + (n + k) = Len(ent) + 1
          BY <1>2, <1>3, <1>18, <2>3
    <3> QED  BY <1>15, <1>16, <2>1, <2>3, <3>1
  <2>4. k \in 1 .. Len(ls) - n \/ k = Len(ls) - n + 1
        BY <1>2, <1>15, <1>18
  <2> QED  BY <2>2, <2>3, <2>4
<1>20. ASSUME Len(all) < Len(ent2)
       PROVE  Len(new.buf) + Len(ent2[Len(ent2) - Len(all)]) + 1 > HistSize
  <2> DEFINE x == Len(ent2) - Len(all)
  <2>1. x = Len(ent) - Len(ls) + n /\ x \in 1 .. Len(ent)
        BY <1>2, <1>3, <1>15, <1>16, <1>17, <1>18, <1>20
  <2> HIDE DEF x
  <2>2. ent2[x] = ent[x]
        BY <1>16, <2>1
  <2>3. Len(ent[x]) \in Nat
    <3>1. ent[x] \in Lines
          BY <2>1, ElementOfSeq
    <3> QED  BY <3>1, LinesAre, LenProperties
  <2>4. CASE n = 0
    <3>1. Len(ls) < Len(ent) /\ x = Len(ent) - Len(ls)
          BY <1>2, <1>3, <2>1, <2>4
    <3>2. B + Len(ent[x]) + 1 > HistSize
          BY <1>17, <3>1
    <3>3. Len(new.buf) = B + L + 1
          BY <1>2, <1>3, <1>13, <2>4
    <3>4. Len(new.buf) + Len(ent[x]) + 1 > HistSize
      <4> DEFINE N == Len(new.buf)
                 E == Len(ent[x])
      <4>1. /\ N = B + L + 1 /\ B + E + 1 > HistSize /\ B \in Nat /\ L \in Nat
            /\ E \in Nat /\ HistSize \in Nat
            BY <1>2, <1>3, <2>3, <3>2, <3>3
      <4> HIDE DEF N, E, B, L
      <4>2. N + E + 1 > HistSize
            BY <4>1
      <4> QED  BY <4>2 DEF N, E
    <3> QED  BY <2>2, <3>4 DEF x
  <2>5. CASE n # 0
    <3>1. /\ pos[n] = pos[n - 1] + Len(ls[n]) + 1 /\ pos[n - 1] \in Nat /\ Len(ls[n]) \in Nat
      <4>1. n > 0
            BY <1>18, <2>5
      <4> QED  BY <1>2, <1>7, <4>1, Ordered
    <3>2. B - pos[n - 1] + L + 1 > HistSize
          BY <1>8, <2>5
    <3>3. ls[n] = ent[x]
      <4>1. n \in 1 .. Len(ls)
            BY <1>2, <1>18, <2>5
      <4> QED  BY <1>17, <2>1, <4>1
    <3>4. Len(new.buf) + Len(ls[n]) + 1 > HistSize
      <4> DEFINE N == Len(new.buf)
                 E == Len(ls[n])
                 a == pos[n - 1]
                 b == pos[n]
      <4>1. /\ N = (B - b) + L + 1 /\ b = a + E + 1 /\ B - a + L + 1 > HistSize
            /\ B \in Nat /\ L \in Nat /\ E \in Nat /\ a \in Nat /\ b \in Nat
            /\ HistSize \in Nat
            BY <1>2, <1>3, <1>13, <1>18, <3>1, <3>2
      <4> HIDE DEF N, E, B, L, a, b
      <4>2. N + E + 1 > HistSize
            BY <4>1
      <4> QED  BY <4>2 DEF N, E
    <3> QED  BY <2>2, <3>3, <3>4 DEF x
  <2> QED  BY <2>4, <2>5
<1>21. Keeps(new, ent2, all, q)
  <2>1. Len(new.buf) <= HistSize
        BY <1>7, <1>13
  <2>2. new.lines = Len(all) /\ Len(all) <= Len(ent2)
        BY <1>2, <1>3, <1>10, <1>15, <1>16, <1>17, <1>18
  <2> QED  BY <1>14, <1>19, <1>20, <2>1, <2>2 DEF Keeps
<1>22. new.lines \in Nat \ {0}
       BY <1>2, <1>10, <1>18
<1> QED  BY <1>9, <1>21, <1>22 DEF Recent, ent2

\* f is the recursive function of Bytes.
Sums(f, ls) ==
    f = [n \in 0 .. Len(ls) |-> IF n = 0 THEN 0 ELSE f[n - 1] + Len(ls[n]) + 1]

LEMMA BytesAre ==
    ASSUME NEW ls \in Seq(Seq(Chars)), NEW pos, Adds(pos, ls)
    PROVE  Bytes(ls) = pos[Len(ls)]
<1> DEFINE f == CHOOSE sum : Sums(sum, ls)
<1>1. Bytes(ls) = f[Len(ls)]
      BY DEF Bytes, Sums
<1>2. Len(ls) \in Nat /\ pos[0] = 0 /\ pos \in [0 .. Len(ls) -> Nat]
      BY LenProperties DEF Adds
<1>3. Sums(pos, ls)
  <2>1. ASSUME NEW n \in 0 .. Len(ls)
        PROVE  pos[n] = IF n = 0 THEN 0 ELSE pos[n - 1] + Len(ls[n]) + 1
    <3>1. CASE n = 0
          BY <1>2, <3>1
    <3>2. CASE n # 0
      <4>1. n \in 1 .. Len(ls)
            BY <1>2, <3>2
      <4> QED  BY <3>2, <4>1 DEF Adds
    <3> QED  BY <3>1, <3>2
  <2> QED  BY <1>2, <2>1 DEF Sums
<1>4. Sums(f, ls)
      BY <1>3
<1> HIDE DEF f
<1> DEFINE T == {n \in Nat : n <= Len(ls) => f[n] = pos[n]}
<1>5. 0 \in T
      BY <1>2, <1>4 DEF Sums
<1>6. ASSUME NEW n \in Nat, n \in T  PROVE n + 1 \in T
  <2> SUFFICES ASSUME n + 1 <= Len(ls)  PROVE f[n + 1] = pos[n + 1]
      OBVIOUS
  <2>1. /\ n + 1 \in 0 .. Len(ls) /\ n + 1 \in 1 .. Len(ls) /\ (n + 1) - 1 = n
        /\ n + 1 # 0 /\ n <= Len(ls)
        BY <1>2
  <2>2. f[n] = pos[n]
        BY <1>6, <2>1
  <2>3. f[n + 1] = f[(n + 1) - 1] + Len(ls[n + 1]) + 1
        BY <1>4, <2>1 DEF Sums
  <2>4. pos[n + 1] = pos[(n + 1) - 1] + Len(ls[n + 1]) + 1
        BY <2>1 DEF Adds
  <2> QED  BY <2>1, <2>2, <2>3, <2>4
<1> HIDE DEF T
<1>7. \A n \in Nat : n \in T
      BY <1>5, <1>6, Induction
<1>8. f[Len(ls)] = pos[Len(ls)]
      BY <1>2, <1>7 DEF T
<1> QED  BY <1>1, <1>8

LEMMA LinesSeq ==
    ASSUME NEW ent \in Seq(Lines)
    PROVE  /\ Len(ent) \in Nat /\ ent \in Seq(Seq(Chars))
           /\ \A i \in 1 .. Len(ent) : ent[i] \in Lines /\ Len(ent[i]) \in Nat
<1>1. Lines \subseteq Seq(Chars)
      BY DEF Lines
<1>2. Len(ent) \in Nat /\ ent \in Seq(Seq(Chars))
      BY <1>1, SeqMonotonic, LenProperties
<1>3. ASSUME NEW i \in 1 .. Len(ent)  PROVE ent[i] \in Lines /\ Len(ent[i]) \in Nat
  <2>1. ent[i] \in Lines
        BY ElementOfSeq
  <2> QED  BY <2>1, LinesAre, LenProperties
<1> QED  BY <1>2, <1>3

\* hist_get returns the lines that were entered, uncut.
LEMMA HistoryReads ==
    ASSUME entered \in Seq(Lines), NEW ls, NEW pos, Keeps(h, entered, ls, pos),
           NEW i \in 0 .. h.lines - 1
    PROVE  /\ hist_get(i) = ls[i + 1] /\ hist_get(i) \in Lines
           /\ hist_get(i) = entered[Len(entered) - Len(ls) + (i + 1)]
           /\ Recalled(i) = hist_get(i)
<1>1. /\ Holds(h.buf, ls, pos) /\ ls \in Seq(Seq(Chars)) /\ Len(ls) \in Nat
      /\ h.lines = Len(ls)
      BY KeepsIs
<1>2. /\ i \in 0 .. Len(ls) - 1 /\ i + 1 \in 1 .. Len(ls)
      /\ Len(ls) <= Len(entered) /\ Len(entered) \in Nat
      BY <1>1, LinesSeq DEF Keeps
<1>3. hist_get(i) = ls[i + 1]
  <2> DEFINE buf == h.buf
  <2>1. Holds(buf, ls, pos)
        BY <1>1
  <2> HIDE DEF buf
  <2>2. SubSeq(buf, LineStart(buf, i) + 1, LineStart(buf, i + 1) - 1) = ls[i + 1]
        BY <1>2, <2>1, LineIs
  <2> QED  BY <2>2 DEF hist_get, buf
<1>4. ls[i + 1] = entered[Len(entered) - Len(ls) + (i + 1)]
      BY <1>2 DEF Keeps
<1>5. hist_get(i) \in Lines
  <2>1. Len(entered) - Len(ls) + (i + 1) \in 1 .. Len(entered)
        BY <1>1, <1>2
  <2> QED  BY <1>3, <1>4, <2>1, LinesSeq
<1>6. Recalled(i) = hist_get(i)
  <2> DEFINE line == hist_get(i)
  <2>1. line \in Seq(Chars) /\ Len(line) \in Nat /\ Len(line) <= LineSize - 1
        BY <1>5, LinesAre, LenProperties
  <2> HIDE DEF line
  <2>2. Min({LineSize - 1, Len(line)}) = Len(line)
    <3>1. LineSize - 1 \in Int /\ Len(line) \in Int
          BY <2>1, Constants
    <3>2. Min({LineSize - 1, Len(line)})
              = IF LineSize - 1 <= Len(line) THEN LineSize - 1 ELSE Len(line)
          BY <3>1, MinOfTwo
    <3> QED  BY <2>1, <3>1, <3>2
  <2>3. SubSeq(line, 1, Len(line)) = line
        BY <2>1, SubSeqFull
  <2> QED  BY <2>2, <2>3 DEF Recalled, line
<1> QED  BY <1>3, <1>4, <1>5, <1>6

LEMMA LastIsLast ==
    ASSUME entered \in Seq(Lines), Recent(h, entered), h.lines > 0
    PROVE  hist_get(h.lines - 1) = Last(entered)
<1>1. PICK ls, pos : Keeps(h, entered, ls, pos)
      BY DEF Recent
<1>2. Len(ls) \in Nat /\ h.lines = Len(ls) /\ Len(entered) \in Nat
      BY <1>1, KeepsIs, LinesSeq
<1>3. h.lines - 1 \in 0 .. h.lines - 1
      BY <1>2
<1>4. hist_get(h.lines - 1) = entered[Len(entered) - Len(ls) + ((h.lines - 1) + 1)]
      BY <1>1, <1>3, HistoryReads
<1>5. Len(entered) - Len(ls) + ((h.lines - 1) + 1) = Len(entered)
      BY <1>2
<1> QED  BY <1>4, <1>5 DEF Last

\* What the buffer is like when it holds recent lines.
LEMMA RecentType ==
    ASSUME NEW hist, NEW ent, Recent(hist, ent)
    PROVE  /\ hist.buf \in Seq(Text) /\ Len(hist.buf) <= HistSize /\ hist.lines \in Nat
           /\ hist.lines = Cardinality({p \in 1 .. Len(hist.buf) : hist.buf[p] = Nul})
           /\ hist.lines > 0 => Last(hist.buf) = Nul
<1>1. PICK ls, pos : Keeps(hist, ent, ls, pos)
      BY DEF Recent
<1>2. /\ Holds(hist.buf, ls, pos) /\ Len(ls) \in Nat /\ hist.lines = Len(ls)
      /\ pos[Len(ls)] = Len(hist.buf)
      BY <1>1, KeepsIs
<1>3. hist.buf \in Seq(Text) /\ Len(hist.buf) <= HistSize
      BY <1>1, <1>2 DEF Keeps, Holds
<1>4. Cardinality({p \in 1 .. Len(hist.buf) : hist.buf[p] = Nul}) = Len(ls)
  <2> DEFINE buf == hist.buf
  <2>1. Holds(buf, ls, pos)
        BY <1>2
  <2> HIDE DEF buf
  <2>2. Cardinality({p \in 1 .. Len(buf) : buf[p] = Nul}) = Len(ls)
        BY <2>1, CountOfLines
  <2> QED  BY <2>2 DEF buf
<1>5. ASSUME hist.lines > 0  PROVE Last(hist.buf) = Nul
  <2>1. Len(ls) \in 1 .. Len(ls)
        BY <1>2, <1>5
  <2>2. hist.buf[pos[Len(ls)]] = Nul
        BY <1>2, <2>1 DEF Holds
  <2> QED  BY <1>2, <2>2 DEF Last
<1> QED  BY <1>2, <1>3, <1>4, <1>5

LEMMA RecentIsRecent ==
    ASSUME entered \in Seq(Lines), Recent(h, entered)
    PROVE  HistoryIsRecent
<1> DEFINE kept == [i \in 1 .. h.lines |-> hist_get(i - 1)]
           recent(n) == SubSeq(entered, Len(entered) - n + 1, Len(entered))
           N == Len(entered)
<1>1. PICK ls, pos : Keeps(h, entered, ls, pos)
      BY DEF Recent
<1>2. /\ ls \in Seq(Seq(Chars)) /\ Len(ls) \in Nat /\ h.lines = Len(ls)
      /\ pos[Len(ls)] = Len(h.buf) /\ Len(h.buf) \in Nat /\ Adds(pos, ls)
      BY <1>1, KeepsIs DEF Holds
<1>3. /\ N \in Nat /\ entered \in Seq(Seq(Chars)) /\ Len(ls) <= N
      /\ \A i \in 1 .. N : Len(entered[i]) \in Nat
      /\ \A k \in 1 .. Len(ls) : ls[k] = entered[N - Len(ls) + k]
      /\ Len(ls) < N => Len(h.buf) + Len(entered[N - Len(ls)]) + 1 > HistSize
      BY <1>1, LinesSeq DEF Keeps
<1>4. kept = ls
  <2>1. ASSUME NEW i \in 1 .. Len(ls)  PROVE hist_get(i - 1) = ls[i]
    <3>1. i - 1 \in 0 .. h.lines - 1 /\ (i - 1) + 1 = i
          BY <1>2
    <3> QED  BY <1>1, <3>1, HistoryReads
  <2>2. ls = [i \in 1 .. Len(ls) |-> ls[i]]
        BY <1>2, LenProperties
  <2> QED  BY <1>2, <2>1, <2>2
<1>5. recent(Len(ls)) = ls
  <2>1. N - Len(ls) + 1 \in 1 .. N + 1 /\ N \in 0 .. N
        BY <1>2, <1>3
  <2>2. /\ recent(Len(ls)) \in Seq(Seq(Chars))
        /\ Len(recent(Len(ls)))
              = IF N - Len(ls) + 1 <= N THEN N - (N - Len(ls) + 1) + 1 ELSE 0
        /\ \A i \in 1 .. N - (N - Len(ls) + 1) + 1 :
              recent(Len(ls))[i] = entered[N - Len(ls) + 1 + i - 1]
        BY <1>3, <2>1, PartOf
  <2>3. Len(recent(Len(ls))) = Len(ls) /\ N - (N - Len(ls) + 1) + 1 = Len(ls)
        BY <1>2, <1>3, <2>2
  <2>4. ASSUME NEW i \in 1 .. Len(ls)  PROVE recent(Len(ls))[i] = ls[i]
    <3>1. N - Len(ls) + 1 + i - 1 = N - Len(ls) + i
          BY <1>2, <1>3
    <3>2. recent(Len(ls))[i] = entered[N - Len(ls) + 1 + i - 1]
          BY <2>2, <2>3
    <3> QED  BY <1>3, <3>1, <3>2
  <2> HIDE DEF recent
  <2> QED  BY <1>2, <2>2, <2>3, <2>4, SeqEqual
<1>6. ASSUME Len(ls) < N  PROVE Bytes(recent(Len(ls) + 1)) > HistSize
  <2> DEFINE more == recent(Len(ls) + 1)
             first == entered[N - Len(ls)]
             q == [k \in 0 .. Len(ls) + 1 |-> IF k = 0 THEN 0 ELSE pos[k - 1] + Len(first) + 1]
  <2>1. /\ N - (Len(ls) + 1) + 1 = N - Len(ls) /\ N - Len(ls) \in 1 .. N
        /\ N - Len(ls) \in 1 .. N + 1 /\ N \in 0 .. N
        BY <1>2, <1>3, <1>6
  <2>2. /\ more \in Seq(Seq(Chars)) /\ Len(more) = Len(ls) + 1
        /\ \A k \in 1 .. Len(ls) + 1 : more[k] = entered[N - Len(ls) + k - 1]
    <3>1. /\ more \in Seq(Seq(Chars))
          /\ Len(more) = IF N - Len(ls) <= N THEN N - (N - Len(ls)) + 1 ELSE 0
          /\ \A k \in 1 .. N - (N - Len(ls)) + 1 : more[k] = entered[N - Len(ls) + k - 1]
          BY <1>3, <2>1, PartOf
    <3> HIDE DEF more
    <3>2. Len(more) = Len(ls) + 1 /\ N - (N - Len(ls)) + 1 = Len(ls) + 1
          BY <1>2, <1>3, <3>1
    <3> QED  BY <3>1, <3>2
  <2> HIDE DEF more
  <2>3. Len(first) \in Nat
        BY <1>3, <2>1
  <2>4. /\ more[1] = first
        /\ \A k \in 2 .. Len(ls) + 1 : more[k] = ls[k - 1] /\ k - 1 \in 1 .. Len(ls)
    <3>1. 1 \in 1 .. Len(ls) + 1 /\ N - Len(ls) + 1 - 1 = N - Len(ls)
          BY <1>2, <1>3
    <3>2. ASSUME NEW k \in 2 .. Len(ls) + 1
          PROVE  more[k] = ls[k - 1] /\ k - 1 \in 1 .. Len(ls)
      <4>1. /\ k \in 1 .. Len(ls) + 1 /\ k - 1 \in 1 .. Len(ls)
            /\ N - Len(ls) + k - 1 = N - Len(ls) + (k - 1)
            BY <1>2, <1>3
      <4> QED  BY <1>3, <2>2, <4>1
    <3> QED  BY <2>2, <3>1, <3>2
  <2> HIDE DEF first
  <2>5. pos \in [0 .. Len(ls) -> Nat] /\ pos[0] = 0
        /\ \A k \in 1 .. Len(ls) : pos[k] = pos[k - 1] + Len(ls[k]) + 1
        BY <1>2 DEF Adds
  <2>6. q \in [0 .. Len(more) -> Nat] /\ q[0] = 0
    <3>1. ASSUME NEW k \in 0 .. Len(ls) + 1, k # 0  PROVE pos[k - 1] + Len(first) + 1 \in Nat
      <4>1. k - 1 \in 0 .. Len(ls)
            BY <1>2, <3>1
      <4>2. pos[k - 1] \in Nat
            BY <2>5, <4>1
      <4> QED  BY <2>3, <4>2
    <3> QED  BY <1>2, <2>2, <3>1
  <2>7. ASSUME NEW k \in 1 .. Len(more)  PROVE q[k] = q[k - 1] + Len(more[k]) + 1
    <3>1. k \in 1 .. Len(ls) + 1 /\ k \in 0 .. Len(ls) + 1 /\ k - 1 \in 0 .. Len(ls) + 1 /\ k # 0
          BY <1>2, <2>2
    <3>2. q[k] = pos[k - 1] + Len(first) + 1
          BY <3>1
    <3>3. CASE k = 1
      <4>1. k - 1 = 0 /\ q[k - 1] = 0 /\ pos[k - 1] = 0
            BY <2>5, <2>6, <3>3
      <4> HIDE DEF q
      <4> QED  BY <2>3, <2>4, <3>2, <3>3, <4>1
    <3>4. CASE k # 1
      <4>1. k \in 2 .. Len(ls) + 1 /\ k - 1 # 0
            BY <1>2, <3>1, <3>4
      <4>2. q[k - 1] = pos[(k - 1) - 1] + Len(first) + 1
            BY <3>1, <4>1
      <4>3. more[k] = ls[k - 1] /\ k - 1 \in 1 .. Len(ls)
            BY <2>4, <4>1
      <4>4. pos[k - 1] = pos[(k - 1) - 1] + Len(more[k]) + 1
            BY <2>5, <4>3
      <4> DEFINE a == pos[(k - 1) - 1]
                 E == Len(more[k])
      <4>5. a \in Nat /\ E \in Nat
        <5>1. (k - 1) - 1 \in 0 .. Len(ls)
              BY <1>2, <4>3
        <5>2. E \in Nat
              BY <1>2, <4>3, LineLength
        <5> QED  BY <2>5, <5>1, <5>2
      <4> HIDE DEF q, a, E
      <4>6. q[k] = (a + E + 1) + Len(first) + 1 /\ q[k - 1] = a + Len(first) + 1
            BY <3>2, <4>2, <4>4 DEF a, E
      <4>7. q[k] = q[k - 1] + E + 1
            BY <2>3, <4>5, <4>6
      <4> QED  BY <4>7 DEF E
    <3> QED  BY <3>3, <3>4
  <2>8. q[Len(more)] = Len(h.buf) + Len(first) + 1
    <3>1. /\ Len(ls) + 1 \in 0 .. Len(ls) + 1 /\ Len(ls) + 1 # 0 /\ (Len(ls) + 1) - 1 = Len(ls)
          BY <1>2
    <3> QED  BY <1>2, <2>2, <3>1
  <2> HIDE DEF q
  <2>9. Adds(q, more)
        BY <2>6, <2>7 DEF Adds
  <2>10. Bytes(more) = Len(h.buf) + Len(first) + 1
         BY <2>2, <2>8, <2>9, BytesAre
  <2>11. Len(h.buf) + Len(first) + 1 > HistSize
         BY <1>3, <1>6 DEF first
  <2> QED  BY <2>10, <2>11 DEF more
<1> HIDE DEF kept
<1>7. /\ Len(kept) <= Len(entered) /\ kept = recent(Len(kept))
      /\ Len(kept) < Len(entered) => Bytes(recent(Len(kept) + 1)) > HistSize
      BY <1>3, <1>4, <1>5, <1>6
<1>8. Len(h.buf) <= HistSize
      BY RecentType
<1> QED  BY <1>7, <1>8 DEF HistoryIsRecent, kept

-----------------------------------------------------------------------------
(* The history that shell_task begins with                                 *)

\* f is the recursive function of FirstHistory, as far as line n.
Firsts(f, n) ==
    f = [k \in 0 .. n |-> IF k = 0 THEN [buf |-> <<>>, lines |-> 0]
                          ELSE hist_add(f[k - 1], FirstLines[k])]

LEMMA FirstLinesAre ==
    /\ FirstLines \in Seq(Lines) /\ Len(FirstLines) \in Nat \ {0}
    /\ \A i \in 1 .. Len(FirstLines) :
          FirstLines[i] \in Lines /\ Len(FirstLines[i]) < LineSize - 1
    /\ LineSize - 1 > 0
<1>1. FirstLines \in Seq(Seq(Chars)) /\ Len(FirstLines) \in Nat \ {0}
      BY ReadlineAssumption, EmptySeq
<1>2. ASSUME NEW i \in 1 .. Len(FirstLines)
      PROVE  FirstLines[i] \in Lines /\ Len(FirstLines[i]) < LineSize - 1 /\ LineSize - 1 > 0
  <2>1. FirstLines[i] \in Seq(Chars)
        BY <1>1, ElementOfSeq
  <2>2. Len(FirstLines[i]) \in 1 .. LineSize - 2 /\ LineSize \in Nat
        BY ReadlineAssumption
  <2>3. /\ Len(FirstLines[i]) <= LineSize - 1 /\ Len(FirstLines[i]) < LineSize - 1
        /\ LineSize - 1 > 0
        BY <2>2
  <2> QED  BY <2>1, <2>3, LinesAre
<1>3. SubSeq(FirstLines, 1, Len(FirstLines)) = FirstLines
      BY <1>1, SubSeqFull
<1>4. SubSeq(FirstLines, 1, Len(FirstLines)) \in Seq(Lines)
  <2>1. 1 \in Int /\ Len(FirstLines) \in Int
        BY <1>1
  <2> QED  BY <1>2, <2>1, SubSeqProperties
<1>5. 1 \in 1 .. Len(FirstLines)
      BY <1>1
<1> QED  BY <1>1, <1>2, <1>3, <1>4, <1>5

LEMMA FirstsExist ==
    ASSUME NEW n \in 0 .. Len(FirstLines)
    PROVE  \E f : Firsts(f, n)
<1> DEFINE T == {m \in Nat : \E f : Firsts(f, m)}
           e == [buf |-> <<>>, lines |-> 0]
<1>1. 0 \in T
  <2> DEFINE f == [k \in {0} |-> e]
  <2>1. 0 .. 0 = {0}
        OBVIOUS
  <2>2. Firsts(f, 0)
        BY <2>1 DEF Firsts
  <2> QED  BY <2>2
<1>2. ASSUME NEW m \in Nat, m \in T  PROVE m + 1 \in T
  <2>1. PICK f : Firsts(f, m)
        BY <1>2
  <2> DEFINE g == [k \in 0 .. m + 1 |-> IF k = m + 1 THEN hist_add(f[m], FirstLines[m + 1])
                                        ELSE f[k]]
  <2>2. ASSUME NEW k \in 0 .. m + 1
        PROVE  (IF k = m + 1 THEN hist_add(f[m], FirstLines[m + 1]) ELSE f[k])
                  = IF k = 0 THEN e ELSE hist_add(g[k - 1], FirstLines[k])
    <3>1. CASE k = m + 1
      <4>1. k # 0 /\ k - 1 = m /\ k - 1 \in 0 .. m + 1 /\ k - 1 # m + 1
            BY <3>1
      <4>2. g[k - 1] = f[m]
            BY <4>1
      <4> HIDE DEF g
      <4> QED  BY <3>1, <4>1, <4>2
    <3>2. CASE k # m + 1 /\ k # 0
      <4>1. k \in 0 .. m /\ k - 1 \in 0 .. m + 1 /\ k - 1 # m + 1
            BY <3>2
      <4>2. g[k - 1] = f[k - 1]
            BY <4>1
      <4>3. f[k] = hist_add(f[k - 1], FirstLines[k])
            BY <2>1, <3>2, <4>1 DEF Firsts
      <4> HIDE DEF g
      <4> QED  BY <3>2, <4>2, <4>3
    <3>3. CASE k = 0
      <4>1. k \in 0 .. m /\ k # m + 1
            BY <3>3
      <4>2. f[k] = e
            BY <2>1, <3>3, <4>1 DEF Firsts
      <4> HIDE DEF g, e
      <4> QED  BY <3>3, <4>1, <4>2
    <3> HIDE DEF g, e
    <3> QED  BY <3>1, <3>2, <3>3
  <2>3. Firsts(g, m + 1)
        BY <2>2 DEF Firsts
  <2> HIDE DEF g
  <2> QED  BY <2>3
<1> HIDE DEF T
<1>3. \A m \in Nat : m \in T
      BY <1>1, <1>2, Induction
<1>4. n \in Nat
      OBVIOUS
<1> QED  BY <1>3, <1>4 DEF T

\* An empty history.
LEMMA NothingYet == Recent([buf |-> <<>>, lines |-> 0], <<>>)
<1> DEFINE pos == [k \in {0} |-> 0]
           hist == [buf |-> <<>>, lines |-> 0]
<1>1. Len(<<>>) = 0 /\ <<>> \in Seq(Seq(Chars)) /\ <<>> \in Seq(Text) /\ HistSize >= 0
      BY EmptySeq, Constants
<1>2. 0 .. 0 = {0} /\ 1 .. 0 = {}
      OBVIOUS
<1>3. Adds(pos, <<>>)
  <2>1. pos \in [{0} -> Nat] /\ pos[0] = 0
        OBVIOUS
  <2> HIDE DEF pos
  <2> QED  BY <1>1, <1>2, <2>1 DEF Adds
<1>4. pos[0] = 0
      OBVIOUS
<1> HIDE DEF pos
<1>5. Holds(<<>>, <<>>, pos)
      BY <1>1, <1>2, <1>3, <1>4 DEF Holds
<1>6. hist.buf = <<>> /\ hist.lines = 0
      OBVIOUS
<1> HIDE DEF hist
<1>7. Keeps(hist, <<>>, <<>>, pos)
      BY <1>1, <1>2, <1>5, <1>6 DEF Keeps
<1>8. Recent(hist, <<>>)
      BY <1>7 DEF Recent
<1> QED  BY <1>8 DEF hist

LEMMA FirstRecent == Recent(FirstHistory, FirstLines) /\ FirstHistory.lines \in Nat \ {0}
<1> DEFINE N == Len(FirstLines)
           f == CHOOSE hist : Firsts(hist, N)
           upto(n) == SubSeq(FirstLines, 1, n)
<1>1. FirstHistory = f[N]
      BY DEF FirstHistory, Firsts
<1>2. FirstLines \in Seq(Lines) /\ N \in Nat \ {0} /\ \A i \in 1 .. N : FirstLines[i] \in Lines
      BY FirstLinesAre
<1>3. Firsts(f, N)
  <2>1. N \in 0 .. N
        BY <1>2
  <2>2. \E hist : Firsts(hist, N)
        BY <2>1, FirstsExist
  <2> QED  BY <2>2
<1> HIDE DEF f
<1> DEFINE T == {n \in Nat : n <= N => /\ Recent(f[n], upto(n))
                                       /\ n > 0 => f[n].lines \in Nat \ {0}}
<1>4. 0 \in T
  <2>1. upto(0) = <<>>
        BY SubSeqEmpty
  <2>2. f[0] = [buf |-> <<>>, lines |-> 0]
    <3>1. 0 \in 0 .. N
          BY <1>2
    <3> QED  BY <1>3, <3>1 DEF Firsts
  <2> HIDE DEF upto
  <2> QED  BY <2>1, <2>2, NothingYet
<1>5. ASSUME NEW n \in Nat, n \in T  PROVE n + 1 \in T
  <2> SUFFICES ASSUME n + 1 <= N
               PROVE  Recent(f[n + 1], upto(n + 1)) /\ f[n + 1].lines \in Nat \ {0}
      OBVIOUS
  <2>1. /\ n + 1 \in 0 .. N /\ n + 1 \in 1 .. N /\ n + 1 # 0 /\ (n + 1) - 1 = n /\ n <= N
        /\ n \in 0 .. N /\ 1 \in 1 .. N /\ 1 \in 1 .. N + 1 /\ n + 1 \in 1 .. N
        BY <1>2
  <2>2. Recent(f[n], upto(n))
        BY <1>5, <2>1
  <2>3. f[n + 1] = hist_add(f[n], FirstLines[n + 1])
    <3>1. f[n + 1] = hist_add(f[(n + 1) - 1], FirstLines[n + 1])
          BY <1>3, <2>1 DEF Firsts
    <3> QED  BY <2>1, <3>1
  <2>4. upto(n) \in Seq(Lines)
        BY <1>2, <2>1, PartOf
  <2>5. FirstLines[n + 1] \in Lines
        BY <1>2, <2>1
  <2>6. upto(n + 1) = Append(upto(n), FirstLines[n + 1])
    <3>1. SubSeq(FirstLines, 1, n + 1) = SubSeq(FirstLines, 1, (n + 1) - 1) \o <<FirstLines[n + 1]>>
          BY <1>2, <2>1, SubSeqRecursiveSecond
    <3>2. upto(n + 1) = upto(n) \o <<FirstLines[n + 1]>>
          BY <2>1, <3>1
    <3> HIDE DEF upto
    <3> QED  BY <2>4, <2>5, <3>2, AppendIsConcat
  <2> HIDE DEF upto
  <2> QED  BY <2>2, <2>3, <2>4, <2>5, <2>6, AddKeeps
<1> HIDE DEF T
<1>6. \A n \in Nat : n \in T
      BY <1>4, <1>5, Induction
<1>7. Recent(f[N], upto(N)) /\ f[N].lines \in Nat \ {0}
      BY <1>2, <1>6 DEF T
<1>8. upto(N) = FirstLines
      BY <1>2, SubSeqFull
<1> QED  BY <1>1, <1>7, <1>8

-----------------------------------------------------------------------------
(* The invariant                                                           *)

RInv ==
    /\ s \in Lines /\ cursor \in 0 .. Len(s) /\ hline \in 0 .. h.lines
    /\ Shows(term, s, cursor)
    /\ h.lines \in Nat \ {0} /\ entered \in Seq(Lines) /\ Recent(h, entered)
    /\ last \in {"nul", "old", "moved"} /\ overrun \in BOOLEAN
    /\ Len(s) = LineSize - 1 => last = "nul"
    /\ last = "old" => \A k \in 1 .. Len(entered) : Len(entered[k]) < LineSize - 1

\* What every key but the completion has to show.
Safe == RInv' /\ (overrun' => last = "moved")

LEMMA InvariantImplies == RInv => TypeOK /\ ScreenShowsLine /\ HistoryIsRecent
<1> SUFFICES ASSUME RInv  PROVE TypeOK /\ ScreenShowsLine /\ HistoryIsRecent
    OBVIOUS
<1>1. TypeOK
  <2>1. /\ h.buf \in Seq(Text) /\ Len(h.buf) <= HistSize
        /\ h.lines = Cardinality({p \in 1 .. Len(h.buf) : h.buf[p] = Nul})
        /\ h.lines > 0 => Last(h.buf) = Nul
        BY RecentType DEF RInv
  <2>2. h.lines > 0
        BY DEF RInv
  <2> QED  BY <2>1, <2>2 DEF RInv, TypeOK, Text, Shows, Terms, Glyphs
<1>2. ScreenShowsLine
      BY DEF RInv, Shows, ScreenShowsLine
<1>3. HistoryIsRecent
      BY RecentIsRecent DEF RInv
<1> QED  BY <1>1, <1>2, <1>3

LEMMA StoreKeeps ==
    ASSUME RInv, NEW top \in Int, NEW line \in Lines, NEW cur \in 0 .. Len(line),
           NEW hl \in 0 .. h.lines, NEW t, Shows(t, line, cur),
           Store(top, line, cur, hl, t)
    PROVE  RInv' /\ (top < LineSize => overrun' = FALSE)
<1>1. h' = h /\ entered' = entered /\ overrun = FALSE
  <2>1. overrun \in BOOLEAN
        BY DEF RInv
  <2> QED  BY <2>1 DEF Store
<1>2. CASE top < LineSize
  <2>1. /\ s' = line /\ cursor' = cur /\ hline' = hl /\ term' = t /\ overrun' = overrun
        /\ last' \in IF Len(line) = LineSize - 1 THEN {"nul"}
                     ELSE IF top = LineSize - 1 THEN {"nul", "moved"} ELSE {last}
        BY <1>2 DEF Store
  <2>2. /\ last' \in {"nul", "moved", last}
        /\ Len(line) = LineSize - 1 => last' = "nul"
        BY <2>1
  <2>3. /\ last' \in {"nul", "old", "moved"}
        /\ last' = "old" => \A k \in 1 .. Len(entered) : Len(entered[k]) < LineSize - 1
        BY <2>2 DEF RInv
  <2> QED  BY <1>1, <2>1, <2>2, <2>3 DEF RInv
<1>3. CASE ~ (top < LineSize)
  <2>1. overrun' = TRUE /\ UNCHANGED <<s, last, cursor, hline, term>>
        BY <1>3 DEF Store
  <2> QED  BY <1>1, <1>3, <2>1 DEF RInv
<1> QED  BY <1>2, <1>3

\* A key that sets the line stays in the buffer.
LEMMA EditSafe ==
    ASSUME RInv, NEW line \in Lines, NEW cur \in 0 .. Len(line),
           NEW hl \in 0 .. h.lines, NEW t, Shows(t, line, cur), Edit(line, cur, hl, t)
    PROVE  Safe
<1>1. Len(line) \in Int /\ Len(line) < LineSize
  <2>1. Len(line) \in Nat /\ Len(line) <= LineSize - 1 /\ LineSize \in Nat
        BY LinesAre, LenProperties, Constants
  <2> QED  BY <2>1
<1>2. Store(Len(line), line, cur, hl, t)
      BY DEF Edit
<1>3. RInv' /\ overrun' = FALSE
      BY <1>1, <1>2, StoreKeeps
<1> QED  BY <1>3 DEF Safe

LEMMA ReprintTerm ==
    ASSUME NEW t, NEW old, NEW pl, Shows(t, old, pl),
           NEW line \in Lines, NEW cur \in 0 .. Len(line)
    PROVE  /\ Shows(Reprint(t, line, cur), line, cur)
           /\ Shows(Reprint(NewRow(t), line, cur), line, cur)
<1>1. t \in [row : {t.row}, col : {t.col}, insert : {TRUE}]
      BY DEF Shows, Terms
<1>2. t = [row |-> t.row, col |-> t.col, insert |-> TRUE]
      BY <1>1, TermIs
<1>3. NewRow(t) = [row |-> Fit(<<>>), col |-> 0, insert |-> TRUE]
  <2>1. NewRow(t) \in [row : {Fit(<<>>)}, col : {0}, insert : {TRUE}]
        BY <1>1 DEF NewRow
  <2> QED  BY <2>1, TermIs
<1>4. Shows(Reprint([row |-> t.row, col |-> t.col, insert |-> TRUE], line, cur), line, cur)
      BY ReprintShows
<1>5. Shows(Reprint([row |-> Fit(<<>>), col |-> 0, insert |-> TRUE], line, cur), line, cur)
      BY ReprintShows
<1> QED  BY <1>2, <1>3, <1>4, <1>5

LEMMA PromptedShows ==
    ASSUME NEW r, NEW p
    PROVE  Shows(Prompted([row |-> r, col |-> p, insert |-> FALSE]), <<>>, 0)
<1> DEFINE t == [row |-> r, col |-> p, insert |-> FALSE]
<1>1. [t EXCEPT !.insert = TRUE] = [row |-> r, col |-> p, insert |-> TRUE]
  <2>1. t \in [row : {r}, col : {p}, insert : {FALSE}]
        OBVIOUS
  <2>2. [t EXCEPT !.insert = TRUE] \in [row : {r}, col : {p}, insert : {TRUE}]
        BY <2>1
  <2> QED  BY <2>2, TermIs
<1>2. <<>> \in Lines /\ 0 \in 0 .. Len(<<>>)
      BY EmptyLine
<1>3. Shows(Reprint([row |-> r, col |-> p, insert |-> TRUE], <<>>, 0), <<>>, 0)
      BY <1>2, ReprintShows
<1> QED  BY <1>1, <1>3 DEF Prompted

\* The lines that can be recalled.
LEMMA RecalledLine ==
    ASSUME RInv, NEW i \in 0 .. h.lines - 1
    PROVE  Recalled(i) \in Lines /\ Recalled(i) = hist_get(i) /\ Len(Recalled(i)) \in Nat
<1>1. PICK ls, pos : Keeps(h, entered, ls, pos)
      BY DEF RInv, Recent
<1>2. hist_get(i) \in Lines /\ Recalled(i) = hist_get(i)
      BY <1>1, HistoryReads DEF RInv
<1> QED  BY <1>2, LinesAre, LenProperties

\* A recalled line of full length has a terminator, unless a completion has
\* moved a byte to its place: when that line was typed, "nul" was stored there.
LEMMA RecallSafe ==
    ASSUME RInv, NEW i \in 0 .. h.lines - 1, NEW cur \in 0 .. Len(Recalled(i)),
           Recall(i, cur)
    PROVE  Safe
<1> DEFINE line == Recalled(i)
           t    == Reprint(term, line, cur)
<1>1. line \in Lines /\ Len(line) \in Nat /\ Len(line) <= LineSize - 1
      BY RecalledLine, LinesAre
<1>2. EndOf(i) = IF Len(line) = LineSize - 1 /\ last # "nul" THEN LineSize ELSE Len(line)
      BY DEF EndOf
<1>3. Store(EndOf(i), line, cur, i, t)
      BY DEF Recall, Replace
<1>4. ASSUME last = "old"  PROVE Len(line) # LineSize - 1
  <2>1. PICK ls, pos : Keeps(h, entered, ls, pos)
        BY DEF RInv, Recent
  <2>2. line = entered[Len(entered) - Len(ls) + (i + 1)]
        BY <2>1, HistoryReads DEF RInv
  <2>3. Len(entered) - Len(ls) + (i + 1) \in 1 .. Len(entered)
    <3>1. Len(ls) \in Nat /\ h.lines = Len(ls) /\ Len(ls) <= Len(entered) /\ Len(entered) \in Nat
          BY <2>1, KeepsIs, LinesSeq DEF RInv, Keeps
    <3> QED  BY <3>1
  <2>4. Len(line) < LineSize - 1
    <3> HIDE DEF line
    <3> QED  BY <1>4, <2>2, <2>3 DEF RInv
  <2> HIDE DEF line
  <2> QED  BY <1>1, <2>4, Constants
<1>5. cur \in 0 .. Len(line) /\ i \in 0 .. h.lines
      BY DEF RInv
<1> HIDE DEF line
<1>6. Shows(t, line, cur)
      BY <1>1, <1>5, ReprintTerm DEF RInv
<1> HIDE DEF t
<1>7. EndOf(i) \in Int /\ (last # "moved" => EndOf(i) < LineSize)
  <2>1. LineSize \in Nat /\ last \in {"nul", "old", "moved"}
        BY Constants DEF RInv
  <2>2. EndOf(i) \in {LineSize, Len(line)}
        BY <1>2
  <2>3. last # "moved" => EndOf(i) = Len(line)
        BY <1>2, <1>4, <2>1
  <2> QED  BY <1>1, <2>1, <2>2, <2>3
<1>8. RInv' /\ (EndOf(i) < LineSize => overrun' = FALSE)
      BY <1>1, <1>3, <1>5, <1>6, <1>7, StoreKeeps
<1> QED  BY <1>7, <1>8 DEF Safe

LEMMA LengthOfLine ==
    ASSUME RInv
    PROVE  /\ Len(s) \in Nat /\ s \in Seq(Chars) /\ cursor \in Nat /\ cursor <= Len(s)
           /\ Len(s) <= LineSize - 1
<1>1. Len(s) \in Nat /\ s \in Seq(Chars) /\ Len(s) <= LineSize - 1
      BY LinesAre, LenProperties DEF RInv
<1> QED  BY <1>1 DEF RInv

-----------------------------------------------------------------------------
(* One lemma per key                                                       *)

LEMMA ReprintLineSafe == ASSUME RInv, ReprintLine  PROVE Safe
<1>1. Edit(s, cursor, hline, Reprint(term, s, cursor))
      BY DEF ReprintLine, Replace, Edit
<1>2. Shows(Reprint(term, s, cursor), s, cursor)
      BY ReprintTerm DEF RInv
<1> QED  BY <1>1, <1>2, EditSafe DEF RInv

LEMMA PreviousHistorySafe == ASSUME RInv, PreviousHistory  PROVE Safe
<1> DEFINE i == hline - 1
<1>1. hline >= 1 /\ Recall(i, Len(Recalled(i)))
      BY DEF PreviousHistory
<1>2. i \in 0 .. h.lines - 1
      BY <1>1 DEF RInv
<1>3. Len(Recalled(i)) \in 0 .. Len(Recalled(i))
      BY <1>2, RecalledLine
<1> HIDE DEF i
<1> QED  BY <1>1, <1>2, <1>3, RecallSafe

LEMMA NextHistorySafe == ASSUME RInv, NextHistory  PROVE Safe
<1> DEFINE hl == Min({hline + 1, h.lines})
<1>1. hl \in 0 .. h.lines
  <2>1. hline + 1 \in Int /\ h.lines \in Int /\ hline + 1 >= 0 /\ h.lines >= 0
        BY DEF RInv
  <2>2. hl = IF hline + 1 <= h.lines THEN hline + 1 ELSE h.lines
        BY <2>1, MinOfTwo
  <2> HIDE DEF hl
  <2> QED  BY <2>1, <2>2
<1>2. CASE hl = h.lines
  <2>1. Replace(0, <<>>, 0, hl)
        BY <1>2 DEF NextHistory
  <2> HIDE DEF hl
  <2>2. <<>> \in Lines /\ Len(<<>>) = 0 /\ 0 \in 0 .. Len(<<>>)
        BY EmptyLine
  <2>3. Shows(Reprint(term, <<>>, 0), <<>>, 0)
        BY <2>2, ReprintTerm DEF RInv
  <2>4. Edit(<<>>, 0, hl, Reprint(term, <<>>, 0))
        BY <2>1, <2>2 DEF Replace, Edit
  <2> QED  BY <1>1, <2>2, <2>3, <2>4, EditSafe
<1>3. CASE hl # h.lines
  <2>1. Recall(hl, Len(Recalled(hl)))
        BY <1>3 DEF NextHistory
  <2> HIDE DEF hl
  <2>2. hl \in 0 .. h.lines - 1
        BY <1>1, <1>3 DEF RInv
  <2>3. Len(Recalled(hl)) \in 0 .. Len(Recalled(hl))
        BY <2>2, RecalledLine
  <2> QED  BY <2>1, <2>2, <2>3, RecallSafe
<1> QED  BY <1>2, <1>3

\* A line that begins with the text before the cursor has room for the cursor.
LEMMA FoundLine ==
    ASSUME RInv, NEW i \in Matching
    PROVE  /\ i \in 0 .. h.lines - 1 /\ Recalled(i) \in Lines
           /\ cursor \in 0 .. Len(Recalled(i))
<1>1. i \in 0 .. h.lines - 1 /\ IsPrefix(SubSeq(s, 1, cursor), hist_get(i))
      BY DEF Matching
<1>2. Recalled(i) \in Lines /\ Recalled(i) = hist_get(i) /\ Len(Recalled(i)) \in Nat
      BY <1>1, RecalledLine
<1>3. Len(SubSeq(s, 1, cursor)) = cursor
  <2>1. 1 \in 1 .. Len(s) + 1 /\ cursor \in 0 .. Len(s)
        BY LengthOfLine
  <2>2. Len(SubSeq(s, 1, cursor)) = IF 1 <= cursor THEN cursor - 1 + 1 ELSE 0
        BY <2>1, PartOf, LengthOfLine
  <2> QED  BY <2>2, LengthOfLine
<1>4. cursor <= Len(hist_get(i))
      BY <1>1, <1>3 DEF IsPrefix
<1> QED  BY <1>1, <1>2, <1>4, LengthOfLine

LEMMA ReverseSearchSafe == ASSUME RInv, ReverseSearch  PROVE Safe
<1> DEFINE found == {i \in Matching : i < hline}
           hl == Max(found)
<1>1. found # {} /\ Recall(hl, cursor)
      BY DEF ReverseSearch
<1>2. hl \in found
  <2>1. found \in SUBSET Nat /\ h.lines \in Nat /\ \A x \in found : x <= h.lines
        BY DEF RInv, Matching
  <2> HIDE DEF found
  <2> QED  BY <1>1, <2>1, Greatest
<1> HIDE DEF hl
<1>3. hl \in 0 .. h.lines - 1 /\ cursor \in 0 .. Len(Recalled(hl))
      BY <1>2, FoundLine
<1> QED  BY <1>1, <1>3, RecallSafe

LEMMA ForwardSearchSafe == ASSUME RInv, ForwardSearch  PROVE Safe
<1> DEFINE found == {i \in Matching : i > hline}
           hl == Min(found)
<1>1. found # {} /\ Recall(hl, cursor)
      BY DEF ForwardSearch
<1>2. hl \in found
  <2>1. found \in SUBSET Nat
        BY DEF Matching
  <2> HIDE DEF found
  <2> QED  BY <1>1, <2>1, Least
<1> HIDE DEF hl
<1>3. hl \in 0 .. h.lines - 1 /\ cursor \in 0 .. Len(Recalled(hl))
      BY <1>2, FoundLine
<1> QED  BY <1>1, <1>3, RecallSafe

LEMMA BackwardCharSafe == ASSUME RInv, BackwardChar  PROVE Safe
<1>1. cursor > 0 /\ Edit(s, cursor - 1, hline, Left(term, 1))
      BY DEF BackwardChar
<1>2. 1 \in 1 .. cursor /\ cursor - 1 \in 0 .. Len(s)
      BY <1>1, LengthOfLine
<1>3. Shows(Left(term, 1), s, cursor - 1)
      BY <1>2, LeftShows DEF RInv
<1> QED  BY <1>1, <1>2, <1>3, EditSafe DEF RInv

LEMMA ForwardCharSafe == ASSUME RInv, ForwardChar  PROVE Safe
<1>1. cursor < Len(s) /\ Edit(s, cursor + 1, hline, Right(term, 1))
      BY DEF ForwardChar
<1>2. 1 \in 1 .. Len(s) - cursor /\ cursor + 1 \in 0 .. Len(s)
      BY <1>1, LengthOfLine
<1>3. Shows(Right(term, 1), s, cursor + 1)
      BY <1>2, RightShows DEF RInv
<1> QED  BY <1>1, <1>2, <1>3, EditSafe DEF RInv

LEMMA BeginningOfLineSafe == ASSUME RInv, BeginningOfLine  PROVE Safe
<1> DEFINE t == IF cursor > 0 THEN Left(term, cursor) ELSE term
<1>1. Edit(s, 0, hline, t)
      BY DEF BeginningOfLine
<1>2. Shows(t, s, 0)
  <2>1. CASE cursor > 0
    <3>1. cursor \in 1 .. cursor /\ cursor - cursor = 0
          BY <2>1, LengthOfLine
    <3>2. Shows(Left(term, cursor), s, cursor - cursor)
          BY <3>1, LeftShows DEF RInv
    <3> QED  BY <2>1, <3>1, <3>2
  <2>2. CASE ~ (cursor > 0)
    <3>1. cursor = 0
          BY <2>2, LengthOfLine
    <3> QED  BY <3>1 DEF RInv
  <2> QED  BY <2>1, <2>2
<1>3. 0 \in 0 .. Len(s)
      BY LengthOfLine
<1> HIDE DEF t
<1> QED  BY <1>1, <1>2, <1>3, EditSafe DEF RInv

LEMMA EndOfLineSafe == ASSUME RInv, EndOfLine  PROVE Safe
<1> DEFINE n == Len(s) - cursor
           t == IF n > 0 THEN Right(term, n) ELSE term
<1>1. Edit(s, Len(s), hline, t)
      BY DEF EndOfLine
<1>2. n \in 0 .. Len(s) - cursor /\ cursor + n = Len(s)
      BY LengthOfLine
<1> HIDE DEF n
<1>3. Shows(t, s, Len(s))
  <2>1. CASE n > 0
    <3>1. n \in 1 .. Len(s) - cursor
          BY <1>2, <2>1
    <3>2. Shows(Right(term, n), s, cursor + n)
          BY <3>1, RightShows DEF RInv
    <3> QED  BY <1>2, <2>1, <3>2
  <2>2. CASE ~ (n > 0)
    <3>1. cursor = Len(s)
          BY <1>2, <2>2, LengthOfLine
    <3> QED  BY <2>2, <3>1 DEF RInv
  <2> QED  BY <2>1, <2>2
<1>4. Len(s) \in 0 .. Len(s)
      BY LengthOfLine
<1> HIDE DEF t
<1> QED  BY <1>1, <1>3, <1>4, EditSafe DEF RInv

LEMMA KillLineSafe == ASSUME RInv, KillLine  PROVE Safe
<1> DEFINE line == SubSeq(s, 1, cursor)
<1>1. Edit(line, cursor, hline, EraseEol(term))
      BY DEF KillLine
<1>2. line \in Lines /\ Len(line) = cursor /\ Shows(EraseEol(term), line, cursor)
      BY EraseShows DEF RInv
<1> HIDE DEF line
<1>3. cursor \in 0 .. Len(line)
      BY <1>2, LengthOfLine
<1> QED  BY <1>1, <1>2, <1>3, EditSafe DEF RInv

LEMMA KillBackwardsSafe == ASSUME RInv, KillBackwards  PROVE Safe
<1> DEFINE line == SubSeq(s, cursor + 1, Len(s))
           t == IF cursor > 0 THEN Del(Left(term, cursor), cursor) ELSE term
<1>1. Edit(line, 0, hline, t)
      BY DEF KillBackwards
<1>2. SubSeq(s, 1, 0) \o line = line
  <2>1. SubSeq(s, 1, 0) = <<>>
        BY SubSeqEmpty
  <2>2. line \in Seq(Chars)
    <3>1. cursor + 1 \in 1 .. Len(s) + 1 /\ Len(s) \in 0 .. Len(s)
          BY LengthOfLine
    <3> QED  BY <3>1, PartOf, LengthOfLine
  <2> HIDE DEF line
  <2> QED  BY <2>1, <2>2, ConcatEmptySeq
<1>3. line \in Lines
  <2>1. 0 \in 0 .. Len(s) /\ cursor \in 0 .. Len(s)
        BY LengthOfLine
  <2>2. SubSeq(s, 1, 0) \o line \in Lines
        BY <2>1, CutOut DEF RInv
  <2> QED  BY <1>2, <2>2
<1>4. Shows(t, line, 0)
  <2>1. CASE cursor > 0
    <3>1. /\ cursor \in 1 .. cursor /\ cursor - cursor = 0 /\ 0 \in 0 .. Len(s)
          /\ cursor \in 1 .. Len(s) - 0 /\ 0 + cursor + 1 = cursor + 1
          BY <2>1, LengthOfLine
    <3>2. Shows(Left(term, cursor), s, 0)
      <4>1. Shows(Left(term, cursor), s, cursor - cursor)
            BY <3>1, LeftShows DEF RInv
      <4> QED  BY <3>1, <4>1
    <3>3. Shows(Del(Left(term, cursor), cursor),
                SubSeq(s, 1, 0) \o SubSeq(s, 0 + cursor + 1, Len(s)), 0)
      <4> DEFINE l == Left(term, cursor)
      <4>1. Shows(l, s, 0)
            BY <3>2
      <4> HIDE DEF l
      <4>2. Shows(Del(l, cursor), SubSeq(s, 1, 0) \o SubSeq(s, 0 + cursor + 1, Len(s)), 0)
            BY <3>1, <4>1, DelShows DEF RInv
      <4> QED  BY <4>2 DEF l
    <3> QED  BY <1>2, <2>1, <3>1, <3>3
  <2>2. CASE ~ (cursor > 0)
    <3>1. cursor = 0 /\ cursor + 1 = 1
          BY <2>2, LengthOfLine
    <3>2. line = s
          BY <3>1, SubSeqFull, LengthOfLine
    <3> QED  BY <2>2, <3>1, <3>2 DEF RInv
  <2> QED  BY <2>1, <2>2
<1> HIDE DEF t, line
<1>5. 0 \in 0 .. Len(line)
  <2>1. Len(line) \in Nat
        BY <1>3, LinesAre, LenProperties
  <2> QED  BY <2>1
<1> QED  BY <1>1, <1>3, <1>4, <1>5, EditSafe DEF RInv

LEMMA DeleteCharSafe == ASSUME RInv, DeleteChar  PROVE Safe
<1> DEFINE line == SubSeq(s, 1, cursor) \o SubSeq(s, cursor + 1 + 1, Len(s))
<1>1. cursor < Len(s) /\ Edit(RemoveAt(s, cursor + 1), cursor, hline, Del(term, 1))
      BY DEF DeleteChar
<1>2. RemoveAt(s, cursor + 1) = line
  <2>1. (cursor + 1) - 1 = cursor
        BY LengthOfLine
  <2> QED  BY <2>1 DEF RemoveAt
<1>3. line \in Lines /\ Len(line) = Len(s) - 1
  <2>1. cursor \in 0 .. Len(s) /\ cursor + 1 \in cursor .. Len(s) /\ (cursor + 1) - cursor = 1
        BY <1>1, LengthOfLine
  <2>2. line \in Lines /\ Len(line) = Len(s) - ((cursor + 1) - cursor)
        BY <2>1, CutOut DEF RInv
  <2> HIDE DEF line
  <2> QED  BY <2>1, <2>2
<1>4. Shows(Del(term, 1), line, cursor)
  <2>1. 1 \in 1 .. Len(s) - cursor
        BY <1>1, LengthOfLine
  <2> QED  BY <2>1, DelShows DEF RInv
<1> HIDE DEF line
<1>5. cursor \in 0 .. Len(line)
      BY <1>1, <1>3, LengthOfLine
<1> QED  BY <1>1, <1>2, <1>3, <1>4, <1>5, EditSafe DEF RInv

LEMMA BackwardDeleteCharSafe == ASSUME RInv, BackwardDeleteChar  PROVE Safe
<1> DEFINE cur  == cursor - 1
           line == SubSeq(s, 1, cur) \o SubSeq(s, cur + 1 + 1, Len(s))
           t    == Left(term, 1)
<1>1. cursor > 0 /\ Edit(RemoveAt(s, cursor), cur, hline, Del(t, 1))
      BY DEF BackwardDeleteChar
<1>2. /\ cur \in 0 .. Len(s) /\ cur + 1 = cursor /\ cur + 1 \in cur .. Len(s)
      /\ (cur + 1) - cur = 1 /\ 1 \in 1 .. Len(s) - cur /\ 1 \in 1 .. cursor
  <2> DEFINE n == Len(s)
  <2>1. n \in Nat /\ cursor \in Nat /\ cursor > 0 /\ cursor <= n
        BY <1>1, LengthOfLine
  <2> HIDE DEF n
  <2>2. /\ cur \in 0 .. n /\ cur + 1 = cursor /\ cur + 1 \in cur .. n
        /\ (cur + 1) - cur = 1 /\ 1 \in 1 .. n - cur /\ 1 \in 1 .. cursor
        BY <2>1
  <2> QED  BY <2>2 DEF n
<1>3. RemoveAt(s, cursor) = line
      BY <1>2 DEF RemoveAt
<1>4. Shows(t, s, cur)
      BY <1>2, LeftShows DEF RInv
<1> HIDE DEF cur, t
<1>5. line \in Lines /\ Len(line) = Len(s) - 1
  <2>1. line \in Lines /\ Len(line) = Len(s) - ((cur + 1) - cur)
        BY <1>2, CutOut DEF RInv
  <2> HIDE DEF line
  <2> QED  BY <1>2, <2>1
<1>6. Shows(Del(t, 1), line, cur)
      BY <1>2, <1>4, DelShows DEF RInv
<1> HIDE DEF line
<1>7. cur \in 0 .. Len(line)
      BY <1>2, <1>5, LengthOfLine
<1> QED  BY <1>1, <1>3, <1>5, <1>6, <1>7, EditSafe DEF RInv

LEMMA InsertSafe == ASSUME RInv, NEW c \in Chars, Insert(c)  PROVE Safe
<1> DEFINE line == InsertAt(s, cursor + 1, c)
<1>1. Len(s) < LineSize - 1 /\ Edit(line, cursor + 1, hline, Put(term, <<c>>))
      BY DEF Insert
<1>2. line \in Lines /\ Len(line) = Len(s) + 1
      BY <1>1, Inserted DEF RInv
<1>3. Shows(Put(term, <<c>>), line, cursor + 1)
      BY <1>1, PutShows DEF RInv
<1> HIDE DEF line
<1>4. cursor + 1 \in 0 .. Len(line)
      BY <1>2, LengthOfLine
<1> QED  BY <1>1, <1>2, <1>3, <1>4, EditSafe DEF RInv

\* The completion puts in characters of the command names only.
LEMMA PrefixOfCommands ==
    ASSUME NEW found \in SUBSET (1 .. Len(Commands)), found # {}
    PROVE  LongestCommonPrefix({Commands[i] : i \in found}) \in Seq(Chars)
<1> DEFINE S == {Commands[i] : i \in found}
           CP == CommonPrefixes(S)
           lens == {Len(p) : p \in CP}
<1>1. \A c \in S : c \in Seq(Chars) /\ Len(c) \in Nat
  <2> SUFFICES ASSUME NEW i \in found  PROVE Commands[i] \in Seq(Chars) /\ Len(Commands[i]) \in Nat
      OBVIOUS
  <2>1. Commands \in Seq(Seq(Chars \ {Blank}))
        BY ReadlineAssumption
  <2>2. Commands[i] \in Seq(Chars \ {Blank})
        BY <2>1, ElementOfSeq
  <2>3. Commands[i] \in Seq(Chars)
        BY <2>2, SeqMonotonic
  <2> QED  BY <2>3, LenProperties
<1>2. PICK c \in S : TRUE
      OBVIOUS
<1> HIDE DEF S
<1>3. ASSUME NEW p \in CP  PROVE p \in Seq(Chars) /\ Len(p) \in Nat /\ Len(p) <= Len(c)
  <2>1. PICK seq \in S : p \in Prefixes(seq)
        BY DEF CommonPrefixes
  <2>2. PICK l \in 0 .. Len(seq) : p = SubSeq(seq, 1, l)
        BY <2>1 DEF Prefixes
  <2>3. p \in Seq(Chars)
    <3>1. 1 \in 1 .. Len(seq) + 1
          BY <1>1
    <3> QED  BY <1>1, <2>2, <3>1, PartOf
  <2>4. Len(p) \in Nat
        BY <2>3, LenProperties
  <2>5. IsPrefix(p, c)
        BY <1>2 DEF CommonPrefixes
  <2> QED  BY <2>3, <2>4, <2>5 DEF IsPrefix
<1>4. <<>> \in CP
  <2>1. <<>> \in Prefixes(c)
    <3>1. 0 \in 0 .. Len(c) /\ SubSeq(c, 1, 0) = <<>>
          BY <1>1, SubSeqEmpty
    <3> QED  BY <3>1 DEF Prefixes
  <2>2. ASSUME NEW d \in S  PROVE IsPrefix(<<>>, d)
    <3>1. Len(<<>>) = 0 /\ Len(<<>>) <= Len(d)
          BY <1>1, EmptySeq
    <3>2. SubSeq(<<>>, 1, 0) = <<>> /\ SubSeq(d, 1, 0) = <<>>
          BY SubSeqEmpty
    <3> QED  BY <3>1, <3>2 DEF IsPrefix
  <2> QED  BY <2>1, <2>2 DEF CommonPrefixes
<1> HIDE DEF CP
<1>5. lens \in SUBSET Nat /\ lens # {} /\ Len(c) \in Nat /\ \A x \in lens : x <= Len(c)
      BY <1>1, <1>2, <1>3, <1>4
<1>6. Max(lens) \in lens /\ \A x \in lens : x <= Max(lens)
  <2> HIDE DEF lens
  <2> QED  BY <1>5, Greatest
<1>7. PICK longest \in CP : Len(longest) = Max(lens)
      BY <1>6
<1>8. \A other \in CP : Len(other) <= Len(longest)
      BY <1>6, <1>7
<1>9. LongestCommonPrefix(S) \in CP
      BY <1>8 DEF LongestCommonPrefix, CP
<1> QED  BY <1>3, <1>9 DEF S

LEMMA CompleteKeeps == ASSUME RInv, Complete  PROVE RInv'
<1> DEFINE found    == cmd_find(SubSeq(s, 1, cursor))
           isUnique == Cardinality(found) = 1
           prefix   == LongestCommonPrefix({Commands[i] : i \in found})
           places   == {i \in 1 .. Len(s) + 1 : Append(s, Blank)[i] = Blank}
           cmd_len  == Min(places) - 1
           rest     == SubSeq(s, cmd_len + 1, Len(s))
           more     == IF isUnique /\ rest = <<>> THEN <<Blank>> ELSE <<>>
           line     == prefix \o rest \o more
           cur      == IF isUnique /\ rest = <<>> THEN Len(line) ELSE Len(prefix)
           t        == IF isUnique THEN term ELSE NewRow(term)
           top      == Max({Len(line), Len(rest) + 2 * Len(prefix)})
<1>1. CASE found = {}
  <2>1. ReprintLine
        BY <1>1 DEF Complete
  <2> QED  BY <2>1, ReprintLineSafe DEF Safe
<1>2. CASE found # {} /\ Len(rest) + Len(prefix) + 2 > LineSize
  <2>1. Edit(s, cursor, hline, Reprint(t, s, cursor))
        BY <1>2 DEF Complete
  <2> HIDE DEF isUnique
  <2>2. Shows(Reprint(t, s, cursor), s, cursor)
    <3>1. /\ Shows(Reprint(term, s, cursor), s, cursor)
          /\ Shows(Reprint(NewRow(term), s, cursor), s, cursor)
          BY ReprintTerm DEF RInv
    <3> QED  BY <3>1
  <2> HIDE DEF t
  <2> QED  BY <2>1, <2>2, EditSafe DEF RInv, Safe
<1>3. CASE found # {} /\ ~ (Len(rest) + Len(prefix) + 2 > LineSize)
  <2>1. Store(top, line, cur, hline, Reprint(t, line, cur))
        BY <1>3 DEF Complete
  <2>2. prefix \in Seq(Chars) /\ Len(prefix) \in Nat
    <3>1. found \in SUBSET (1 .. Len(Commands)) /\ found # {}
          BY <1>3 DEF cmd_find
    <3> HIDE DEF found
    <3>2. prefix \in Seq(Chars)
          BY <3>1, PrefixOfCommands
    <3> QED  BY <3>2, LenProperties
  <2>3. cmd_len \in 0 .. Len(s)
    <3>1. Append(s, Blank)[Len(s) + 1] = Blank
          BY LengthOfLine, Constants, AppendProperties
    <3>2. Len(s) + 1 \in places /\ places \in SUBSET Nat
          BY <3>1, LengthOfLine
    <3>3. Min(places) \in places
      <4> HIDE DEF places
      <4> QED  BY <3>2, Least
    <3>4. Min(places) \in 1 .. Len(s) + 1
          BY <3>3
    <3> HIDE DEF places
    <3> QED  BY <3>4, LengthOfLine
  <2> HIDE DEF isUnique, prefix, cmd_len
  <2>4. rest \in Seq(Chars) /\ Len(rest) \in Nat
    <3>1. cmd_len + 1 \in 1 .. Len(s) + 1 /\ Len(s) \in 0 .. Len(s)
          BY <2>3, LengthOfLine
    <3>2. rest \in Seq(Chars)
          BY <3>1, PartOf, LengthOfLine
    <3> HIDE DEF rest
    <3> QED  BY <3>2, LenProperties
  <2>5. ~ (Len(rest) + Len(prefix) + 2 > LineSize)
        BY <1>3
  <2> HIDE DEF rest
  <2>6. more \in Seq(Chars) /\ Len(more) \in {0, 1}
    <3>1. <<Blank>> \in Seq(Chars) /\ Len(<<Blank>>) = 1 /\ <<>> \in Seq(Chars) /\ Len(<<>>) = 0
          BY Constants, EmptySeq
    <3> QED  BY <3>1
  <2>7. line \in Seq(Chars) /\ Len(line) = Len(prefix) + Len(rest) + Len(more)
    <3> HIDE DEF more
    <3>1. prefix \o rest \in Seq(Chars) /\ Len(prefix \o rest) = Len(prefix) + Len(rest)
          BY <2>2, <2>4, ConcatProperties
    <3>2. (prefix \o rest) \o more \in Seq(Chars)
          /\ Len((prefix \o rest) \o more) = Len(prefix \o rest) + Len(more)
          BY <2>6, <3>1, ConcatProperties
    <3> QED  BY <3>1, <3>2
  <2>0. top \in Int
    <3> HIDE DEF line
    <3> DEFINE m == Len(rest) + 2 * Len(prefix)
    <3>1. Len(line) \in Int /\ m \in Int
          BY <2>2, <2>4, <2>6, <2>7
    <3> HIDE DEF m
    <3>2. Max({Len(line), m}) \in Int
          BY <3>1, MaxOfTwo
    <3> QED  BY <3>2 DEF m
  <2> HIDE DEF top
  <2> HIDE DEF more, line
  <2>8. Len(line) <= LineSize - 1 /\ Len(line) \in Nat /\ Len(prefix) <= Len(line)
    <3> DEFINE a == Len(prefix)
               b == Len(rest)
               c == Len(more)
               n == Len(line)
    <3>1. /\ a \in Nat /\ b \in Nat /\ c \in {0, 1} /\ n = a + b + c
          /\ ~ (b + a + 2 > LineSize) /\ LineSize \in Nat
          BY <2>2, <2>4, <2>5, <2>6, <2>7, Constants
    <3> HIDE DEF a, b, c, n
    <3>2. n <= LineSize - 1 /\ n \in Nat /\ a <= n
          BY <3>1
    <3> QED  BY <3>2 DEF a, n
  <2>9. line \in Lines
        BY <2>7, <2>8, LinesAre
  <2>10. cur \in 0 .. Len(line)
         BY <2>2, <2>8
  <2> HIDE DEF cur
  <2>11. Shows(Reprint(t, line, cur), line, cur)
    <3>1. /\ Shows(Reprint(term, line, cur), line, cur)
          /\ Shows(Reprint(NewRow(term), line, cur), line, cur)
          BY <2>9, <2>10, ReprintTerm DEF RInv
    <3> QED  BY <3>1
  <2> HIDE DEF t
  <2>12. hline \in 0 .. h.lines
         BY DEF RInv
  <2> QED  BY <2>0, <2>1, <2>9, <2>10, <2>11, <2>12, StoreKeeps
<1> QED  BY <1>1, <1>2, <1>3

-----------------------------------------------------------------------------
(* The end of a line                                                       *)

LEMMA ShellSafe ==
    ASSUME RInv, NEW hist, Shell(hist), hist.lines \in Nat \ {0},
           entered' \in Seq(Lines), Recent(hist, entered'),
           last = "old" => \A k \in 1 .. Len(entered') : Len(entered'[k]) < LineSize - 1
    PROVE  Safe
<1>1. /\ h' = hist /\ hline' = hist.lines /\ s' = <<>> /\ cursor' = 0
      /\ last' = last /\ overrun' = overrun /\ ~ overrun
      BY DEF Shell
<1>2. Shows(term', <<>>, 0)
  <2>1. PICK out \in Outputs, col \in 0 .. Width - 1 :
            term' = Prompted([row |-> Fit(out), col |-> col, insert |-> FALSE])
        BY DEF Shell
  <2> QED  BY <2>1, PromptedShows
<1>3. hist.lines \in 0 .. hist.lines /\ <<>> \in Lines /\ 0 \in 0 .. Len(<<>>)
      BY EmptyLine
<1>4. /\ last \in {"nul", "old", "moved"} /\ overrun \in BOOLEAN
      /\ Len(<<>>) = LineSize - 1 => last = "nul"
  <2>1. Len(<<>>) = 0 /\ LineSize - 1 > 0
        BY EmptyLine, FirstLinesAre
  <2> QED  BY <2>1 DEF RInv
<1>5. RInv'
      BY <1>1, <1>2, <1>3, <1>4 DEF RInv
<1> QED  BY <1>1, <1>5 DEF Safe

LEMMA AcceptLineSafe == ASSUME RInv, AcceptLine  PROVE Safe
<1>1. hist_get(h.lines - 1) = Last(entered)
      BY LastIsLast DEF RInv
<1>2. CASE s # <<>> /\ s # Last(entered)
  <2>1. Shell(hist_add(h, s)) /\ entered' = Append(entered, s)
        BY <1>1, <1>2 DEF AcceptLine
  <2>2. /\ Recent(hist_add(h, s), Append(entered, s))
        /\ hist_add(h, s).lines \in Nat \ {0}
        BY AddKeeps DEF RInv
  <2>3. Append(entered, s) \in Seq(Lines)
        BY AppendProperties DEF RInv
  <2>4. ASSUME last = "old", NEW k \in 1 .. Len(Append(entered, s))
        PROVE  Len(Append(entered, s)[k]) < LineSize - 1
    <3>1. Len(s) < LineSize - 1
      <4>1. Len(s) # LineSize - 1
            BY <2>4 DEF RInv
      <4> QED  BY <4>1, LengthOfLine, Constants
    <3>2. /\ Len(entered) \in Nat /\ Len(Append(entered, s)) = Len(entered) + 1
          /\ Append(entered, s)[k] = IF k <= Len(entered) THEN entered[k] ELSE s
      <4>1. entered \in Seq(Lines) /\ s \in Lines /\ Len(entered) \in Nat
            BY LinesSeq DEF RInv
      <4>2. Len(Append(entered, s)) = Len(entered) + 1 /\ k \in 1 .. Len(entered) + 1
            BY <4>1, AppendProperties
      <4> QED  BY <4>1, <4>2, AppendProperties
    <3>3. CASE k <= Len(entered)
      <4>1. k \in 1 .. Len(entered)
            BY <3>2, <3>3
      <4> QED  BY <2>4, <3>2, <3>3, <4>1 DEF RInv
    <3>4. CASE ~ (k <= Len(entered))
          BY <3>1, <3>2, <3>4
    <3> QED  BY <3>3, <3>4
  <2> QED  BY <2>1, <2>2, <2>3, <2>4, ShellSafe
<1>3. CASE ~ (s # <<>> /\ s # Last(entered))
  <2>1. Shell(h) /\ entered' = entered
        BY <1>1, <1>3 DEF AcceptLine
  <2> QED  BY <2>1, ShellSafe DEF RInv
<1> QED  BY <1>2, <1>3

LEMMA RejectLineSafe == ASSUME RInv, RejectLine  PROVE Safe
<1>1. Shell(h) /\ entered' = entered
      BY DEF RejectLine
<1> QED  BY <1>1, ShellSafe DEF RInv

-----------------------------------------------------------------------------
(* The theorems                                                            *)

LEMMA Starting == Init => RInv
<1> SUFFICES ASSUME Init  PROVE RInv
    OBVIOUS
<1>1. /\ s = <<>> /\ cursor = 0 /\ h = FirstHistory /\ hline = h.lines /\ entered = FirstLines
      /\ term = Prompted([row |-> Fit(<<>>), col |-> 0, insert |-> FALSE])
      /\ last \in {"nul", "old"} /\ overrun = FALSE
      BY DEF Init
<1>2. Recent(FirstHistory, FirstLines) /\ FirstHistory.lines \in Nat \ {0}
      BY FirstRecent
<1>3. FirstLines \in Seq(Lines)
      BY FirstLinesAre
<1>4. Shows(term, <<>>, 0)
      BY <1>1, PromptedShows
<1>5. <<>> \in Lines /\ 0 \in 0 .. Len(<<>>) /\ FirstHistory.lines \in 0 .. FirstHistory.lines
      BY <1>2, EmptyLine
<1>6. /\ Len(<<>>) # LineSize - 1
      /\ \A k \in 1 .. Len(FirstLines) : Len(FirstLines[k]) < LineSize - 1
      BY EmptyLine, FirstLinesAre
<1> QED  BY <1>1, <1>2, <1>3, <1>4, <1>5, <1>6 DEF RInv

LEMMA Stepping ==
    RInv /\ [Next]_vars => RInv' /\ [overrun' => last = "moved" \/ Complete]_vars
<1> DEFINE Goal == RInv' /\ [overrun' => last = "moved" \/ Complete]_vars
<1> SUFFICES ASSUME RInv, [Next]_vars  PROVE Goal
    OBVIOUS
<1>0. Safe => Goal
      BY DEF Safe
<1>1. CASE UNCHANGED vars
      BY <1>1 DEF RInv, vars
<1> HIDE DEF Goal
<1>2. ASSUME NEW c \in Chars, Insert(c)  PROVE Goal
      BY <1>0, <1>2, InsertSafe
<1>3. CASE ReprintLine \/ PreviousHistory \/ NextHistory \/ ReverseSearch \/ ForwardSearch
      BY <1>0, <1>3, ReprintLineSafe, PreviousHistorySafe, NextHistorySafe, ReverseSearchSafe,
         ForwardSearchSafe
<1>4. CASE BackwardChar \/ ForwardChar \/ BeginningOfLine \/ EndOfLine
      BY <1>0, <1>4, BackwardCharSafe, ForwardCharSafe, BeginningOfLineSafe, EndOfLineSafe
<1>5. CASE KillLine \/ KillBackwards \/ DeleteChar \/ BackwardDeleteChar
      BY <1>0, <1>5, KillLineSafe, KillBackwardsSafe, DeleteCharSafe, BackwardDeleteCharSafe
<1>6. CASE AcceptLine \/ RejectLine
      BY <1>0, <1>6, AcceptLineSafe, RejectLineSafe
<1>7. CASE Complete
      BY <1>7, CompleteKeeps DEF Goal
<1> QED  BY <1>1, <1>2, <1>3, <1>4, <1>5, <1>6, <1>7 DEF Next

LEMMA Invariant == Spec => []RInv
<1> QED  BY Starting, Stepping, PTL DEF Spec

\* As long as the program has not left the line buffer, the line ends in it, the
\* cursor is in the line, and the history fits into its buffer, is never empty,
\* ends with a terminator and counts its lines right, for every size of the
\* buffers, every command table and every sequence of keys.  It does not say
\* that the buffer is never left: cmd_completion does leave it (command.c:192),
\* and from there on the model stands still.
THEOREM TypeCorrect == Spec => []TypeOK
<1>1. RInv => TypeOK
      BY InvariantImplies
<1> QED  BY Invariant, <1>1, PTL

\* A key other than TAB leaves the line buffer only by recalling a line after a
\* completion has moved a byte to the end of the buffer.  Without such a byte a
\* line of full length always has its terminator, although strncpy writes none
\* and the buffer is not initialised: the lines shell_task puts into the history
\* are shorter, and whoever typed a line of full length stored it.
THEOREM OverrunsAreCompletions == Spec => OnlyCompletionOverruns
<1> QED  BY Invariant, Stepping, PTL DEF Spec, OnlyCompletionOverruns

\* The terminal always shows the prompt and the line that would be executed,
\* with its cursor where the next character goes, although most keys send only
\* the change (one place inserted, erased or passed) instead of the line.
THEOREM ScreenShowsTheLine == Spec => []ScreenShowsLine
<1>1. RInv => ScreenShowsLine
      BY InvariantImplies
<1> QED  BY Invariant, <1>1, PTL

\* What hist_get reads from the buffer are the last lines that were entered,
\* whole and in order, and hist_add has dropped no line that still fits,
\* however long the lines are and however often the buffer was filled.
THEOREM HistoryHoldsRecentLines == Spec => []HistoryIsRecent
<1>1. RInv => HistoryIsRecent
      BY InvariantImplies
<1> QED  BY Invariant, <1>1, PTL

=============================================================================
