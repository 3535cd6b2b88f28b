------------------------------ MODULE ToolsProofs ------------------------------
(***************************************************************************)
(* The tools of the agent on any directory, under any limits and changes.  *)
(*                                                                         *)
(* A tool measures, walks and cuts in several steps while others write to  *)
(* the same files.  What it says is right because at each step it says so  *)
(* much of what it has seen and no more: a reader holds the lines from the *)
(* first it asked for to the next it will ask for, a listing has the       *)
(* entries it has gone through, a search has told of the files it has left *)
(* behind as much as there was room for.                                   *)
(***************************************************************************)
EXTENDS AgentTools, TLAPS, FiniteSetTheorems, SequenceTheorems, WellFoundedInduction

LineKinds == {"short", "hit", "long"}
FileKinds == Regular \union {"directory", "external", "absent"}
FileType == [kind : FileKinds, named : BOOLEAN, lines : Seq(LineKinds)]

\* What a tool may report; 0 stands for the workspace itself.
Finds == Names \union {0} \union (Names \X {"name", "content"}) \union LineKinds
Steps == {"idle", "start", "list", "read", "search", "done"}
ToolNames == Tools \union {"none", "unknown"}

TypesOK ==
    /\ files \in [Names -> FileType] /\ workspace \in BOOLEAN /\ changed \subseteq Names
    /\ call \in [tool : ToolNames, step : Steps, target : Names \union {0}, offset : Nat, limit : Nat]
    /\ work \in [todo : SUBSET Names, scanned : Nat, found : Seq(Finds), omitted : Nat]
    /\ answer \in [tool : ToolNames, ok : BOOLEAN, found : Seq(Finds), count : Nat, more : BOOLEAN]
    /\ book \in [target : Names \union {0}, first : Nat, lines : Seq(LineKinds), cut : BOOLEAN]
    /\ answer.tool = call.tool

(***************************************************************************)
(* Reading page by page                                                    *)
(***************************************************************************)
PartOf(q, first, lines) ==
    q = <<>> \/
      /\ first # 0 /\ first + Len(q) <= Len(lines) + 1
      /\ q = SubSeq(lines, first, first + Len(q) - 1)
\* The page that begins at a line and ends with line m.
PageOf(page, next, m, lines) ==
    /\ m \in 0 .. Len(lines)
    /\ next - 1 <= Len(lines) => next - 1 <= m /\ page = SubSeq(lines, next, m)
    /\ next - 1 > Len(lines) => m = Len(lines) /\ page = <<>>

\* The reader has the lines from the first it asked for to the one before the next
\* it will ask for, and after the last page all of them.
Pages(lines) ==
    /\ PartOf(book.lines, book.first, lines)
    /\ call.step \in {"start", "read"} => call.offset = book.first + Len(book.lines)
    /\ call.step = "done" /\ answer.ok =>
        /\ answer.more => call.offset + answer.count = book.first + Len(book.lines)
        /\ ~answer.more => book.lines = SubSeq(lines, book.first, Len(lines))

Reading ==
    call.tool = "read_file" =>
        /\ call.target \in Names /\ book.target = call.target
        /\ ~book.cut /\ book.target \notin changed => Pages(files[book.target].lines)

ReadingInv == TypesOK /\ Reading

-----------------------------------------------------------------------------
(* Lemmas about the window of a page *)

LEMMA LeastExists ==
    ASSUME NEW T, T \subseteq Nat, T # {}
    PROVE  \E x \in T : \A y \in T : x <= y
<1> DEFINE R == OpToRel(<, Nat)
<1>1. IsWellFoundedOn(R, Nat)
  BY NatLessThanWellFounded
<1>2. \A x, y \in Nat : <<x, y>> \in R <=> x < y
  BY DEF OpToRel
<1> HIDE DEF R
<1>3. PICK x \in T : \A y \in T : <<y, x>> \notin R
  BY <1>1, WFMin
<1>4. \A y \in T : ~(y < x) /\ y \in Nat /\ x \in Nat
  BY <1>2, <1>3
<1> QED
  BY <1>4

LEMMA MinOfTwo ==
    ASSUME NEW a \in Nat, NEW b \in Nat
    PROVE  Min({a, b}) = IF a <= b THEN a ELSE b
<1>1. PICK m \in {a, b} : m = (IF a <= b THEN a ELSE b) /\ m <= a /\ m <= b
  OBVIOUS
<1> QED
  BY <1>1 DEF Min

LEMMA WindowIsPart ==
    ASSUME NEW lines \in Seq(LineKinds), call.offset \in Nat \ {0}, call.limit \in Nat
    PROVE  /\ Window(lines) \in Seq(LineKinds)
           /\ \E m \in 0 .. Len(lines) :
                /\ PageOf(Window(lines), call.offset, m, lines)
                /\ m = Len(lines) <=> call.offset - 1 + call.limit >= Len(lines)
<1>1. PICK n \in Nat : n = Len(lines) /\ \A i \in 1 .. n : lines[i] \in LineKinds
  BY LenProperties
<1>2. PICK o \in Nat, l \in Nat : o = call.offset - 1 /\ l = call.limit /\ call.offset = o + 1
  OBVIOUS
<1>3. PICK s \in Nat : s = Min({o, n}) /\ s <= n /\ (o <= n => s = o) /\ (o > n => s = n)
  <2>1. CASE o <= n
    BY <2>1, MinOfTwo
  <2>2. CASE ~(o <= n)
    <3>1. Min({o, n}) = n
      BY <2>2, MinOfTwo
    <3> QED
      BY <2>2, <3>1
  <2> QED
    BY <2>1, <2>2
<1>4. PICK m \in 0 .. n : m = Min({s + l, n}) /\ s <= m /\ (m = n <=> s + l >= n)
  <2>1. Min({s + l, n}) = IF s + l <= n THEN s + l ELSE n
    BY MinOfTwo
  <2> QED
    BY <1>3, <2>1
<1>5. Window(lines) = SubSeq(lines, s + 1, m)
  BY <1>1, <1>2, <1>3, <1>4 DEF Window
<1>6. m = n <=> o + l >= n
  <2>1. CASE o <= n
    BY <1>3, <1>4, <2>1
  <2>2. CASE o > n
    BY <1>3, <1>4, <2>2
  <2> QED
    BY <2>1, <2>2
<1>7. \A i \in s + 1 .. m : lines[i] \in LineKinds
  BY <1>1, <1>3, <1>4
<1>8. Window(lines) \in Seq(LineKinds)
  <2>1. s + 1 \in Int /\ m \in Int
    OBVIOUS
  <2> QED
    BY <1>5, <1>7, <2>1, SubSeqProperties
<1>9. o > n => m = n /\ Window(lines) = <<>>
  <2>1. ASSUME o > n PROVE m = n /\ m < s + 1
    BY <1>3, <1>4, <2>1
  <2> QED
    BY <1>5, <2>1, SubSeqEmpty
<1>10. o <= n => o <= m /\ Window(lines) = SubSeq(lines, o + 1, m)
  BY <1>3, <1>4, <1>5
<1> QED
  BY <1>1, <1>2, <1>6, <1>8, <1>9, <1>10 DEF PageOf

\* A page within the bound of the output is returned as it is.
LEMMA WholePage ==
    ASSUME NEW q \in Seq(LineKinds), Fits(q)
    PROVE  SubSeq(q, 1, Whole(q)) = q
<1>1. PICK n \in Nat : n = Len(q) /\ SubSeq(q, 1, n) = q
  BY LenProperties, SubSeqFull
<1> DEFINE P(i) == Fits(SubSeq(q, 1, i)) /\ \A j \in (i + 1) .. n : ~Fits(SubSeq(q, 1, j))
<1>2. n \in 0 .. n /\ P(n)
  <2>1. (\A j \in (n + 1) .. n : FALSE) /\ n \in 0 .. n
    OBVIOUS
  <2>2. Fits(SubSeq(q, 1, n))
    BY <1>1, Zenon
  <2> QED
    BY <2>1, <2>2, Zenon
<1>3. ASSUME NEW i \in 0 .. n, P(i) PROVE i = n
  <2>1. Fits(SubSeq(q, 1, n))
    BY <1>1
  <2>2. n \notin (i + 1) .. n
    BY <1>3, <2>1, Zenon
  <2> QED
    BY <2>2
<1>4. Whole(q) = CHOOSE i \in 0 .. n : P(i)
  BY <1>1 DEF Whole
<1> HIDE DEF P
<1>5. Whole(q) = n
  BY <1>2, <1>3, <1>4
<1> QED
  BY <1>1, <1>5

\* A page that is cut has as many lines as fit.
LEMMA WholeIsPart ==
    ASSUME NEW q \in Seq(LineKinds)
    PROVE  Whole(q) \in 0 .. Len(q) /\ SubSeq(q, 1, Whole(q)) \in Seq(LineKinds)
<1>1. PICK n \in Nat : n = Len(q) /\ \A i \in 1 .. n : q[i] \in LineKinds
  BY LenProperties
<1> DEFINE T == {k \in 0 .. n : Fits(SubSeq(q, 1, n - k))}
<1>2. n \in T
  <2>1. n - n = 0 /\ 0 < 1 /\ n \in 0 .. n
    OBVIOUS
  <2>2. SubSeq(q, 1, 0) = <<>>
    BY SubSeqEmpty
  <2>3. Fits(<<>>)
    BY DEF Fits
  <2> QED
    BY <2>1, <2>2, <2>3
<1>3. PICK k \in T : \A y \in T : k <= y
  <2>1. T \subseteq Nat
    OBVIOUS
  <2> HIDE DEF T
  <2>2. T # {}
    BY <1>2
  <2> QED
    BY <2>1, <2>2, LeastExists
<1>4. PICK i \in 0 .. n : i = n - k
  OBVIOUS
<1>5. Fits(SubSeq(q, 1, i)) /\ \A j \in (i + 1) .. n : ~Fits(SubSeq(q, 1, j))
  <2>1. Fits(SubSeq(q, 1, i))
    BY <1>4
  <2>2. ASSUME NEW j \in (i + 1) .. n, Fits(SubSeq(q, 1, j)) PROVE FALSE
    <3>1. n - j \in 0 .. n /\ n - (n - j) = j /\ ~(k <= n - j)
      BY <1>4
    <3>2. n - j \in T
      BY <2>2, <3>1
    <3> QED
      BY <1>3, <3>1, <3>2
  <2> QED
    BY <2>1, <2>2
<1>6. Whole(q) \in 0 .. n
  BY <1>1, <1>5 DEF Whole
<1>7. PICK w \in 0 .. n : w = Whole(q)
  BY <1>6
<1>8. SubSeq(q, 1, w) \in Seq(LineKinds)
  <2>1. 1 \in Int /\ w \in Int /\ \A j \in 1 .. w : q[j] \in LineKinds
    BY <1>1
  <2> QED
    BY <2>1, SubSeqProperties
<1> QED
  BY <1>1, <1>7, <1>8

\* What was read of a file and the window after it.
LEMMA PagesJoin ==
    ASSUME NEW lines \in Seq(LineKinds), NEW have \in Seq(LineKinds), NEW first \in Nat \ {0},
           NEW next \in Nat \ {0}, next = first + Len(have), PartOf(have, first, lines),
           NEW m \in 0 .. Len(lines), NEW page \in Seq(LineKinds), PageOf(page, next, m, lines)
    PROVE  /\ PartOf(have \o page, first, lines)
           /\ Len(have \o page) = Len(have) + Len(page)
           /\ m = Len(lines) => have \o page = SubSeq(lines, first, Len(lines))
<1>6. SUFFICES /\ have \o page = <<>> \/
                    /\ first + Len(have \o page) <= Len(lines) + 1
                    /\ have \o page = SubSeq(lines, first, first + Len(have \o page) - 1)
               /\ Len(have \o page) = Len(have) + Len(page)
               /\ m = Len(lines) => have \o page = SubSeq(lines, first, Len(lines))
  BY DEF PartOf
<1>1. Len(lines) \in Nat /\ Len(have) \in Nat /\ Len(page) \in Nat /\ (have = <<>> <=> Len(have) = 0)
  BY LenProperties, EmptySeq
<1>0. PICK n \in Nat, h \in Nat, p \in Nat : n = Len(lines) /\ h = Len(have) /\ p = Len(page)
                                            /\ next = first + h
  BY <1>1
<1>5. /\ have = <<>> \/ (next <= n + 1 /\ have = SubSeq(lines, first, next - 1))
      /\ m \in 0 .. n
      /\ next - 1 <= n => next - 1 <= m /\ page = SubSeq(lines, next, m)
      /\ next - 1 > n => m = n /\ page = <<>>
  <2>1. first + h - 1 = next - 1 /\ first + h = next
    BY <1>0
  <2> QED
    BY <1>0, <2>1 DEF PartOf, PageOf
<1>2. have \o page \in Seq(LineKinds) /\ Len(have \o page) = h + p
  BY <1>0, ConcatProperties
<1>3. CASE next - 1 > n
  <2>1. page = <<>> /\ m = n /\ h = 0 /\ p = 0 /\ first > n
    <3>1. page = <<>> /\ m = n
      BY <1>0, <1>3, <1>5
    <3>2. have = <<>>
      BY <1>0, <1>3, <1>5
    <3> QED
      BY <1>0, <1>1, <1>3, <3>1, <3>2, EmptySeq
  <2>2. have \o page = <<>>
    BY <1>0, <1>1, <2>1
  <2>3. SubSeq(lines, first, n) = <<>>
    BY <2>1, SubSeqEmpty
  <2> QED
    BY <1>0, <1>2, <2>1, <2>2, <2>3
<1>4. CASE next - 1 <= n
  <2>1. PICK k \in Nat : k = next - 1 /\ k + 1 = next /\ k + 1 = first + h /\ k >= first - 1
    <3>1. next - 1 \in Nat /\ next - 1 + 1 = next
      OBVIOUS
    <3>2. next = first + h => next - 1 >= first - 1
      OBVIOUS
    <3> QED
      BY <1>0, <3>1, <3>2
  <2>2. k <= m /\ m <= n /\ page = SubSeq(lines, k + 1, m)
    <3>1. next - 1 <= m /\ m \in 0 .. n /\ page = SubSeq(lines, next, m)
      BY <1>4, <1>5
    <3> QED
      BY <2>1, <3>1
  <2>3. have = SubSeq(lines, first, k)
    <3>1. CASE have = <<>>
      <4>1. k < first
        BY <1>0, <1>1, <2>1, <3>1
      <4> QED
        BY <3>1, <4>1, SubSeqEmpty
    <3>2. CASE have # <<>>
      BY <1>0, <1>5, <2>1, <3>2
    <3> QED
      BY <3>1, <3>2
  <2>4. have \o page = SubSeq(lines, first, m)
    <3>1. first \in 1 .. n + 1 /\ k \in first - 1 .. n /\ m \in k .. n
      BY <1>4, <2>1, <2>2
    <3> QED
      BY <1>0, <2>2, <2>3, <3>1, ConcatAdjacentSubSeq
  <2>5. h + p = m - first + 1
    <3>1. \A i \in first .. m : lines[i] \in LineKinds
      <4>1. \A i \in 1 .. n : lines[i] \in LineKinds
        BY <1>0, LenProperties
      <4> QED
        BY <2>2, <4>1
    <3>2. Len(SubSeq(lines, first, m)) = IF first <= m THEN m - first + 1 ELSE 0
      <4>1. first \in Int /\ m \in Int
        OBVIOUS
      <4> QED
        BY <3>1, <4>1, SubSeqProperties
    <3>3. h + p = IF first <= m THEN m - first + 1 ELSE 0
      BY <1>2, <2>4, <3>2
    <3>4. first <= m + 1
      BY <2>1, <2>2
    <3> QED
      BY <3>3, <3>4
  <2>6. first + (h + p) - 1 = m /\ first + (h + p) <= n + 1
    BY <2>2, <2>5
  <2> QED
    BY <1>0, <1>2, <2>4, <2>6
<1>7. next - 1 > n \/ next - 1 <= n
  OBVIOUS
<1> QED
  BY <1>3, <1>4, <1>7

-----------------------------------------------------------------------------
(* Every step of a reader keeps what it has and what it asks for together *)

LEMMA ReadingStart ==
    ASSUME Init
    PROVE  ReadingInv
<1>1. Entries \subseteq FileType
  <2>1. <<>> \in Seq(LineKinds) /\ <<"hit">> \in Seq(LineKinds)
    BY DEF LineKinds
  <2>2. Contents \subseteq Seq(LineKinds)
    BY ToolsAssumption DEF LineKinds
  <2> QED
    BY <2>1, <2>2 DEF Entries, FileType, FileKinds, Regular, Texts
<1>2. files \in [Names -> FileType]
  BY <1>1 DEF Init
<1>3. <<>> \in Seq(LineKinds) /\ <<>> \in Seq(Finds)
  OBVIOUS
<1>4. TypesOK
  BY <1>2, <1>3 DEF Init, TypesOK, NoCall, NoAnswer, NoWork, EmptyBook, ToolNames, Steps
<1>5. Reading
  BY DEF Init, Reading, NoCall
<1> QED
  BY <1>4, <1>5 DEF ReadingInv

LEMMA ReadingPrepare ==
    ASSUME ReadingInv, NEW tool \in Tools \union {"unknown"}, NEW arguments \in Arguments(tool), Prepare(tool, arguments)
    PROVE  ReadingInv'
<1>1. /\ arguments[1] \in Names \union {0} /\ arguments[2] \in Nat /\ arguments[3] \in Nat
      /\ tool = "read_file" => arguments[1] \in Names
  <2>1. Names \subseteq Nat
    BY ToolsAssumption
  <2>2. CASE tool = "read_file"
    <3>1. arguments \in Names \X (0..2) \X (0..(MaxReadLines + 1))
      BY <2>2 DEF Arguments
    <3> QED
      BY <2>1, <2>2, <3>1
  <2>3. CASE tool = "get_file_info"
    <3>1. arguments \in Names \X {1} \X {1}
      BY <2>3 DEF Arguments
    <3> QED
      BY <2>1, <2>3, <3>1
  <2>4. CASE tool \notin {"read_file", "get_file_info"}
    <3>1. arguments = <<0, 1, 1>>
      BY <2>4 DEF Arguments
    <3> QED
      BY <2>4, <3>1
  <2> QED
    BY <2>2, <2>3, <2>4
<1>2. /\ call'.offset = arguments[2] /\ call'.limit = arguments[3] /\ call'.tool = tool /\ call'.target = arguments[1]
      /\ call'.step \in {"start", "done"} /\ answer'.tool = tool /\ answer'.ok = FALSE
      /\ book'.target = arguments[1] /\ book'.first = arguments[2] /\ book'.lines = <<>>
      /\ UNCHANGED <<files, changed, workspace, work>>
  BY DEF Prepare, NoAnswer, EmptyBook
<1>3. TypesOK'
  <2>1. <<>> \in Seq(LineKinds) /\ <<>> \in Seq(Finds)
    OBVIOUS
  <2>2. call' \in [tool : ToolNames, step : Steps, target : Names \union {0}, offset : Nat, limit : Nat]
    BY <1>1 DEF Prepare, ToolNames, Steps
  <2>3. answer' \in [tool : ToolNames, ok : BOOLEAN, found : Seq(Finds), count : Nat, more : BOOLEAN]
    BY <2>1 DEF Prepare, NoAnswer, ToolNames
  <2>4. book' \in [target : Names \union {0}, first : Nat, lines : Seq(LineKinds), cut : BOOLEAN]
    BY <1>1, <2>1 DEF Prepare, EmptyBook
  <2> QED
    BY <1>2, <2>2, <2>3, <2>4 DEF ReadingInv, TypesOK
<1>4. Reading'
  <2>1. Len(<<>>) = 0 /\ \A k \in Nat : k + 0 = k
    OBVIOUS
  <2> QED
    BY <1>1, <1>2, <2>1 DEF Reading, Pages, PartOf
<1> QED
  BY <1>3, <1>4 DEF ReadingInv

\* What a tool returns.
LEMMA ReturnFacts ==
    ASSUME TypesOK, NEW ok \in BOOLEAN, NEW found \in Seq(Finds), NEW count \in Nat, NEW more \in BOOLEAN,
           Return(ok, found, count, more), UNCHANGED <<files, changed, workspace>>,
           book' \in [target : Names \union {0}, first : Nat, lines : Seq(LineKinds), cut : BOOLEAN]
    PROVE  /\ answer'.ok = ok /\ answer'.found = found /\ answer'.count = count /\ answer'.more = more
           /\ call'.step = "done" /\ call'.tool = call.tool /\ call'.target = call.target
           /\ call'.offset = call.offset /\ call'.limit = call.limit
           /\ TypesOK'
<1>1. /\ call' \in [tool : ToolNames, step : Steps, target : Names \union {0}, offset : Nat, limit : Nat]
      /\ call'.step = "done" /\ call'.tool = call.tool /\ call'.target = call.target
      /\ call'.offset = call.offset /\ call'.limit = call.limit
  BY DEF Return, TypesOK, Steps
<1>2. answer' = [tool |-> call.tool, ok |-> ok, found |-> found, count |-> count, more |-> more]
      /\ call.tool \in ToolNames
  BY DEF Return, TypesOK
<1>3. answer' \in [tool : ToolNames, ok : BOOLEAN, found : Seq(Finds), count : Nat, more : BOOLEAN]
  BY <1>2
<1>4. work' \in [todo : SUBSET Names, scanned : Nat, found : Seq(Finds), omitted : Nat]
  <2>1. <<>> \in Seq(Finds)
    OBVIOUS
  <2> QED
    BY <2>1 DEF Return, NoWork
<1> QED
  BY <1>1, <1>2, <1>3, <1>4 DEF TypesOK

\* A tool that does what it was asked.
Returned(found, count, more) ==
    /\ found \in Seq(Finds) /\ count \in Nat /\ more \in BOOLEAN
    /\ Return(TRUE, found, count, more)
    /\ UNCHANGED <<files, changed, workspace>> /\ UNCHANGED book

LEMMA ReturnedFacts ==
    ASSUME TypesOK, NEW found, NEW count, NEW more, Returned(found, count, more)
    PROVE  /\ answer'.ok = TRUE /\ answer'.found = found /\ answer'.count = count /\ answer'.more = more
           /\ call'.step = "done" /\ call'.tool = call.tool /\ TypesOK'
<1>1. /\ found \in Seq(Finds) /\ count \in Nat /\ more \in BOOLEAN /\ UNCHANGED <<files, changed, workspace, book>>
      /\ call' = [call EXCEPT !.step = "done"] /\ work' = NoWork
      /\ answer' = [tool |-> call.tool, ok |-> TRUE, found |-> found, count |-> count, more |-> more]
  BY DEF Returned, Return
<1>2. /\ call' \in [tool : ToolNames, step : Steps, target : Names \union {0}, offset : Nat, limit : Nat]
      /\ call'.step = "done" /\ call'.tool = call.tool
  BY <1>1 DEF TypesOK, Steps
<1>3. work' \in [todo : SUBSET Names, scanned : Nat, found : Seq(Finds), omitted : Nat]
  <2>1. <<>> \in Seq(Finds)
    OBVIOUS
  <2> QED
    BY <1>1, <2>1 DEF NoWork
<1>4. answer' \in [tool : ToolNames, ok : BOOLEAN, found : Seq(Finds), count : Nat, more : BOOLEAN]
  <2>1. call.tool \in ToolNames
    BY DEF TypesOK
  <2> QED
    BY <1>1, <2>1
<1>5. /\ answer'.ok = TRUE /\ answer'.found = found /\ answer'.count = count /\ answer'.more = more
      /\ answer'.tool = call'.tool
  BY <1>1, <1>2
<1>6. TypesOK'
  BY <1>1, <1>2, <1>3, <1>4, <1>5 DEF TypesOK
<1> QED
  BY <1>2, <1>5, <1>6

LEMMA GotoFacts ==
    ASSUME TypesOK, NEW step \in Steps, Goto(step), UNCHANGED <<files, changed, workspace, book>>,
           work' \in [todo : SUBSET Names, scanned : Nat, found : Seq(Finds), omitted : Nat]
    PROVE  /\ call'.step = step /\ call'.tool = call.tool /\ call'.target = call.target
           /\ call'.offset = call.offset /\ call'.limit = call.limit /\ answer' = answer
           /\ TypesOK'
BY DEF Goto, TypesOK

LEMMA FailFacts ==
    ASSUME TypesOK, Fail, UNCHANGED <<files, changed, workspace, book>>
    PROVE  /\ answer'.ok = FALSE /\ call'.step = "done" /\ call'.tool = call.tool /\ call'.target = call.target
           /\ call'.offset = call.offset /\ TypesOK'
<1>1. <<>> \in Seq(Finds)
  OBVIOUS
<1>2. book' \in [target : Names \union {0}, first : Nat, lines : Seq(LineKinds), cut : BOOLEAN]
  BY DEF TypesOK
<1> QED
  BY <1>1, <1>2, ReturnFacts DEF Fail

\* A reader whose call fails keeps what it has.
LEMMA ReadingFails ==
    ASSUME ReadingInv, Fail, UNCHANGED <<files, changed, workspace, book>>
    PROVE  ReadingInv'
<1>1. TypesOK' /\ answer'.ok = FALSE /\ call'.step = "done" /\ call'.tool = call.tool /\ call'.target = call.target
  BY FailFacts DEF ReadingInv
<1> QED
  BY <1>1 DEF ReadingInv, Reading, Pages

LEMMA ReadingOpens ==
    ASSUME ReadingInv, ReadSize
    PROVE  ReadingInv'
<1>1. UNCHANGED <<files, changed, workspace, book>> /\ call.step = "start" /\ TypesOK
  BY DEF ReadSize, CallStep, ReadingInv
<1>2. CASE Fail
  BY <1>1, <1>2, ReadingFails
<1>3. CASE Goto("read") /\ UNCHANGED work
  <2>1. "read" \in Steps /\ work' \in [todo : SUBSET Names, scanned : Nat, found : Seq(Finds), omitted : Nat]
    BY <1>3 DEF ReadingInv, TypesOK, Steps
  <2>2. /\ call'.step = "read" /\ call'.tool = call.tool /\ call'.target = call.target /\ call'.offset = call.offset
        /\ TypesOK'
    BY <1>1, <1>3, <2>1, GotoFacts
  <2> QED
    BY <1>1, <2>2 DEF ReadingInv, Reading, Pages
<1> QED
  BY <1>2, <1>3 DEF ReadSize

LEMMA ReadingGoesOn ==
    ASSUME ReadingInv, ReadOn
    PROVE  ReadingInv'
<1>1. /\ call'.step = "start" /\ call'.offset = call.offset + answer.count /\ call'.tool = call.tool
      /\ call'.target = call.target /\ call.step = "done" /\ answer.ok /\ answer.more
      /\ UNCHANGED <<files, workspace, work, book, changed>> /\ call.tool = "read_file"
  BY DEF ReadOn, ReadingInv, TypesOK
<1>2. TypesOK'
  <2>1. <<>> \in Seq(Finds) /\ call.offset + answer.count \in Nat
    BY DEF ReadingInv, TypesOK
  <2>2. call' \in [tool : ToolNames, step : Steps, target : Names \union {0}, offset : Nat, limit : Nat]
    BY <2>1 DEF ReadOn, ReadingInv, TypesOK, Steps
  <2>3. answer' \in [tool : ToolNames, ok : BOOLEAN, found : Seq(Finds), count : Nat, more : BOOLEAN]
        /\ answer'.tool = "read_file"
    BY <2>1 DEF ReadOn, NoAnswer, ToolNames, Tools
  <2> QED
    BY <1>1, <2>2, <2>3 DEF ReadingInv, TypesOK
<1> QED
  BY <1>1, <1>2 DEF ReadingInv, Reading, Pages

LEMMA ReadingEdited ==
    ASSUME ReadingInv, NEW n \in Names, NEW f \in FileType, Edit(n, f)
    PROVE  ReadingInv'
<1>1. /\ files' = [files EXCEPT ![n] = f] /\ changed' = changed \union {n}
      /\ UNCHANGED <<workspace, call, work, answer, book>>
  BY DEF Edit
<1>2. TypesOK'
  BY <1>1 DEF ReadingInv, TypesOK
<1>3. \A m \in Names : m \notin changed' => m \notin changed /\ files'[m] = files[m]
  BY <1>1 DEF ReadingInv, TypesOK
<1> QED
  BY <1>1, <1>2, <1>3 DEF ReadingInv, Reading, Pages

LEMMA ReadingReads ==
    ASSUME ReadingInv, ReadText
    PROVE  ReadingInv'
<1> DEFINE lines == files[call.target].lines
           page == Window(lines)
           cut == ~Fits(page)
<1>1. /\ call.tool = "read_file" /\ call.step = "read" /\ UNCHANGED <<files, workspace, changed>>
      /\ TypesOK /\ call.target \in Names /\ book.target = call.target /\ lines \in Seq(LineKinds)
      /\ ~book.cut /\ call.target \notin changed => Pages(lines)
  BY DEF ReadText, CallStep, ReadingInv, Reading, TypesOK, FileType
<1> HIDE DEF lines
<1>2. CASE Fail /\ UNCHANGED book
  BY <1>1, <1>2, ReadingFails
<1>3. CASE /\ call.offset # 0 /\ call.limit \in 1 .. MaxReadLines
           /\ Return(TRUE, SubSeq(page, 1, Whole(page)), Len(page), call.offset - 1 + call.limit < Len(lines) \/ cut)
           /\ book' = [book EXCEPT !.lines = @ \o SubSeq(page, 1, Whole(page)), !.cut = @ \/ cut]
  <2>1. call.offset \in Nat \ {0} /\ call.limit \in Nat
    BY <1>1, <1>3 DEF TypesOK
  <2>2. PICK m \in 0 .. Len(lines) :
          PageOf(page, call.offset, m, lines) /\ (m = Len(lines) <=> call.offset - 1 + call.limit >= Len(lines))
    BY <1>1, <2>1, WindowIsPart
  <2>3. page \in Seq(LineKinds)
    BY <1>1, <2>1, WindowIsPart
  <2> HIDE DEF page
  <2>4. PICK given \in Seq(LineKinds) : given = SubSeq(page, 1, Whole(page)) /\ (~cut => given = page)
    <3>1. SubSeq(page, 1, Whole(page)) \in Seq(LineKinds)
      BY <2>3, WholeIsPart
    <3>2. ~cut => SubSeq(page, 1, Whole(page)) = page
      BY <2>3, WholePage
    <3> QED
      BY <3>1, <3>2
  <2>5. /\ book' \in [target : Names \union {0}, first : Nat, lines : Seq(LineKinds), cut : BOOLEAN]
        /\ book'.target = book.target /\ book'.first = book.first /\ book'.lines = book.lines \o given
        /\ (~book'.cut => ~book.cut /\ ~cut)
    <3>1. book.lines \o given \in Seq(LineKinds) /\ cut \in BOOLEAN
      BY <1>1, <2>4, ConcatProperties DEF TypesOK, Fits
    <3> HIDE DEF cut
    <3> QED
      BY <1>1, <1>3, <2>4, <3>1 DEF TypesOK
  <2>6. PICK more \in BOOLEAN : more = (call.offset - 1 + call.limit < Len(lines) \/ cut)
    OBVIOUS
  <2>7. /\ answer'.ok = TRUE /\ answer'.count = Len(page) /\ answer'.more = more /\ call'.step = "done"
        /\ call'.tool = call.tool /\ call'.target = call.target /\ call'.offset = call.offset /\ TypesOK'
    <3>1. given \in Seq(Finds) /\ Len(page) \in Nat
      BY <2>3, <2>4, LenProperties DEF Finds
    <3> HIDE DEF cut
    <3>2. PICK ok \in BOOLEAN, count \in Nat : ok = TRUE /\ count = Len(page)
      BY <3>1
    <3>3. Return(ok, given, count, more)
      BY <1>3, <2>4, <2>6, <3>2
    <3>4. TypesOK /\ UNCHANGED <<files, changed, workspace>>
      BY <1>1
    <3>5. /\ answer'.ok = ok /\ answer'.count = count /\ answer'.more = more /\ call'.step = "done"
          /\ call'.tool = call.tool /\ call'.target = call.target /\ call'.offset = call.offset /\ TypesOK'
      BY <2>5, <3>1, <3>3, <3>4, ReturnFacts
    <3> QED
      BY <3>2, <3>5
  <2>8. ASSUME ~book'.cut, book.target \notin changed PROVE Pages(lines)'
    <3>1. Pages(lines) /\ given = page /\ ~cut
      BY <1>1, <2>4, <2>5, <2>8
    <3>2. PICK first \in Nat \ {0}, have \in Seq(LineKinds), h \in Nat :
            first = book.first /\ have = book.lines /\ h = Len(have) /\ call.offset = first + h
      <4>1. book.lines \in Seq(LineKinds) /\ book.first \in Nat /\ call.offset = book.first + Len(book.lines)
        BY <1>1, <3>1 DEF Pages, TypesOK
      <4>2. Len(book.lines) \in Nat /\ (book.lines = <<>> => Len(book.lines) = 0)
        BY <4>1, LenProperties
      <4>3. book.first # 0
        BY <2>1, <3>1, <4>1, <4>2 DEF Pages, PartOf
      <4> QED
        BY <4>1, <4>2, <4>3
    <3>3. PICK next \in Nat \ {0} : next = call.offset /\ next = first + Len(have)
      BY <2>1, <3>2
    <3>4. /\ PartOf(have \o page, first, lines) /\ Len(have \o page) = Len(have) + Len(page)
          /\ m = Len(lines) => have \o page = SubSeq(lines, first, Len(lines))
      <4>1. /\ PartOf(have, first, lines) /\ PageOf(page, next, m, lines) /\ lines \in Seq(LineKinds)
            /\ next = first + Len(have) /\ page \in Seq(LineKinds) /\ m \in 0 .. Len(lines)
        BY <1>1, <2>2, <2>3, <3>1, <3>2, <3>3 DEF Pages
      <4> QED
        BY <4>1, PagesJoin, SMTT(30)
    <3>5. book'.first = first /\ book'.lines = have \o page
      BY <2>5, <3>1, <3>2
    <3>6. call'.offset + answer'.count = first + Len(have \o page)
      <4>1. Len(page) \in Nat
        BY <2>3, LenProperties
      <4> QED
        BY <2>7, <3>2, <3>4, <4>1
    <3>7. ~answer'.more => m = Len(lines)
      <4>1. PICK n \in Nat, o \in Nat, l \in Nat : n = Len(lines) /\ o = call.offset - 1 /\ l = call.limit
        BY <1>1, <2>1, LenProperties
      <4>2. ~answer'.more => ~(o + l < n)
        BY <2>6, <2>7, <4>1
      <4> QED
        BY <2>2, <4>1, <4>2
    <3>8. lines' = lines
      BY <1>1, <2>7 DEF lines
    <3> QED
      BY <2>7, <3>4, <3>5, <3>6, <3>7, <3>8 DEF Pages
  <2> QED
    BY <1>1, <2>5, <2>7, <2>8 DEF ReadingInv, Reading, lines
<1> QED
  BY <1>1, <1>2, <1>3 DEF ReadText, lines

-----------------------------------------------------------------------------
(* Listing a directory *)

Silent == {n \in Names : files[n].kind \in {"hidden", "external"}}
Distinct(q) == \A i, j \in DOMAIN q : q[i] = q[j] => i = j

\* Of the entries nobody touched those that were gone through are in the list, if
\* they can be shown; of an untouched directory the others are counted.
ListOK ==
    /\ Distinct(work.found)
    /\ \A i \in DOMAIN work.found : work.found[i] \in Names \ work.todo
    /\ \A n \in Names \ changed :
        (\E i \in DOMAIN work.found : work.found[i] = n) <=> n \in (Present \ Silent) \ work.todo
    /\ changed = {} => work.omitted = Cardinality(Silent \ work.todo)

Listing ==
    /\ call.tool = "list_files" /\ call.step = "list" => ListOK
    /\ ListIsComplete

\* Nobody but a reader goes on after the end of a call.
Others == call.tool # "read_file"

LEMMA DistinctCount ==
    ASSUME NEW S, NEW q \in Seq(S), Distinct(q)
    PROVE  Cardinality(ToSet(q)) = Len(q)
<1>1. PICK n \in Nat : n = Len(q) /\ DOMAIN q = 1 .. n
  BY LenProperties
<1>2. ToSet(q) = {q[i] : i \in 1 .. n}
  BY <1>1 DEF ToSet
<1>3. IsFiniteSet(1 .. n) /\ Cardinality(1 .. n) = n
  <2>1. 1 \in Int /\ n \in Int /\ (IF 1 > n THEN 0 ELSE n - 1 + 1) = n
    OBVIOUS
  <2> QED
    BY <2>1, FS_Interval
<1>4. ExistsBijection(1 .. n, ToSet(q))
  <2> DEFINE f == [i \in 1 .. n |-> q[i]]
  <2>1. f \in Bijection(1 .. n, ToSet(q))
    <3>1. f \in [1 .. n -> ToSet(q)]
      BY <1>2
    <3>2. \A i, j \in 1 .. n : f[i] = f[j] => i = j
      BY <1>1 DEF Distinct
    <3>3. \A x \in ToSet(q) : \E i \in 1 .. n : f[i] = x
      BY <1>2
    <3> QED
      BY <3>1, <3>2, <3>3 DEF Bijection, Injection, Surjection, IsInjective
  <2> QED
    BY <2>1 DEF ExistsBijection
<1> QED
  BY <1>1, <1>3, <1>4, FS_Bijection

LEMMA LeastIsThere ==
    ASSUME NEW todo \in SUBSET Names, todo # {}
    PROVE  First(todo) \in todo
<1>1. \E n \in todo : \A m \in todo : n <= m
  BY ToolsAssumption, LeastExists
<1> QED
  BY <1>1 DEF First

LEMMA SilentCounts ==
    ASSUME NEW todo, NEW n \in Names, n \in todo
    PROVE  /\ Cardinality(Silent \ todo) \in Nat
           /\ n \in Silent => Cardinality(Silent \ (todo \ {n})) = Cardinality(Silent \ todo) + 1
           /\ n \notin Silent => Silent \ (todo \ {n}) = Silent \ todo
<1>1. IsFiniteSet(Silent \ todo)
  <2>1. Silent \ todo \subseteq Names
    BY DEF Silent
  <2> QED
    BY <2>1, ToolsAssumption, FS_Subset
<1>2. n \in Silent => Silent \ (todo \ {n}) = (Silent \ todo) \union {n}
  OBVIOUS
<1>3. n \notin Silent \ todo
  OBVIOUS
<1> QED
  <2>1. Cardinality(Silent \ todo) \in Nat
    BY <1>1, FS_CardinalityType
  <2>2. Cardinality((Silent \ todo) \union {n}) = Cardinality(Silent \ todo) + 1
    BY <1>1, <1>3, FS_AddElement
  <2>3. n \notin Silent => Silent \ (todo \ {n}) = Silent \ todo
    OBVIOUS
  <2> QED
    BY <1>2, <2>1, <2>2, <2>3

\* A step of a tool that does not return, or that returns nothing.
LEMMA OpenAnswer ==
    ASSUME TypesOK', call'.step # "done" \/ answer'.ok = FALSE
    PROVE  ListIsComplete' /\ SearchIsComplete'
BY DEF ListIsComplete, SearchIsComplete, Done

LEMMA ListStarts ==
    ASSUME ReadingInv, ListDirectory
    PROVE  ReadingInv' /\ Listing' /\ call'.tool = "list_files"
<1>1. UNCHANGED <<files, workspace, changed, book>> /\ call.tool = "list_files" /\ TypesOK
  BY DEF ListDirectory, CallStep, ReadingInv
<1>2. work' = [todo |-> Present, scanned |-> 0, found |-> <<>>, omitted |-> 0] /\ Goto("list")
  BY DEF ListDirectory, NoWork
<1>3. work' \in [todo : SUBSET Names, scanned : Nat, found : Seq(Finds), omitted : Nat] /\ "list" \in Steps
  <2>1. <<>> \in Seq(Finds) /\ Present \subseteq Names
    BY DEF Present
  <2> QED
    BY <1>2, <2>1 DEF Steps
<1>4. TypesOK' /\ call'.tool = "list_files" /\ call'.step = "list"
  BY <1>1, <1>2, <1>3, GotoFacts
<1>5. ListOK'
  <2>1. work'.found = <<>> /\ work'.todo = Present /\ work'.omitted = 0
    BY <1>2
  <2>2. Present' = Present /\ Silent' = Silent
    BY <1>1 DEF Present, Silent
  <2>3. Silent \ Present = {}
    BY DEF Silent, Present
  <2>4. Cardinality({}) = 0
    BY FS_EmptySet
  <2>5. DOMAIN work'.found = {}
    BY <2>1
  <2>6. \A n \in Names \ changed : n \notin (Present \ Silent) \ work'.todo
    BY <2>1
  <2> QED
    BY <1>1, <2>1, <2>2, <2>3, <2>4, <2>5, <2>6 DEF ListOK, Distinct
<1> QED
  BY <1>4, <1>5, OpenAnswer DEF Listing, ReadingInv, Reading

LEMMA ListGoesOn ==
    ASSUME ReadingInv, Listing, ListEntry
    PROVE  ReadingInv' /\ Listing' /\ call'.tool = "list_files"
<1> DEFINE n == First(work.todo)
<1>1. /\ UNCHANGED <<files, workspace, changed, book>> /\ call.tool = "list_files" /\ call.step = "list"
      /\ TypesOK /\ ListOK /\ n \in work.todo /\ n \in Names
      /\ work \in [todo : SUBSET Names, scanned : Nat, found : Seq(Finds), omitted : Nat]
  <2>1. work.todo \in SUBSET Names /\ work.todo # {}
    BY DEF ListEntry, ReadingInv, TypesOK
  <2> QED
    BY <2>1, LeastIsThere DEF ListEntry, CallStep, ReadingInv, Listing, TypesOK
<1> HIDE DEF n
<1>2. Present' = Present /\ Silent' = Silent
  BY <1>1 DEF Present, Silent
<1>3. CASE Fail
  <2>1. TypesOK' /\ answer'.ok = FALSE /\ call'.step = "done" /\ call'.tool = "list_files"
    BY <1>1, <1>3, FailFacts
  <2> QED
    BY <2>1, OpenAnswer DEF Listing, ReadingInv, Reading
<1>4. ASSUME Goto("list"), work' \in [todo : SUBSET Names, scanned : Nat, found : Seq(Finds), omitted : Nat], ListOK'
      PROVE  ReadingInv' /\ Listing' /\ call'.tool = "list_files"
  <2>1. "list" \in Steps
    BY DEF Steps
  <2>2. TypesOK' /\ call'.tool = "list_files" /\ call'.step = "list"
    BY <1>1, <1>4, <2>1, GotoFacts
  <2> QED
    BY <1>4, <2>2, OpenAnswer DEF Listing, ReadingInv, Reading
<1>5. CASE /\ files[n].kind \in {"hidden", "external"}
           /\ work' = [[work EXCEPT !.todo = @ \ {n}] EXCEPT !.omitted = @ + 1] /\ Goto("list")
  <2>1. /\ work' \in [todo : SUBSET Names, scanned : Nat, found : Seq(Finds), omitted : Nat]
        /\ work'.todo = work.todo \ {n} /\ work'.found = work.found /\ work'.omitted = work.omitted + 1
    <3>1. PICK o \in Nat : o = work.omitted + 1
      BY <1>1
    <3>2. work' = [[work EXCEPT !.todo = work.todo \ {n}] EXCEPT !.omitted = o]
      BY <1>5, <3>1
    <3> QED
      BY <1>1, <3>1, <3>2
  <2>2. n \in Silent /\ n \in Names
    BY <1>1, <1>5 DEF Silent
  <2>3. changed = {} => work.omitted + 1 = Cardinality(Silent \ (work.todo \ {n}))
    BY <1>1, <2>2, SilentCounts DEF ListOK
  <2>4. ListOK'
    BY <1>1, <1>2, <2>1, <2>2, <2>3 DEF ListOK
  <2> QED
    BY <1>4, <1>5, <2>1, <2>4
<1>6. CASE /\ files[n].kind \notin {"absent", "hidden", "external"}
           /\ work' = [[work EXCEPT !.todo = @ \ {n}] EXCEPT !.found = Append(@, n)] /\ Goto("list")
  <2>1. /\ work' \in [todo : SUBSET Names, scanned : Nat, found : Seq(Finds), omitted : Nat]
        /\ work'.todo = work.todo \ {n} /\ work'.found = Append(work.found, n) /\ work'.omitted = work.omitted
    <3>1. Append(work.found, n) \in Seq(Finds)
      BY <1>1 DEF Finds
    <3> QED
      BY <1>1, <1>6, <3>1
  <2>2. n \in Present \ Silent
    BY <1>1, <1>6 DEF Silent, Present
  <2>3. PICK k \in Nat : /\ k = Len(work.found) /\ DOMAIN work.found = 1 .. k /\ DOMAIN work'.found = 1 .. (k + 1)
                         /\ work'.found[k + 1] = n /\ \A i \in 1 .. k : work'.found[i] = work.found[i]
    <3>1. work.found \in Seq(Finds) /\ n \in Finds
      BY <1>1 DEF Finds
    <3>2. PICK k \in Nat : k = Len(work.found) /\ DOMAIN work.found = 1 .. k
      BY <3>1, LenProperties
    <3>3. Append(work.found, n) \in Seq(Finds) /\ Len(Append(work.found, n)) = k + 1
      BY <3>1, <3>2, AppendProperties
    <3>4. DOMAIN Append(work.found, n) = 1 .. (k + 1)
      BY <3>3, LenProperties
    <3>5. Append(work.found, n)[k + 1] = n /\ \A i \in 1 .. k : Append(work.found, n)[i] = work.found[i]
      BY <3>1, <3>2, AppendProperties
    <3> QED
      BY <2>1, <3>2, <3>4, <3>5
  <2>4. \A i \in DOMAIN work'.found : i = k + 1 \/ i \in DOMAIN work.found
    BY <2>3
  <2>5. Distinct(work.found) /\ \A i \in DOMAIN work.found : work.found[i] \in Names \ work.todo
    BY <1>1 DEF ListOK
  <2>6. \A i \in DOMAIN work.found : work.found[i] # n /\ work'.found[i] = work.found[i] /\ i \in DOMAIN work'.found
    BY <1>1, <2>3, <2>5
  <2>7. Distinct(work'.found)
    BY <2>3, <2>4, <2>5, <2>6 DEF Distinct
  <2>8. \A i \in DOMAIN work'.found : work'.found[i] \in Names \ work'.todo
    BY <1>1, <2>1, <2>3, <2>4, <2>5, <2>6
  <2>9. ASSUME NEW m \in Names \ changed
        PROVE  (\E i \in DOMAIN work'.found : work'.found[i] = m) <=> m \in (Present \ Silent) \ work'.todo
    <3>1. k + 1 \in DOMAIN work'.found
      BY <2>3
    <3>2. CASE m = n
      BY <2>1, <2>2, <2>3, <3>1, <3>2
    <3>3. CASE m # n
      <4>1. (\E i \in DOMAIN work'.found : work'.found[i] = m) <=> (\E i \in DOMAIN work.found : work.found[i] = m)
        BY <2>3, <2>4, <2>6, <3>3
      <4>2. (\E i \in DOMAIN work.found : work.found[i] = m) <=> m \in (Present \ Silent) \ work.todo
        BY <1>1, <2>9 DEF ListOK
      <4> QED
        BY <2>1, <3>3, <4>1, <4>2
    <3> QED
      BY <3>2, <3>3
  <2>10. changed = {} => work'.omitted = Cardinality(Silent \ work'.todo)
    <3>1. Silent \ (work.todo \ {n}) = Silent \ work.todo
      BY <2>2
    <3>2. changed = {} => work.omitted = Cardinality(Silent \ work.todo)
      BY <1>1 DEF ListOK
    <3> QED
      BY <2>1, <3>1, <3>2
  <2>11. ListOK'
    BY <1>1, <1>2, <2>7, <2>8, <2>9, <2>10 DEF ListOK
  <2> QED
    BY <1>4, <1>6, <2>1, <2>11
<1> QED
  BY <1>3, <1>5, <1>6 DEF ListEntry, n

LEMMA ListEnds ==
    ASSUME ReadingInv, Listing, ListDone
    PROVE  ReadingInv' /\ Listing' /\ call'.tool = "list_files"
<1>1. /\ UNCHANGED <<files, workspace, changed, book>> /\ call.tool = "list_files" /\ call.step = "list"
      /\ TypesOK /\ ListOK /\ work.todo = {} /\ work.found \in Seq(Finds) /\ work.omitted \in Nat
  BY DEF ListDone, CallStep, ReadingInv, Listing, TypesOK
<1>2. PICK k \in Nat : k = Len(work.found) /\ DOMAIN work.found = 1 .. k
  BY <1>1, LenProperties
<1>3. PICK c \in 0 .. k : c = Min({MaxListEntries, k}) /\ c <= MaxListEntries /\ (k <= MaxListEntries => c = k)
  <2>1. MaxListEntries \in Nat
    BY ToolsAssumption
  <2>2. Min({MaxListEntries, k}) = IF MaxListEntries <= k THEN MaxListEntries ELSE k
    BY <2>1, MinOfTwo
  <2>3. CASE MaxListEntries <= k
    BY <2>1, <2>2, <2>3
  <2>4. CASE ~(MaxListEntries <= k)
    BY <2>1, <2>2, <2>4
  <2> QED
    BY <2>3, <2>4
<1>4. PICK q \in Seq(Finds) : /\ q = SubSeq(work.found, 1, c) /\ Len(q) = c /\ DOMAIN q = 1 .. c
                              /\ \A i \in 1 .. c : q[i] = work.found[i]
  <2>1. 1 \in Int /\ c \in Int /\ \A i \in 1 .. c : work.found[i] \in Finds
    BY <1>1, <1>2, LenProperties
  <2>2. /\ SubSeq(work.found, 1, c) \in Seq(Finds)
        /\ Len(SubSeq(work.found, 1, c)) = IF 1 <= c THEN c - 1 + 1 ELSE 0
        /\ \A i \in 1 .. c - 1 + 1 : SubSeq(work.found, 1, c)[i] = work.found[1 + i - 1]
    BY <2>1, SubSeqProperties
  <2>3. c - 1 + 1 = c /\ (~(1 <= c) => c = 0) /\ \A i \in 1 .. c : 1 + i - 1 = i
    OBVIOUS
  <2>4. Len(SubSeq(work.found, 1, c)) = c /\ \A i \in 1 .. c : SubSeq(work.found, 1, c)[i] = work.found[i]
    BY <2>2, <2>3
  <2>5. DOMAIN SubSeq(work.found, 1, c) = 1 .. c
    BY <2>2, <2>4, LenProperties
  <2> QED
    BY <2>2, <2>4, <2>5
<1>13. PICK M \in Nat : M = MaxListEntries
  BY ToolsAssumption
<1>5. PICK more \in BOOLEAN : more = (k > M)
  <2>1. (k > M) \in BOOLEAN
    OBVIOUS
  <2> QED
    BY <2>1, Zenon
<1>12. ~more => k <= MaxListEntries
  <2>1. ~(k > M) => k <= M
    OBVIOUS
  <2> QED
    BY <1>5, <1>13, <2>1
<1>6. /\ answer'.ok = TRUE /\ answer'.found = q /\ answer'.count = work.omitted /\ answer'.more = more
      /\ call'.step = "done" /\ call'.tool = "list_files" /\ TypesOK'
  <2>1. PICK o \in Nat : o = work.omitted
    BY <1>1
  <2>2. Return(TRUE, q, o, more)
    <3>1. Return(TRUE, SubSeq(work.found, 1, Min({MaxListEntries, k})), work.omitted, Len(work.found) > MaxListEntries)
      BY <1>2 DEF ListDone
    <3> QED
      BY <1>2, <1>3, <1>4, <1>5, <1>13, <2>1, <3>1
  <2>3. Returned(q, o, more)
    BY <1>1, <2>2 DEF Returned
  <2> QED
    BY <1>1, <2>1, <2>3, ReturnedFacts
<1>7. Distinct(q) /\ Cardinality(ToSet(q)) = c /\ c <= MaxListEntries
  <2>1. Distinct(q)
    BY <1>1, <1>2, <1>4 DEF ListOK, Distinct
  <2> QED
    BY <1>3, <1>4, <2>1, DistinctCount
<1>8. ASSUME ~more PROVE ToSet(q) \ changed = (Present \ Silent) \ changed
  <2>1. c = k
    BY <1>3, <1>8, <1>12
  <2>2. ToSet(q) = {work.found[i] : i \in DOMAIN work.found}
    BY <1>2, <1>4, <2>1 DEF ToSet
  <2>3. ToSet(q) \subseteq Names /\ Present \subseteq Names
    BY <1>1, <2>2 DEF ListOK, Present
  <2>4. \A n \in Names \ changed : n \in ToSet(q) <=> n \in Present \ Silent
    BY <1>1, <2>2 DEF ListOK
  <2> QED
    BY <2>3, <2>4
<1>9. changed = {} => work.omitted = Cardinality(Silent)
  <2>1. Silent \ work.todo = Silent
    BY <1>1
  <2> QED
    BY <1>1, <2>1 DEF ListOK
<1>10. Present' = Present /\ Silent' = Silent
  BY <1>1 DEF Present, Silent
<1>11. ListIsComplete'
  BY <1>1, <1>4, <1>6, <1>7, <1>8, <1>9, <1>10 DEF ListIsComplete, Silent
<1> QED
  BY <1>6, <1>11 DEF Listing, ReadingInv, Reading

LEMMA ListEdited ==
    ASSUME ReadingInv, Listing, NEW n \in Names, NEW f \in FileType, Edit(n, f)
    PROVE  Listing'
<1>1. /\ files' = [files EXCEPT ![n] = f] /\ changed' = changed \union {n} /\ files \in [Names -> FileType]
      /\ UNCHANGED <<workspace, call, work, answer, book>>
      /\ call.step = "done" => answer.tool = "read_file"
  BY DEF Edit, ReadingInv, TypesOK
<1>2. \A m \in Names \ changed' : m \notin changed /\ files'[m] = files[m]
  BY <1>1
<1>3. \A m \in Names \ changed' : m \in (Present \ Silent)' <=> m \in Present \ Silent
  BY <1>2 DEF Present, Silent
<1>4. changed' # {}
  BY <1>1
<1>5. ListOK => ListOK'
  BY <1>1, <1>2, <1>3, <1>4 DEF ListOK, Distinct
<1>6. ListIsComplete'
  BY <1>1 DEF ListIsComplete, Done
<1> QED
  BY <1>1, <1>5, <1>6 DEF Listing

-----------------------------------------------------------------------------
(* Searching the files *)

Reports(q, n, what) == Cardinality({i \in DOMAIN q : q[i] = <<n, what>>})
Lines(n) == Min({Hits(n), MaxMatchesPerFile})

\* What a search says of a file it has looked into.
Told(q, n) ==
    /\ Reports(q, n, "name") = (IF files[n].named THEN 1 ELSE 0)
    /\ files[n].kind \in {"text", "hidden"} => Reports(q, n, "content") = Lines(n)

SearchOK ==
    /\ Len(work.found) <= MaxSearchResults
    /\ \A i \in DOMAIN work.found : \A n \in work.todo : work.found[i] \notin {<<n, "name">>, <<n, "content">>}
    /\ \A n \in work.todo : n \in changed \/ files[n].kind \in Regular
    /\ Len(work.found) < MaxSearchResults =>
        \A n \in Names \ changed : files[n].kind \in Regular /\ n \notin work.todo => Told(work.found, n)

Searching ==
    /\ call.tool = "search_files" /\ call.step = "search" => SearchOK
    /\ SearchIsComplete

\* A report with k matches of one kind in one file added to it.
Adds(q, s, n, what, k) ==
    /\ s \in Seq(Finds) /\ Len(s) = Len(q) + k
    /\ \A i \in DOMAIN s : s[i] = <<n, what>> \/ (i \in DOMAIN q /\ s[i] = q[i])
    /\ \A m, w : <<m, w>> # <<n, what>> => Reports(s, m, w) = Reports(q, m, w)
    /\ (\A i \in DOMAIN q : q[i] # <<n, what>>) => Reports(s, n, what) = k

LEMMA FoundAppended ==
    ASSUME NEW q \in Seq(Finds), NEW n \in Names, NEW what \in {"name", "content"}, NEW k \in Nat
    PROVE  Adds(q, q \o Found(n, what, k), n, what, k)
<1> DEFINE t == Found(n, what, k)
           s == q \o t
<1>1. t \in Seq(Finds) /\ Len(t) = k /\ \A i \in 1 .. k : t[i] = <<n, what>>
  <2>1. <<n, what>> \in Finds
    BY DEF Finds
  <2>2. t = [i \in 1 .. k |-> <<n, what>>]
    BY DEF Found
  <2> QED
    BY <2>1, <2>2
<1>2. PICK l \in Nat : l = Len(q) /\ DOMAIN q = 1 .. l
  BY LenProperties
<1>3. s \in Seq(Finds) /\ Len(s) = l + k /\ \A i \in 1 .. l + k : s[i] = IF i <= l THEN q[i] ELSE t[i - l]
  BY <1>1, <1>2, ConcatProperties
<1>4. DOMAIN s = 1 .. l + k
  BY <1>3, LenProperties
<1>5. /\ \A i \in 1 .. l : i \in 1 .. l + k /\ s[i] = q[i]
      /\ \A i \in l + 1 .. l + k : i \in 1 .. l + k /\ s[i] = <<n, what>>
      /\ \A i \in 1 .. l + k : i \in 1 .. l \/ i \in l + 1 .. l + k
  <2>1. \A i \in l + 1 .. l + k : i \in 1 .. l + k /\ ~(i <= l) /\ i - l \in 1 .. k
    OBVIOUS
  <2>2. \A i \in 1 .. l : i \in 1 .. l + k /\ i <= l
    OBVIOUS
  <2>3. \A i \in 1 .. l + k : i \in 1 .. l \/ i \in l + 1 .. l + k
    OBVIOUS
  <2> QED
    BY <1>1, <1>3, <2>1, <2>2, <2>3
<1> HIDE DEF s, t
<1>6. ASSUME NEW m, NEW w, <<m, w>> # <<n, what>> PROVE Reports(s, m, w) = Reports(q, m, w)
  <2>1. {i \in DOMAIN s : s[i] = <<m, w>>} = {i \in DOMAIN q : q[i] = <<m, w>>}
    BY <1>2, <1>4, <1>5, <1>6
  <2> QED
    BY <2>1 DEF Reports
<1>7. ASSUME \A i \in DOMAIN q : q[i] # <<n, what>> PROVE Reports(s, n, what) = k
  <2>1. {i \in DOMAIN s : s[i] = <<n, what>>} = l + 1 .. l + k
    BY <1>2, <1>4, <1>5, <1>7
  <2>2. Cardinality(l + 1 .. l + k) = k
    <3>1. l + 1 \in Int /\ l + k \in Int /\ (IF l + 1 > l + k THEN 0 ELSE (l + k) - (l + 1) + 1) = k
      OBVIOUS
    <3> QED
      BY <3>1, FS_Interval
  <2> QED
    BY <2>1, <2>2 DEF Reports
<1> QED
  BY <1>2, <1>3, <1>4, <1>5, <1>6, <1>7 DEF s, t, Adds

LEMMA HitsTyped ==
    ASSUME NEW n \in Names, files \in [Names -> FileType]
    PROVE  Hits(n) \in Nat
<1>1. PICK l \in Nat : DOMAIN files[n].lines = 1 .. l
  BY LenProperties DEF FileType
<1>2. IsFiniteSet(1 .. l)
  BY FS_Interval
<1>3. {i \in DOMAIN files[n].lines : files[n].lines[i] = "hit"} \subseteq 1 .. l
  BY <1>1
<1> QED
  BY <1>2, <1>3, FS_Subset, FS_CardinalityType DEF Hits

LEMMA MinOfThree ==
    ASSUME NEW a \in Nat, NEW b \in Nat, NEW c \in Nat
    PROVE  /\ Min({a, b, c}) \in Nat /\ Min({a, b, c}) <= c
           /\ Min({a, b, c}) < c => Min({a, b, c}) = Min({a, b})
<1>1. PICK m \in {a, b, c} : m <= a /\ m <= b /\ m <= c
  <2>1. CASE a <= b /\ a <= c
    BY <2>1
  <2>2. CASE b <= a /\ b <= c
    BY <2>2
  <2>3. CASE c <= a /\ c <= b
    BY <2>3
  <2> QED
    BY <2>1, <2>2, <2>3
<1>2. m \in Nat /\ \A x \in {a, b, c} : (\A y \in {a, b, c} : x <= y) => x = m
  BY <1>1
<1>3. Min({a, b, c}) = m
  BY <1>1, <1>2 DEF Min
<1>4. m < c => m = Min({a, b})
  <2>1. Min({a, b}) = IF a <= b THEN a ELSE b
    BY MinOfTwo
  <2> QED
    BY <1>1, <2>1
<1> QED
  BY <1>1, <1>2, <1>3, <1>4

LEMMA SearchStarts ==
    ASSUME ReadingInv, WalkDirectory
    PROVE  ReadingInv' /\ Searching' /\ call'.tool = "search_files"
<1>1. UNCHANGED <<files, workspace, changed, book>> /\ call.tool = "search_files" /\ TypesOK
  BY DEF WalkDirectory, CallStep, ReadingInv
<1>2. /\ work' = [todo |-> {n \in Names : files[n].kind \in Regular}, scanned |-> 0, found |-> <<>>, omitted |-> 0]
      /\ Goto("search")
  BY DEF WalkDirectory, NoWork
<1>3. work' \in [todo : SUBSET Names, scanned : Nat, found : Seq(Finds), omitted : Nat] /\ "search" \in Steps
  <2>1. <<>> \in Seq(Finds) /\ {n \in Names : files[n].kind \in Regular} \subseteq Names
    OBVIOUS
  <2> QED
    BY <1>2, <2>1 DEF Steps
<1>4. TypesOK' /\ call'.tool = "search_files" /\ call'.step = "search"
  BY <1>1, <1>2, <1>3, GotoFacts
<1>5. SearchOK'
  <2>1. work'.found = <<>> /\ work'.todo = {n \in Names : files[n].kind \in Regular} /\ DOMAIN work'.found = {}
    BY <1>2
  <2>2. Len(work'.found) <= MaxSearchResults
    <3>1. Len(<<>>) = 0 /\ MaxSearchResults \in Nat
      BY ToolsAssumption
    <3> QED
      BY <2>1, <3>1
  <2> QED
    BY <1>1, <2>1, <2>2 DEF SearchOK
<1> QED
  BY <1>4, <1>5, OpenAnswer DEF Searching, ReadingInv, Reading

\* What the search of a file leaves.
Looked(s, n) ==
    /\ s \in Seq(Finds) /\ Len(s) <= MaxSearchResults
    /\ \A i \in DOMAIN s : \A m \in work.todo \ {n} : s[i] \notin {<<m, "name">>, <<m, "content">>}
    /\ \A m, w : m # n => Reports(s, m, w) = Reports(work.found, m, w)
    /\ Len(s) < MaxSearchResults => Told(s, n)

LEMMA NameLooked ==
    ASSUME TypesOK, SearchOK, NEW n \in work.todo, ~(Len(work.found) >= MaxSearchResults)
    PROVE  \E a \in {0, 1} :
             /\ a = (IF files[n].named THEN 1 ELSE 0)
             /\ Adds(work.found, work.found \o NameMatches(n), n, "name", a)
             /\ Len(work.found \o NameMatches(n)) <= MaxSearchResults
             /\ Reports(work.found \o NameMatches(n), n, "name") = a
             /\ \A i \in DOMAIN (work.found \o NameMatches(n)) : (work.found \o NameMatches(n))[i] # <<n, "content">>
<1>1. work.found \in Seq(Finds) /\ n \in Names
  BY DEF TypesOK
<1>2. PICK l \in Nat, M \in Nat : l = Len(work.found) /\ M = MaxSearchResults /\ ~(l >= M)
  BY <1>1, ToolsAssumption, LenProperties
<1>3. PICK a \in {0, 1} : a = (IF files[n].named THEN 1 ELSE 0) /\ a \in Nat
  OBVIOUS
<1>4. NameMatches(n) = Found(n, "name", a)
  BY <1>3 DEF NameMatches
<1>5. Adds(work.found, work.found \o NameMatches(n), n, "name", a)
  BY <1>1, <1>3, <1>4, FoundAppended
<1> DEFINE s == work.found \o NameMatches(n)
<1>6. Adds(work.found, s, n, "name", a)
  BY <1>5
<1> HIDE DEF s
<1>7. \A i \in DOMAIN work.found : work.found[i] # <<n, "name">> /\ work.found[i] # <<n, "content">>
  BY DEF SearchOK
<1>8. Reports(s, n, "name") = a
  BY <1>6, <1>7 DEF Adds
<1>9. Len(s) = l + a
  BY <1>2, <1>6 DEF Adds
<1>10. Len(s) <= MaxSearchResults
  <2>1. l + a <= M
    <3>1. l + 1 <= M /\ l + 0 <= M
      BY <1>2
    <3> QED
      BY <3>1
  <2> QED
    BY <1>2, <1>9, <2>1
<1>11. \A i \in DOMAIN s : s[i] # <<n, "content">>
  BY <1>6, <1>7 DEF Adds
<1> QED
  BY <1>3, <1>6, <1>8, <1>10, <1>11 DEF s

LEMMA ContentRoom ==
    ASSUME TypesOK, NEW n \in Names, NEW q \in Seq(Finds), ~(Len(q) >= MaxSearchResults)
    PROVE  \E k \in Nat :
             /\ ContentMatches(n, q) = Found(n, "content", k) /\ Len(q) + k <= MaxSearchResults
             /\ Len(q) + k < MaxSearchResults /\ files[n].kind \in {"text", "hidden"} => k = Lines(n)
<1>1. PICK l \in Nat, M \in Nat : l = Len(q) /\ M = MaxSearchResults /\ ~(l >= M)
  BY ToolsAssumption, LenProperties
<1>2. CASE files[n].kind \notin {"text", "hidden"}
  <2>1. ContentMatches(n, q) = <<>> /\ Found(n, "content", 0) = <<>>
    BY <1>2 DEF ContentMatches, Found
  <2>2. l + 0 <= M /\ 0 \in Nat
    BY <1>1
  <2> QED
    BY <1>1, <1>2, <2>1, <2>2
<1>3. CASE files[n].kind \in {"text", "hidden"}
  <2>1. PICK room \in Nat : room = M - l /\ l + room = M
    BY <1>1
  <2>2. PICK hits \in Nat, most \in Nat : hits = Hits(n) /\ most = MaxMatchesPerFile
    BY ToolsAssumption, HitsTyped DEF TypesOK
  <2>3. PICK k \in Nat : k = Min({hits, most, room}) /\ k <= room /\ (k < room => k = Min({hits, most}))
    BY MinOfThree
  <2>4. ContentMatches(n, q) = Found(n, "content", k)
    BY <1>1, <1>3, <2>1, <2>2, <2>3 DEF ContentMatches
  <2>5. l + k <= M /\ (l + k < M => k < room)
    BY <2>1, <2>3
  <2>6. k < room => k = Lines(n)
    BY <2>2, <2>3 DEF Lines
  <2> QED
    BY <1>1, <2>4, <2>5, <2>6
<1> QED
  BY <1>2, <1>3

\* The search of one file, with what it adds.
LEMMA FileLooked ==
    ASSUME TypesOK, SearchOK, NEW n \in work.todo, ~(Len(work.found) >= MaxSearchResults),
           NEW q, q = work.found \o NameMatches(n), ~(Len(q) >= MaxSearchResults)
    PROVE  Looked(q \o ContentMatches(n, q), n)
<1>1. n \in Names
  BY DEF TypesOK
<1>2. PICK a \in {0, 1} :
        /\ a = (IF files[n].named THEN 1 ELSE 0) /\ Adds(work.found, q, n, "name", a)
        /\ Reports(q, n, "name") = a /\ \A i \in DOMAIN q : q[i] # <<n, "content">>
  BY NameLooked
<1>3. q \in Seq(Finds)
  BY <1>2 DEF Adds
<1>4. PICK k \in Nat :
        /\ ContentMatches(n, q) = Found(n, "content", k) /\ Len(q) + k <= MaxSearchResults
        /\ Len(q) + k < MaxSearchResults /\ files[n].kind \in {"text", "hidden"} => k = Lines(n)
  BY <1>1, <1>3, ContentRoom
<1> DEFINE s == q \o ContentMatches(n, q)
<1>5. Adds(q, s, n, "content", k)
  BY <1>1, <1>3, <1>4, FoundAppended
<1> HIDE DEF s
<1>6. s \in Seq(Finds) /\ Len(s) <= MaxSearchResults
  BY <1>4, <1>5 DEF Adds
<1>7. \A i \in DOMAIN s : \A m \in work.todo \ {n} : s[i] \notin {<<m, "name">>, <<m, "content">>}
  <2>1. \A i \in DOMAIN work.found : \A m \in work.todo : work.found[i] \notin {<<m, "name">>, <<m, "content">>}
    BY DEF SearchOK
  <2>2. \A i \in DOMAIN q : q[i] = <<n, "name">> \/ (i \in DOMAIN work.found /\ q[i] = work.found[i])
    BY <1>2 DEF Adds
  <2>3. \A i \in DOMAIN s : s[i] = <<n, "content">> \/ (i \in DOMAIN q /\ s[i] = q[i])
    BY <1>5 DEF Adds
  <2> QED
    BY <2>1, <2>2, <2>3
<1>8. \A m, w : m # n => Reports(s, m, w) = Reports(work.found, m, w)
  <2>1. \A m, w : m # n => <<m, w>> # <<n, "content">> /\ <<m, w>> # <<n, "name">>
    OBVIOUS
  <2>2. \A m, w : <<m, w>> # <<n, "content">> => Reports(s, m, w) = Reports(q, m, w)
    BY <1>5 DEF Adds
  <2>3. \A m, w : <<m, w>> # <<n, "name">> => Reports(q, m, w) = Reports(work.found, m, w)
    BY <1>2 DEF Adds
  <2> QED
    BY <2>1, <2>2, <2>3
<1>9. Reports(s, n, "name") = a
  <2>1. <<n, "name">> # <<n, "content">>
    OBVIOUS
  <2>2. Reports(s, n, "name") = Reports(q, n, "name")
    BY <1>5, <2>1 DEF Adds
  <2> QED
    BY <1>2, <2>2
<1>10. Reports(s, n, "content") = k /\ Len(s) = Len(q) + k
  BY <1>2, <1>5 DEF Adds
<1>11. Len(s) < MaxSearchResults => Told(s, n)
  BY <1>2, <1>4, <1>9, <1>10 DEF Told
<1> QED
  BY <1>6, <1>7, <1>8, <1>11 DEF Looked, s

\* A search that returns what it has found.
LEMMA SearchReturns ==
    ASSUME ReadingInv, call.tool = "search_files", NEW q, NEW more, Returned(q, 0, more),
           Len(q) <= MaxSearchResults,
           ~more /\ Len(q) < MaxSearchResults =>
               \A n \in Names \ changed : files[n].kind \in Regular => Told(q, n)
    PROVE  ReadingInv' /\ Searching' /\ call'.tool = "search_files"
<1>1. /\ answer'.found = q /\ answer'.more = more /\ call'.step = "done" /\ call'.tool = "search_files" /\ TypesOK'
      /\ files' = files /\ changed' = changed
  BY ReturnedFacts DEF ReadingInv, Returned
<1>2. ASSUME ~answer'.more, Len(answer'.found) < MaxSearchResults,
             NEW n \in {m \in Names \ changed' : files'[m].kind \in Regular}
      PROVE  /\ Reports(answer'.found, n, "name") = (IF files'[n].named THEN 1 ELSE 0)
             /\ files'[n].kind \in {"text", "hidden"} => Reports(answer'.found, n, "content") = Lines(n)
  BY <1>1, <1>2 DEF Told
<1>3. \A n : Lines(n)' = Lines(n) /\ Lines(n) = Min({Hits(n), MaxMatchesPerFile}) /\ Hits(n)' = Hits(n)
  BY <1>1 DEF Lines, Hits
<1>4. SearchIsComplete'
  BY <1>1, <1>2, <1>3 DEF SearchIsComplete, Reports
<1> QED
  BY <1>1, <1>4 DEF Searching, ReadingInv, Reading

\* A search that goes on with the other files.
LEMMA SearchKeepsOn ==
    ASSUME ReadingInv, call.tool = "search_files", Goto("search"),
           UNCHANGED <<files, changed, workspace, book>>,
           work' \in [todo : SUBSET Names, scanned : Nat, found : Seq(Finds), omitted : Nat], SearchOK'
    PROVE  ReadingInv' /\ Searching' /\ call'.tool = "search_files"
<1>1. "search" \in Steps
  BY DEF Steps
<1>2. TypesOK' /\ call'.tool = "search_files" /\ call'.step = "search"
  BY <1>1, GotoFacts DEF ReadingInv
<1> QED
  BY <1>2, OpenAnswer DEF Searching, ReadingInv, Reading

LEMMA SearchGoesOn ==
    ASSUME ReadingInv, Searching, NEW n, SearchFile(n)
    PROVE  ReadingInv' /\ Searching' /\ call'.tool = "search_files"
<1>1. /\ UNCHANGED <<files, changed, workspace, book>> /\ UNCHANGED <<files, changed, workspace>> /\ UNCHANGED book
      /\ call.tool = "search_files" /\ call.step = "search" /\ n \in work.todo /\ TypesOK /\ SearchOK
  BY DEF SearchFile, CallStep, ReadingInv, Searching
<1>2. /\ work \in [todo : SUBSET Names, scanned : Nat, found : Seq(Finds), omitted : Nat]
      /\ n \in Names /\ work.todo \subseteq Names
  BY <1>1 DEF TypesOK
<1> DEFINE found == work.found \o NameMatches(n)
<1>3. CASE SearchFull /\ Return(TRUE, work.found, 0, TRUE)
  <2>1. Returned(work.found, 0, TRUE)
    BY <1>1, <1>2, <1>3 DEF Returned
  <2>2. Len(work.found) <= MaxSearchResults
    BY <1>1 DEF SearchOK
  <2> QED
    BY <1>1, <2>1, <2>2, SearchReturns
<1>4. ASSUME ~SearchFull PROVE ~(Len(work.found) >= MaxSearchResults)
  BY <1>4 DEF SearchFull
<1>5. CASE ~Resolves(n) /\ work' = [work EXCEPT !.todo = @ \ {n}] /\ Goto("search")
  <2>1. /\ work' \in [todo : SUBSET Names, scanned : Nat, found : Seq(Finds), omitted : Nat]
        /\ work'.found = work.found /\ work'.todo = work.todo \ {n}
    BY <1>2, <1>5
  <2>2. files[n].kind \notin Regular
    BY <1>5 DEF Resolves, Regular, Texts
  <2>3. SearchOK'
    <3>1. \A q, m : Told(q, m)' = Told(q, m)
      BY <1>1 DEF Told, Reports, Lines, Hits
    <3> QED
      BY <1>1, <2>1, <2>2, <3>1 DEF SearchOK
  <2> QED
    BY <1>1, <1>5, <2>1, <2>3, SearchKeepsOn
<1>6. CASE ~SearchFull /\ Len(found) >= MaxSearchResults /\ Return(TRUE, found, 0, TRUE)
  <2>1. PICK a : Adds(work.found, found, n, "name", a) /\ Len(found) <= MaxSearchResults
    BY <1>1, <1>4, <1>6, NameLooked
  <2>2. found \in Seq(Finds)
    BY <2>1 DEF Adds
  <2> HIDE DEF found
  <2>3. Returned(found, 0, TRUE)
    BY <1>1, <1>6, <2>2 DEF Returned
  <2> QED
    BY <1>1, <2>1, <2>3, SearchReturns
<1>7. CASE /\ ~SearchFull /\ ~(Len(found) >= MaxSearchResults)
           /\ work' = [[work EXCEPT !.todo = @ \ {n}] EXCEPT !.scanned = @ + 1, !.found = found \o ContentMatches(n, found)]
           /\ Goto("search")
  <2>1. PICK s : s = found \o ContentMatches(n, found) /\ Looked(s, n)
    <3> HIDE DEF found
    <3>1. found = work.found \o NameMatches(n) /\ ~(Len(found) >= MaxSearchResults)
      BY <1>7 DEF found
    <3> QED
      BY <1>1, <1>4, <1>7, <3>1, FileLooked
  <2>2. s \in Seq(Finds)
    BY <2>1 DEF Looked
  <2>3. /\ work' \in [todo : SUBSET Names, scanned : Nat, found : Seq(Finds), omitted : Nat]
        /\ work'.found = s /\ work'.todo = work.todo \ {n}
    <3> HIDE DEF found
    <3>1. PICK r \in Nat : r = work.scanned + 1
      BY <1>2
    <3>2. work' = [[work EXCEPT !.todo = work.todo \ {n}] EXCEPT !.scanned = r, !.found = s]
      BY <1>7, <2>1, <3>1
    <3> QED
      BY <1>2, <2>2, <3>1, <3>2
  <2>4. SearchOK'
    <3> HIDE DEF found
    <3>1. \A q, m : Told(q, m)' = Told(q, m)
      BY <1>1 DEF Told, Reports, Lines, Hits
    <3>2. ASSUME Len(s) < MaxSearchResults, NEW m \in Names \ changed, files[m].kind \in Regular, m \notin work.todo \ {n}
          PROVE  Told(s, m)
      <4>1. CASE m = n
        BY <2>1, <3>2, <4>1 DEF Looked
      <4>2. CASE m # n
        <5>1. Reports(s, m, "name") = Reports(work.found, m, "name") /\ Reports(s, m, "content") = Reports(work.found, m, "content")
          BY <2>1, <4>2 DEF Looked
        <5>2. Len(work.found) < MaxSearchResults
          <6>1. PICK l \in Nat, M \in Nat : l = Len(work.found) /\ M = MaxSearchResults
            BY <1>2, ToolsAssumption, LenProperties
          <6>2. ~(l >= M)
            BY <1>4, <1>7, <6>1
          <6> QED
            BY <6>1, <6>2
        <5>3. Told(work.found, m)
          BY <1>1, <3>2, <4>2, <5>2 DEF SearchOK
        <5> QED
          BY <5>1, <5>3 DEF Told
      <4> QED
        BY <4>1, <4>2
    <3>3. Len(s) <= MaxSearchResults
      BY <2>1 DEF Looked
    <3>4. \A i \in DOMAIN s : \A m \in work.todo \ {n} : s[i] \notin {<<m, "name">>, <<m, "content">>}
      BY <2>1 DEF Looked
    <3>5. \A m \in work.todo \ {n} : m \in changed \/ files[m].kind \in Regular
      BY <1>1 DEF SearchOK
    <3> QED
      BY <1>1, <2>3, <3>1, <3>2, <3>3, <3>4, <3>5 DEF SearchOK
  <2> QED
    BY <1>1, <1>7, <2>3, <2>4, SearchKeepsOn
<1> QED
  BY <1>3, <1>5, <1>6, <1>7 DEF SearchFile

LEMMA SearchEnds ==
    ASSUME ReadingInv, Searching, SearchDone
    PROVE  ReadingInv' /\ Searching' /\ call'.tool = "search_files"
<1>1. /\ UNCHANGED <<files, changed, workspace>> /\ UNCHANGED book
      /\ call.tool = "search_files" /\ work.todo = {} /\ SearchOK /\ work.found \in Seq(Finds)
  BY DEF SearchDone, CallStep, ReadingInv, Searching, TypesOK
<1>2. Returned(work.found, 0, FALSE)
  BY <1>1 DEF SearchDone, Returned
<1>3. /\ Len(work.found) <= MaxSearchResults
      /\ Len(work.found) < MaxSearchResults => \A n \in Names \ changed : files[n].kind \in Regular => Told(work.found, n)
  BY <1>1 DEF SearchOK
<1> QED
  BY <1>1, <1>2, <1>3, SearchReturns

LEMMA SearchEdited ==
    ASSUME ReadingInv, Searching, NEW n \in Names, NEW f \in FileType, Edit(n, f)
    PROVE  Searching'
<1>1. /\ files' = [files EXCEPT ![n] = f] /\ changed' = changed \union {n} /\ files \in [Names -> FileType]
      /\ UNCHANGED <<workspace, call, work, answer, book>> /\ work.todo \subseteq Names
      /\ call.step = "done" => answer.tool = "read_file"
  BY DEF Edit, ReadingInv, TypesOK
<1>2. \A m \in Names \ changed' : m \notin changed /\ files'[m] = files[m]
  BY <1>1
<1>3. \A m \in Names \ changed' : Told(work.found, m)' <=> Told(work.found, m)
  BY <1>1, <1>2 DEF Told, Reports, Lines, Hits
<1>4. \A m \in Names : m \notin changed' => files'[m] = files[m] /\ m \notin changed
  BY <1>2
<1>5. SearchOK => SearchOK'
  BY <1>1, <1>3, <1>4 DEF SearchOK
<1>6. SearchIsComplete'
  BY <1>1 DEF SearchIsComplete, Done
<1> QED
  BY <1>1, <1>5, <1>6 DEF Searching

-----------------------------------------------------------------------------
(* All the tools *)

ToolsInv == ReadingInv /\ Listing /\ Searching

LEMMA NotListing ==
    ASSUME TypesOK', call'.tool # "list_files"
    PROVE  Listing'
BY DEF Listing, ListIsComplete, Done, TypesOK

LEMMA NotSearching ==
    ASSUME TypesOK', call'.tool # "search_files"
    PROVE  Searching'
BY DEF Searching, SearchIsComplete, Done, TypesOK

LEMMA ToolsStart ==
    ASSUME Init
    PROVE  ToolsInv
<1>1. ReadingInv
  BY ReadingStart
<1>2. Listing /\ Searching
  BY DEF Init, NoCall, NoAnswer, Listing, Searching, ListIsComplete, SearchIsComplete, Done
<1> QED
  BY <1>1, <1>2 DEF ToolsInv

LEMMA ToolsPrepare ==
    ASSUME ToolsInv, NEW tool \in Tools \union {"unknown"}, NEW arguments \in Arguments(tool), Prepare(tool, arguments)
    PROVE  ToolsInv'
<1>1. ReadingInv'
  BY ReadingPrepare DEF ToolsInv
<1>2. TypesOK'
  BY <1>1 DEF ReadingInv
<1>3. answer'.ok = FALSE /\ call'.step \in {"start", "done"}
  BY DEF Prepare, NoAnswer
<1> QED
  BY <1>1, <1>2, <1>3, OpenAnswer DEF ToolsInv, Listing, Searching

\* The tools that look at no directory.
LEMMA ToolsReturn ==
    ASSUME ToolsInv, Calculate \/ FileInfo
    PROVE  ToolsInv'
<1>1. /\ UNCHANGED <<files, changed, workspace, book>> /\ UNCHANGED <<files, changed, workspace>> /\ UNCHANGED book
      /\ call.tool \in {"calculator", "get_file_info"} /\ TypesOK
  BY DEF Calculate, FileInfo, CallStep, ToolsInv, ReadingInv
<1>2. <<>> \in Seq(Finds) /\ 0 \in Nat
  OBVIOUS
<1>3. book' \in [target : Names \union {0}, first : Nat, lines : Seq(LineKinds), cut : BOOLEAN]
  BY <1>1 DEF TypesOK
<1>4. ASSUME NEW ok \in BOOLEAN, NEW found \in Seq(Finds), NEW more \in BOOLEAN, Return(ok, found, 0, more)
      PROVE  ToolsInv'
  <2>1. call'.tool = call.tool /\ TypesOK'
    BY <1>1, <1>2, <1>3, <1>4, ReturnFacts
  <2>2. ReadingInv'
    BY <1>1, <2>1 DEF ReadingInv, Reading
  <2>3. Listing' /\ Searching'
    BY <1>1, <2>1, NotListing, NotSearching
  <2> QED
    BY <2>2, <2>3 DEF ToolsInv
<1>5. PICK yes \in BOOLEAN, no \in BOOLEAN : yes = TRUE /\ no = FALSE
  OBVIOUS
<1>6. CASE Calculate
  <2>1. PICK ok \in BOOLEAN : Return(ok, <<>>, 0, no)
    BY <1>5, <1>6 DEF Calculate
  <2> QED
    BY <1>2, <1>4, <2>1
<1>7. CASE FileInfo
  <2>1. CASE Fail
    <3>1. Return(no, <<>>, 0, no)
      BY <1>5, <2>1 DEF Fail
    <3> QED
      BY <1>2, <1>4, <3>1
  <2>2. CASE Resolves(call.target) /\ Return(TRUE, <<call.target>>, 0, FALSE)
    <3>1. PICK t \in Finds : t = call.target
      BY <1>1 DEF TypesOK, Finds
    <3>2. PICK found \in Seq(Finds) : found = <<t>>
      <4>1. <<t>> = [i \in 1 .. 1 |-> t]
        OBVIOUS
      <4>2. [i \in 1 .. 1 |-> t] \in Seq(Finds)
        OBVIOUS
      <4>3. <<t>> \in Seq(Finds)
        BY <4>1, <4>2, Zenon
      <4> QED
        BY <4>3, Zenon
    <3>3. Return(yes, found, 0, no)
      BY <1>5, <2>2, <3>1, <3>2
    <3> QED
      BY <1>4, <3>3
  <2> QED
    BY <1>7, <2>1, <2>2 DEF FileInfo
<1> QED
  BY <1>6, <1>7

LEMMA ToolsEdited ==
    ASSUME ToolsInv, NEW n \in Names, NEW f \in {File("absent", FALSE, <<>>), File("text", FALSE, <<"hit">>)}, Edit(n, f)
    PROVE  ToolsInv'
<1>1. f \in FileType
  <2>1. <<>> \in Seq(LineKinds) /\ <<"hit">> \in Seq(LineKinds)
    BY DEF LineKinds
  <2>2. FALSE \in BOOLEAN /\ "absent" \in FileKinds /\ "text" \in FileKinds
    BY DEF FileKinds, Regular, Texts
  <2>3. \A kind \in FileKinds : \A named \in BOOLEAN : \A lines \in Seq(LineKinds) : File(kind, named, lines) \in FileType
    BY DEF File, FileType
  <2>4. File("absent", FALSE, <<>>) \in FileType /\ File("text", FALSE, <<"hit">>) \in FileType
    BY <2>1, <2>2, <2>3, Zenon
  <2> QED
    BY <2>4
<1> QED
  BY <1>1, ReadingEdited, ListEdited, SearchEdited DEF ToolsInv

LEMMA ToolsStep ==
    ASSUME ToolsInv, [Next]_vars
    PROVE  ToolsInv'
<1>0. ReadingInv /\ Listing /\ Searching
  BY DEF ToolsInv
<1>1. ASSUME ReadingInv', call.tool = "read_file", call'.tool = "read_file" PROVE ToolsInv'
  BY <1>1, NotListing, NotSearching DEF ToolsInv, ReadingInv
<1>2. ASSUME ReadingInv', Listing', call'.tool = "list_files" PROVE ToolsInv'
  BY <1>2, NotSearching DEF ToolsInv, ReadingInv
<1>3. ASSUME ReadingInv', Searching', call'.tool = "search_files" PROVE ToolsInv'
  BY <1>3, NotListing DEF ToolsInv, ReadingInv
<1>4. CASE \E tool \in Tools \union {"unknown"} : \E arguments \in Arguments(tool) : Prepare(tool, arguments)
  BY <1>4, ToolsPrepare
<1>5. CASE Calculate \/ FileInfo
  BY <1>5, ToolsReturn
<1>6. CASE ListDirectory \/ ListEntry \/ ListDone
  BY <1>0, <1>2, <1>6, ListStarts, ListGoesOn, ListEnds
<1>7. CASE WalkDirectory \/ SearchDone
  BY <1>0, <1>3, <1>7, SearchStarts, SearchEnds
<1>8. CASE \E n \in Names : SearchFile(n)
  BY <1>0, <1>3, <1>8, SearchGoesOn
<1>9. CASE \E n \in Names, f \in {File("absent", FALSE, <<>>), File("text", FALSE, <<"hit">>)} : Edit(n, f)
  BY <1>9, ToolsEdited
<1>10. CASE ReadSize
  <2>1. call'.tool = call.tool /\ call.tool = "read_file"
    BY <1>10 DEF ReadSize, CallStep, Fail, Return, Goto, ToolsInv, ReadingInv, TypesOK
  <2> QED
    BY <1>0, <1>1, <1>10, <2>1, ReadingOpens
<1>11. CASE ReadText
  <2>1. call'.tool = call.tool /\ call.tool = "read_file"
    BY <1>11 DEF ReadText, CallStep, Fail, Return, ToolsInv, ReadingInv, TypesOK
  <2> QED
    BY <1>0, <1>1, <1>11, <2>1, ReadingReads
<1>12. CASE ReadOn
  <2>1. call'.tool = call.tool /\ call.tool = "read_file"
    BY <1>12 DEF ReadOn, ToolsInv, ReadingInv, TypesOK
  <2> QED
    BY <1>0, <1>1, <1>12, <2>1, ReadingGoesOn
<1>13. CASE UNCHANGED vars
  <2>1. UNCHANGED <<files, workspace, call, work, answer, book, changed>>
    BY <1>13 DEF vars
  <2>2. TypesOK'
    BY <1>0, <2>1 DEF ReadingInv, TypesOK
  <2>3. Reading'
    BY <1>0, <2>1 DEF ReadingInv, Reading, Pages
  <2>4. Listing'
    <3>1. Present' = Present /\ Silent' = Silent
      BY <2>1 DEF Present, Silent
    <3>2. ListOK => ListOK'
      BY <2>1, <3>1 DEF ListOK
    <3>3. ListIsComplete'
      BY <1>0, <2>1, <3>1 DEF Listing, ListIsComplete, Done
    <3> QED
      BY <1>0, <2>1, <3>2, <3>3 DEF Listing
  <2>5. Searching'
    <3>1. \A q, n : Told(q, n)' = Told(q, n)
      BY <2>1 DEF Told, Reports, Lines, Hits
    <3>2. SearchOK => SearchOK'
      BY <2>1, <3>1 DEF SearchOK
    <3>3. \A n : Hits(n)' = Hits(n)
      BY <2>1 DEF Hits
    <3>4. SearchIsComplete'
      BY <1>0, <2>1, <3>3 DEF Searching, SearchIsComplete, Done
    <3> QED
      BY <1>0, <2>1, <3>2, <3>4 DEF Searching
  <2> QED
    BY <2>2, <2>3, <2>4, <2>5 DEF ToolsInv, ReadingInv
<1> QED
  BY <1>4, <1>5, <1>6, <1>7, <1>8, <1>9, <1>10, <1>11, <1>12, <1>13 DEF Next

(* However a directory changes while a tool looks at it, whatever its files and the  *)
(* limits: a reader has the lines up to the next it asks for, a listing has what it   *)
(* has gone through, a search has reported the files it has looked into.              *)
THEOREM ToolsInvariant == Spec => []ToolsInv
<1>1. Init => ToolsInv
  BY ToolsStart
<1>2. ToolsInv /\ [Next]_vars => ToolsInv'
  BY ToolsStep
<1> QED
  BY <1>1, <1>2, PTL DEF Spec

LEMMA ReaderHasItAll ==
    ASSUME ToolsInv
    PROVE  PagesAddUp
<1>1. SUFFICES ASSUME Done("read_file"), ~book.cut, book.target \notin changed
               PROVE  LET lines == files[book.target].lines
                      IN /\ book.lines = SubSeq(lines, book.first, book.first + Len(book.lines) - 1)
                         /\ ~answer.more => book.lines = SubSeq(lines, book.first, Len(lines))
  BY DEF PagesAddUp
<1>2. Pages(files[book.target].lines) /\ call.step = "done" /\ answer.ok
      /\ book.first \in Nat /\ book.lines \in Seq(LineKinds)
  BY <1>1 DEF Done, ToolsInv, ReadingInv, Reading, TypesOK
<1> DEFINE lines == files[book.target].lines
<1>3. Pages(lines)
  BY <1>2
<1> HIDE DEF lines
<1>4. ~answer.more => book.lines = SubSeq(lines, book.first, Len(lines))
  BY <1>2, <1>3 DEF Pages
<1>5. book.lines = SubSeq(lines, book.first, book.first + Len(book.lines) - 1)
  <2>1. CASE book.lines = <<>>
    <3>1. PICK first \in Nat : first = book.first /\ first + 0 - 1 \in Int /\ first + 0 - 1 < first
      BY <1>2
    <3>2. Len(book.lines) = 0
      BY <2>1
    <3>3. SubSeq(lines, first, first + 0 - 1) = <<>>
      BY <3>1, SubSeqEmpty
    <3> QED
      BY <2>1, <3>1, <3>2, <3>3
  <2>2. CASE book.lines # <<>>
    BY <1>3, <2>2 DEF Pages, PartOf
  <2> QED
    BY <2>1, <2>2
<1> QED
  BY <1>4, <1>5 DEF lines

(* Who reads a file page by page has it all after the last page, whatever the limits  *)
(* of its calls and the length of the file, unless a page was cut or the file written. *)
THEOREM PagesAlwaysAddUp == Spec => []PagesAddUp
<1>1. ToolsInv => PagesAddUp
  BY ReaderHasItAll
<1> QED
  BY <1>1, ToolsInvariant, PTL

(* What a listing or a search left out it says it left out, in a directory of any     *)
(* size that changes at any time.                                                      *)
THEOREM NothingIsMissing == Spec => []NothingMissing
<1>1. ToolsInv => NothingMissing
  BY DEF ToolsInv, Listing, Searching, NothingMissing
<1> QED
  BY <1>1, ToolsInvariant, PTL
==============================================================================
