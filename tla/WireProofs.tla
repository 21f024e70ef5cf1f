------------------------------ MODULE WireProofs ------------------------------
(***************************************************************************)
(* Facts about the operators of module Wire, for texts of any length: how  *)
(* a text is cut, and what becomes of a request and a reply.  The first    *)
(* section has what the proofs about paths and environments need too: the  *)
(* first and the last position that passes a test.                         *)
(***************************************************************************)
EXTENDS Wire, Integers, SequenceTheorems, WellFoundedInduction, TLAPS

LEMMA LessRelates ==
  \A i, j \in Nat : i < j => <<i, j>> \in OpToRel(<, Nat)
BY DEF OpToRel

\* A set of positions has a least element.
LEMMA LeastPosition ==
  ASSUME NEW I, I \subseteq Nat, I # {}
  PROVE  /\ Min(I) \in I
         /\ \A i \in I : Min(I) <= i
<1>1. PICK x \in I : \A y \in I : ~(<<y, x>> \in OpToRel(<, Nat))
  BY NatLessThanWellFounded, WFMin
<1>2. \A y \in I : x <= y
  <2> SUFFICES ASSUME NEW y \in I, ~(x <= y) PROVE FALSE
    OBVIOUS
  <2>1. x \in Nat /\ y \in Nat /\ y < x
    OBVIOUS
  <2> QED BY <1>1, <2>1, LessRelates
<1> QED BY <1>2 DEF Min

\* One that is bounded has a greatest.
LEMMA GreatestPosition ==
  ASSUME NEW n \in Nat, NEW I, I \subseteq 0..n, I # {}
  PROVE  /\ Max(I) \in I
         /\ \A i \in I : Max(I) >= i
<1> DEFINE J == {n - i : i \in I}
<1>1. J \subseteq Nat /\ J # {}
  <2>1. \A i \in I : n - i \in Nat
    OBVIOUS
  <2>2. PICK i \in I : TRUE
    OBVIOUS
  <2>3. n - i \in J
    BY <2>2
  <2> QED BY <2>1, <2>3
<1>2. Min(J) \in J /\ \A j \in J : Min(J) <= j
  BY <1>1, LeastPosition
<1>3. PICK x \in I : Min(J) = n - x
  BY <1>2
<1>4. \A y \in I : n - x <= n - y
  BY <1>2, <1>3
<1>5. \A y \in I : x >= y
  BY <1>4
<1> QED BY <1>5 DEF Max

-----------------------------------------------------------------------------
\* What a search from a to b gives: the first of the positions I that pass.
LEMMA FirstOfPositions ==
  ASSUME NEW a \in Nat, NEW b \in Int, NEW I, I \subseteq a..b,
         NEW f, f = IF I # {} THEN Min(I) ELSE 0
  PROVE  \/ f = 0 /\ I = {}
         \/ f \in I /\ f \in a..b /\ \A i \in a..f - 1 : i \notin I
<1>1. CASE I = {}
  BY <1>1
<1>2. CASE I # {}
  <2>1. I \subseteq Nat
    OBVIOUS
  <2>2. f \in I /\ \A i \in I : f <= i
    BY <1>2, <2>1, LeastPosition
  <2>3. ASSUME NEW i \in a..f - 1 PROVE i \notin I
    <3>1. f \in Nat /\ i \in Int /\ ~(f <= i)
      BY <2>1, <2>2
    <3> QED BY <2>2, <3>1
  <2>4. f \in a..b
    BY <2>2
  <2> QED BY <2>2, <2>3, <2>4
<1> QED BY <1>1, <1>2

\* The last one, counted from 1.
LEMMA LastOfPositions ==
  ASSUME NEW n \in Nat, NEW I, I \subseteq 1..n,
         NEW f, f = IF I # {} THEN Max(I) ELSE 0
  PROVE  \/ f = 0 /\ I = {}
         \/ f \in I /\ f \in 1..n /\ \A i \in f + 1..n : i \notin I
<1>1. CASE I = {}
  BY <1>1
<1>2. CASE I # {}
  <2>1. I \subseteq 0..n
    OBVIOUS
  <2>2. f \in I /\ \A i \in I : f >= i
    BY <1>2, <2>1, GreatestPosition
  <2>3. ASSUME NEW i \in f + 1..n PROVE i \notin I
    <3>1. f \in Nat /\ i \in Int /\ ~(f >= i)
      BY <2>1, <2>2
    <3> QED BY <2>2, <3>1
  <2>4. f \in 1..n
    BY <2>2
  <2> QED BY <2>2, <2>3, <2>4
<1> QED BY <1>1, <1>2
-----------------------------------------------------------------------------
(* Cutting a text. *)

\* Find: the first c, or 0 if there is none.
LEMMA FindFirst ==
  ASSUME NEW s \in Text, NEW c
  PROVE  \/ Find(s, c) = 0 /\ \A i \in 1..Len(s) : s[i] # c
         \/ /\ Find(s, c) \in 1..Len(s) /\ s[Find(s, c)] = c
            /\ \A i \in 1..Find(s, c) - 1 : s[i] # c
<1> DEFINE I == {i \in 1..Len(s) : s[i] = c}
<1>1. Find(s, c) = IF I # {} THEN Min(I) ELSE 0
  BY DEF Find, SelectInSeq
<1>2. Len(s) \in Nat /\ I \subseteq 1..Len(s)
  BY DEF Text
<1>3. \/ Find(s, c) = 0 /\ I = {}
      \/ /\ Find(s, c) \in I /\ Find(s, c) \in 1..Len(s)
         /\ \A i \in 1..Find(s, c) - 1 : i \notin I
  <2> HIDE DEF I
  <2>1. PICK f : f = Find(s, c)
    OBVIOUS
  <2>2. 1 \in Nat /\ Len(s) \in Int
    BY <1>2
  <2>3. f = IF I # {} THEN Min(I) ELSE 0
    BY <1>1, <2>1
  <2>4. \/ f = 0 /\ I = {}
        \/ f \in I /\ f \in 1..Len(s) /\ \A i \in 1..f - 1 : i \notin I
    BY <1>2, <2>2, <2>3, FirstOfPositions, Zenon
  <2> QED BY <2>1, <2>4
<1> QED BY <1>2, <1>3

\* Where the first c is, is what Find gives.
LEMMA FindIs ==
  ASSUME NEW s \in Text, NEW c, NEW k \in 1..Len(s),
         s[k] = c, \A i \in 1..k - 1 : s[i] # c
  PROVE  Find(s, c) = k
<1>1. Find(s, c) \in 1..Len(s) /\ s[Find(s, c)] = c
      /\ \A i \in 1..Find(s, c) - 1 : s[i] # c
  BY FindFirst
<1> DEFINE f == Find(s, c)
<1> HIDE DEF f
<1>2. f \in Nat /\ k \in Nat /\ f >= 1 /\ k >= 1
  BY <1>1 DEF f
<1>3. ~(f < k) /\ ~(k < f)
  BY <1>1, <1>2 DEF f
<1> QED BY <1>2, <1>3 DEF f

LEMMA FindNone ==
  ASSUME NEW s \in Text, NEW c, \A i \in 1..Len(s) : s[i] # c
  PROVE  Find(s, c) = 0
BY FindFirst

\* A text that begins with s, where c is not, and goes on with c and t.
LEMMA CutAt ==
  ASSUME NEW s \in Text, NEW c, NEW t \in Text, NEW u \in Text,
         Len(u) = Len(s) + 1 + Len(t),
         \A i \in 1..Len(s) : s[i] # c,
         \A i \in 1..Len(s) : u[i] = s[i],
         u[Len(s) + 1] = c,
         \A i \in 1..Len(t) : u[Len(s) + 1 + i] = t[i]
  PROVE  /\ Find(u, c) = Len(s) + 1
         /\ Before(u, Find(u, c)) = s
         /\ After(u, Find(u, c)) = t
<1>1. Len(s) \in Nat /\ Len(t) \in Nat
  BY DEF Text
<1>2. Find(u, c) = Len(s) + 1
  <2> DEFINE k == Len(s) + 1
  <2>1. k \in 1..Len(u) /\ u[k] = c /\ \A i \in 1..k - 1 : u[i] # c
    BY <1>1
  <2> HIDE DEF k
  <2>2. Find(u, c) = k
    BY <2>1, FindIs
  <2> QED BY <2>2 DEF k
<1>3. SubSeq(u, 1, Len(s)) = s
  BY <1>1 DEF Text
<1>4. SubSeq(u, Len(s) + 2, Len(u)) = t
  <2> DEFINE b == SubSeq(u, Len(s) + 2, Len(u))
  <2>1. b \in Text /\ Len(b) = Len(t) /\ \A i \in 1..Len(t) : b[i] = t[i]
    BY <1>1 DEF Text
  <2> HIDE DEF b
  <2>2. b = t
    BY <2>1, SeqEqual DEF Text
  <2> QED BY <2>2 DEF b
<1> PICK f : f = Find(u, c)
  OBVIOUS
<1>5. f \in Nat /\ f # 0 /\ f - 1 = Len(s) /\ f + 1 = Len(s) + 2
  BY <1>1, <1>2
<1>6. Before(u, f) = s /\ After(u, f) = t
  BY <1>3, <1>4, <1>5 DEF Before, After
<1> QED BY <1>2, <1>6

\* The first word of a line, and what follows it and the space behind it.
LEMMA TokenOfLine ==
  ASSUME NEW w \in Symbol \ {SP}, NEW x \in Text
  PROVE  /\ <<w, SP>> \o x \in Text
         /\ Token1(<<w, SP>> \o x) = <<w>>
         /\ Rest(<<w, SP>> \o x) = x
<1>0. PICK v, c, u : v = <<w>> /\ c = SP /\ u = <<w, c>> \o x
  OBVIOUS
<1>1. c \in Symbol
  BY <1>0 DEF Symbol, Separators
<1>2. v \in Text /\ x \in Text /\ u \in Text
  BY <1>0, <1>1 DEF Text
<1>3. /\ Len(u) = Len(v) + 1 + Len(x)
      /\ \A i \in 1..Len(v) : v[i] # c
      /\ \A i \in 1..Len(v) : u[i] = v[i]
      /\ u[Len(v) + 1] = c
      /\ \A i \in 1..Len(x) : u[Len(v) + 1 + i] = x[i]
  BY <1>0, <1>1 DEF Text
<1>4. Before(u, Find(u, c)) = v /\ After(u, Find(u, c)) = x
  BY <1>2, <1>3, CutAt
<1> QED BY <1>0, <1>2, <1>4 DEF Token1, Rest

\* A word by itself.
LEMMA TokenAlone ==
  ASSUME NEW w \in Symbol \ {SP}
  PROVE  <<w>> \in Text /\ Token1(<<w>>) = <<w>> /\ Rest(<<w>>) = << >>
<1>1. <<w>> \in Text /\ \A i \in 1..Len(<<w>>) : <<w>>[i] # SP
  BY DEF Text
<1>2. Find(<<w>>, SP) = 0
  BY <1>1, FindNone
<1> QED BY <1>1, <1>2 DEF Token1, Rest, Before, After

\* A word or keyword is a symbol, and no separator.
LEMMA WordsAreSymbols ==
  /\ Separators \subseteq Symbol /\ Keywords \subseteq Symbol
  /\ Keywords \cap Separators = {}
  /\ DOMAIN FromChars \subseteq Symbol /\ DOMAIN FromChars \cap Separators = {}
  /\ \A n \in DOMAIN Decimal : Decimal[n] \in DOMAIN FromChars
<1>1. Keywords \cap Separators = {}
  BY DEF Keywords, Separators, SP, NL, CR
<1> QED BY <1>1, WireAssumption DEF Symbol

\* What readLine makes of a line that has been sent: all up to a newline in it.
LEMMA ReceivedLine ==
  ASSUME NEW x \in Text, NEW n, n = Received(Append(x, NL))
  PROVE  /\ n \in Text /\ Len(n) \in 0..Len(x)
         /\ \A i \in 1..Len(n) : n[i] = x[i] /\ n[i] # NL
         /\ Len(n) < Len(x) => x[Len(n) + 1] = NL
         /\ Find(Append(x, NL), NL) = Len(n) + 1
<1>0. PICK y, c : y = Append(x, c) /\ c = NL
  OBVIOUS
<1>1. c \in Symbol
  BY <1>0, WordsAreSymbols DEF Separators
<1>2. /\ y \in Text /\ Len(x) \in Nat /\ Len(y) = Len(x) + 1
      /\ y[Len(x) + 1] = c /\ \A i \in 1..Len(x) : y[i] = x[i]
  BY <1>0, <1>1 DEF Text
<1>3. PICK k : k = Find(y, c)
  OBVIOUS
<1>4. k \in 1..Len(y) /\ y[k] = c /\ \A i \in 1..k - 1 : y[i] # c
  BY <1>2, <1>3, FindFirst
<1>5. n = SubSeq(y, 1, k - 1)
  BY <1>0, <1>3, <1>4 DEF Received, Before
<1>6. n \in Text /\ Len(n) = k - 1 /\ \A i \in 1..k - 1 : n[i] = y[i]
  BY <1>2, <1>4, <1>5 DEF Text
<1>7. k <= Len(x) => x[k] = c
  BY <1>2, <1>4
<1>8. \A i \in 1..Len(n) : n[i] = x[i] /\ n[i] # c
  BY <1>2, <1>4, <1>6
<1> QED BY <1>0, <1>2, <1>3, <1>4, <1>6, <1>7, <1>8

\* What is sent behind h arrives behind h.
LEMMA ReceivedBehind ==
  ASSUME NEW h \in Text, \A i \in 1..Len(h) : h[i] # NL,
         NEW x \in Text, NEW z, z = h \o x
  PROVE  Received(Append(z, NL)) = h \o Received(Append(x, NL))
<1>0. PICK u, c, n : u = Append(z, c) /\ c = NL /\ n = Received(Append(x, c))
  OBVIOUS
<1>1. c \in Symbol
  BY <1>0, WordsAreSymbols DEF Separators
<1>2. /\ n \in Text /\ Len(n) \in 0..Len(x) /\ Len(x) \in Nat
      /\ \A i \in 1..Len(n) : n[i] = x[i] /\ n[i] # c
      /\ Len(n) < Len(x) => x[Len(n) + 1] = c
  BY <1>0, ReceivedLine DEF Text
<1>3. PICK s, r : s = h \o n /\ r = SubSeq(u, Len(h) + Len(n) + 2, Len(u))
  OBVIOUS
<1>4. /\ z \in Text /\ Len(h) \in Nat /\ Len(z) = Len(h) + Len(x)
      /\ \A i \in 1..Len(h) : z[i] = h[i]
      /\ \A i \in 1..Len(x) : z[Len(h) + i] = x[i]
  BY DEF Text
<1>5. /\ u \in Text /\ Len(u) = Len(z) + 1 /\ u[Len(z) + 1] = c
      /\ \A i \in 1..Len(z) : u[i] = z[i]
  BY <1>0, <1>1, <1>4 DEF Text
<1>6. /\ s \in Text /\ Len(s) = Len(h) + Len(n)
      /\ \A i \in 1..Len(h) : s[i] = h[i]
      /\ \A i \in 1..Len(n) : s[Len(h) + i] = n[i]
  BY <1>2, <1>3 DEF Text
<1>7. \A i \in 1..Len(s) : s[i] # c /\ u[i] = s[i]
  <2> SUFFICES ASSUME NEW i \in 1..Len(s) PROVE s[i] # c /\ u[i] = s[i]
    OBVIOUS
  <2>1. CASE i <= Len(h)
    BY <1>0, <1>2, <1>4, <1>5, <1>6, <2>1
  <2>2. CASE ~(i <= Len(h))
    <3>1. PICK j \in 1..Len(n) : i = Len(h) + j
      BY <1>2, <1>4, <1>6, <2>2
    <3>2. j \in 1..Len(x) /\ i \in 1..Len(z)
      BY <1>2, <1>4, <3>1
    <3> QED BY <1>2, <1>4, <1>5, <1>6, <3>1, <3>2
  <2> QED BY <2>1, <2>2
<1>8. u[Len(s) + 1] = c
  <2>1. CASE Len(n) < Len(x)
    <3>1. Len(n) + 1 \in 1..Len(x) /\ Len(s) + 1 = Len(h) + (Len(n) + 1)
          /\ Len(s) + 1 \in 1..Len(z)
      BY <1>2, <1>4, <1>6, <2>1
    <3> QED BY <1>2, <1>4, <1>5, <2>1, <3>1
  <2>2. CASE Len(n) = Len(x)
    BY <1>2, <1>4, <1>5, <1>6, <2>2
  <2> QED BY <1>2, <2>1, <2>2
<1>9. /\ r \in Text /\ Len(u) = Len(s) + 1 + Len(r)
      /\ \A i \in 1..Len(r) : u[Len(s) + 1 + i] = r[i]
  <2>1. PICK m : m = Len(s) + 2
    OBVIOUS
  <2>2. m \in Nat /\ m >= 2 /\ m <= Len(u) + 1 /\ r = SubSeq(u, m, Len(u))
    BY <1>2, <1>3, <1>4, <1>5, <1>6, <2>1
  <2>3. /\ r \in Text /\ Len(r) = Len(u) + 1 - m
        /\ \A i \in 1..Len(r) : r[i] = u[m - 1 + i]
    BY <1>5, <2>2 DEF Text
  <2> QED BY <1>4, <1>5, <1>6, <2>1, <2>3
<1>10. Before(u, Find(u, c)) = s
  BY <1>5, <1>6, <1>7, <1>8, <1>9, CutAt
<1> QED BY <1>0, <1>3, <1>10 DEF Received

\* What is left of a text is a text.
LEMMA RestIsText ==
  ASSUME NEW x \in Text
  PROVE  Token1(x) \in Text /\ Rest(x) \in Text
<1>1. Find(x, SP) \in 0..Len(x) /\ Len(x) \in Nat
  BY FindFirst DEF Text
<1> PICK f : f = Find(x, SP)
  OBVIOUS
<1>2. Before(x, f) \in Text /\ After(x, f) \in Text
  BY <1>1 DEF Before, After, Text
<1> QED BY <1>2 DEF Token1, Rest

\* START-PHASE, a pid and the rest of the line.
LEMMA StartLine ==
  ASSUME NEW w \in DOMAIN FromChars, NEW x \in Text
  PROVE  DecodeRequest(<<"START-PHASE", SP, w, SP>> \o x) =
           IF FromChars[w] = 0 \/ x = << >> THEN Fails
           ELSE Gives([type |-> "start-phase", pid |-> FromChars[w],
                       phase |-> x])
<1>1. w \in Symbol \ {SP} /\ "START-PHASE" \in Symbol \ {SP} /\ SP \in Symbol
  BY WordsAreSymbols DEF Separators, Keywords
<1>2. PICK args, line : args = <<w, SP>> \o x /\ line = <<"START-PHASE", SP>> \o args
  OBVIOUS
<1>3. args \in Text /\ Token1(args) = <<w>> /\ Rest(args) = x
  BY <1>1, <1>2, TokenOfLine
<1>4. /\ line \in Text /\ Token1(line) = <<"START-PHASE">> /\ Rest(line) = args
  BY <1>1, <1>2, <1>3, TokenOfLine
<1>5. DecodeRequest(line) = DecodeStart(args)
  BY <1>4 DEF DecodeRequest
<1>6. PidOf(Token1(args)) = FromChars[w]
  BY <1>3 DEF PidOf
<1>7. line = <<"START-PHASE", SP, w, SP>> \o x
  BY <1>1, <1>2 DEF Text
<1> QED BY <1>3, <1>5, <1>6, <1>7 DEF DecodeStart
-----------------------------------------------------------------------------
(* Replies. *)

\* Only what begins with ERR is taken for an error.
LEMMA ErrorBegins ==
  ASSUME NEW raw \in Text, raw # << >>, raw[1] # "ERR"
  PROVE  ~IsError(raw)
<1>1. PICK f, first : f = Find(raw, NL) /\ first = Before(raw, f)
  OBVIOUS
<1>2. f \in 0..Len(raw) /\ Len(raw) \in Nat /\ Len(raw) >= 1
  BY <1>1, FindFirst DEF Text
<1>3. first \in Text /\ (first = << >> \/ (Len(first) >= 1 /\ first[1] = raw[1]))
  <2>1. CASE f = 0
    BY <1>1, <1>2, <2>1 DEF Before
  <2>2. CASE f # 0
    <3>1. first = SubSeq(raw, 1, f - 1)
      BY <1>1, <2>2 DEF Before
    <3> QED BY <1>2, <2>2, <3>1 DEF Text
  <2> QED BY <2>1, <2>2
<1>4. first # <<"ERR">>
  BY <1>3
<1>5. ~IsPrefix(<<"ERR", SP>>, first)
  <2> SUFFICES ASSUME IsPrefix(<<"ERR", SP>>, first) PROVE FALSE
    OBVIOUS
  <2>1. PICK e : e = <<"ERR", SP>>
    OBVIOUS
  <2>2. e \in Text /\ Len(e) = 2 /\ e[1] = "ERR"
    BY <2>1, WordsAreSymbols DEF Text, Keywords, Separators
  <2>3. 2 <= Len(first) /\ SubSeq(e, 1, 2) = SubSeq(first, 1, 2)
    BY <2>1, <2>2 DEF IsPrefix
  <2>4. SubSeq(e, 1, 2)[1] = e[1]
    BY <2>2 DEF Text
  <2>5. SubSeq(first, 1, 2)[1] = first[1]
    BY <1>3, <2>3 DEF Text
  <2>6. first # << >>
    BY <1>3, <2>3
  <2> QED BY <1>3, <2>2, <2>3, <2>4, <2>5, <2>6
<1> QED BY <1>1, <1>4, <1>5 DEF IsError

\* A severity is read as it is written.
LEMMA SeverityRead ==
  ASSUME NEW sev \in 0..3
  PROVE  /\ SeverityToString(sev) \in Keywords
         /\ SeverityFromWord(SeverityToString(sev)) = sev
<1>1. PICK s, w : s = SeverityWords /\ w = SeverityToString(sev)
  OBVIOUS
<1>2. /\ s \in Text /\ Len(s) = 4
      /\ s[1] = "none" /\ s[2] = "low" /\ s[3] = "medium" /\ s[4] = "high"
  BY <1>1, WordsAreSymbols DEF SeverityWords, Text, Keywords
<1>3. w = s[sev + 1] /\ sev + 1 \in 1..4
  BY <1>1 DEF SeverityToString
<1>4. w \in Keywords
  BY <1>2, <1>3 DEF Keywords
<1>5. \A i \in 1..sev : s[i] # w
  BY <1>2, <1>3
<1>6. Find(s, w) = sev + 1
  <2>1. PICK k : k = sev + 1
    OBVIOUS
  <2>2. k \in 1..Len(s) /\ s[k] = w /\ \A i \in 1..k - 1 : s[i] # w
    BY <1>2, <1>3, <1>5, <2>1
  <2> QED BY <1>2, <2>1, <2>2, FindIs
<1>7. SeverityFromWord(w) = IF Find(s, w) = 0 THEN 0 ELSE Find(s, w) - 1
  BY <1>1 DEF SeverityFromWord, Find
<1> QED BY <1>1, <1>4, <1>6, <1>7

\* The first five symbols of a report.
Header(raw, sev) ==
  /\ raw[1] = "MAX_SEVERITY" /\ raw[2] = ":" /\ raw[3] = SP
  /\ raw[4] = SeverityToString(sev) /\ raw[5] = NL

\* A reply that begins like a report is one, with all that follows.
LEMMA HeaderDecoded ==
  ASSUME NEW raw \in Text, NEW sev \in 0..3, Len(raw) >= 5, Header(raw, sev)
  PROVE  DecodeReply("report", raw) =
           [type |-> "report", severity |-> sev,
            body |-> SubSeq(raw, 6, Len(raw))]
<1>1. Len(raw) \in Nat /\ raw # << >>
  BY DEF Text
<1>2. raw[1] = "MAX_SEVERITY" /\ raw[2] = ":" /\ raw[3] = SP /\ raw[5] = NL
      /\ raw[4] = SeverityToString(sev) /\ raw[4] \in Keywords
      /\ SeverityFromWord(raw[4]) = sev
  BY SeverityRead DEF Header
<1>3. raw[4] \notin Separators
  BY <1>2, WordsAreSymbols
<1>4. /\ raw[1] # NL /\ raw[1] # ":" /\ raw[2] # NL /\ raw[3] # NL
      /\ raw[4] # NL /\ raw[4] # SP
  BY <1>2, <1>3 DEF Separators, SP, NL
<1>5. Find(raw, NL) = 5
  <2>1. \A i \in 1..5 - 1 : raw[i] # NL
    BY <1>4
  <2>2. 5 \in 1..Len(raw) /\ raw[5] = NL
    BY <1>1, <1>2
  <2> QED BY <2>1, <2>2, FindIs
<1>6. Find(raw, ":") = 2
  <2>1. \A i \in 1..2 - 1 : raw[i] # ":"
    BY <1>4
  <2>2. 2 \in 1..Len(raw) /\ raw[2] = ":"
    BY <1>1, <1>2
  <2> QED BY <2>1, <2>2, FindIs
<1>7. HeaderSeverity(raw, 2, 5) = sev
  <2> DEFINE I == {i \in 2 + 1..5 - 1 : raw[i] # SP}
  <2>1. I = {4}
    BY <1>2, <1>4
  <2>2. Min(I) = 4
    BY <2>1, LeastPosition
  <2>3. SelectInSubSeq(raw, 2 + 1, 5 - 1, LAMBDA x : x # SP) = 4
    BY <2>1, <2>2 DEF SelectInSubSeq
  <2> QED BY <1>2, <2>3 DEF HeaderSeverity
<1>8. DecodeHeader(raw) =
        Gives([type |-> "report", severity |-> sev,
               body |-> SubSeq(raw, 6, Len(raw))])
  <2>1. After(raw, 5) = SubSeq(raw, 6, Len(raw)) /\ 2 \in 1..5
    BY DEF After
  <2> QED BY <1>5, <1>6, <1>7, <2>1 DEF DecodeHeader
<1>9. ~IsError(raw)
  BY <1>1, <1>2, ErrorBegins
<1>10. DecodeReply("report", raw) = DecodeHeader(raw).value
  <2>1. PICK d : d = DecodeHeader(raw)
    OBVIOUS
  <2>2. d.ok = TRUE
    BY <1>8, <2>1 DEF Gives
  <2> QED BY <1>1, <1>9, <2>1, <2>2 DEF DecodeReply
<1> QED BY <1>8, <1>10 DEF Gives

\* What encode makes of a report.
ReportHeader(sev) ==
  <<"MAX_SEVERITY", ":", SP, SeverityToString(sev), NL>>

LEMMA HeaderEncoded ==
  ASSUME NEW sev \in 0..3
  PROVE  /\ ReportHeader(sev) \in Text /\ Len(ReportHeader(sev)) = 5
         /\ Header(ReportHeader(sev), sev)
<1>1. PICK w : w = SeverityToString(sev)
  OBVIOUS
<1>2. /\ w \in Symbol /\ "MAX_SEVERITY" \in Symbol /\ ":" \in Symbol
      /\ SP \in Symbol /\ NL \in Symbol
  BY <1>1, SeverityRead, WordsAreSymbols DEF Keywords, Separators
<1>3. PICK h : h = <<"MAX_SEVERITY", ":", SP, w, NL>>
  OBVIOUS
<1>4. /\ h \in Text /\ Len(h) = 5
      /\ h[1] = "MAX_SEVERITY" /\ h[2] = ":" /\ h[3] = SP
      /\ h[4] = w /\ h[5] = NL
  BY <1>2, <1>3 DEF Text
<1> QED BY <1>1, <1>3, <1>4 DEF Header, ReportHeader

LEMMA ReportEncoded ==
  ASSUME NEW sev \in 0..3, NEW x \in Text, NEW raw, raw = ReportHeader(sev) \o x
  PROVE  /\ raw \in Text /\ Len(raw) = 5 + Len(x) /\ Header(raw, sev)
         /\ \A i \in 1..Len(x) : raw[5 + i] = x[i]
<1>1. PICK h : h = ReportHeader(sev)
  OBVIOUS
<1>2. h \in Text /\ Len(h) = 5 /\ Header(h, sev)
  BY <1>1, HeaderEncoded
<1>3. /\ raw \in Text /\ Len(raw) = Len(h) + Len(x)
      /\ \A i \in 1..Len(h) : raw[i] = h[i]
      /\ \A i \in 1..Len(x) : raw[Len(h) + i] = x[i]
  <2>1. raw = h \o x /\ h \in Text
    BY <1>1, <1>2
  <2> QED BY <2>1 DEF Text
<1>4. Header(raw, sev)
  BY <1>2, <1>3 DEF Header
<1> QED BY <1>2, <1>3, <1>4


\* Spaces at the beginning are dropped, up to the first other symbol.
LEMMA StrippedIs ==
  ASSUME NEW x \in Text, NEW k \in 1..Len(x), x[k] # SP,
         \A i \in 1..k - 1 : x[i] = SP
  PROVE  Stripped(x) = SubSeq(x, k, Len(x))
<1> DEFINE I == {i \in 1..Len(x) : x[i] # SP}
<1>1. I \subseteq Nat /\ k \in I
  OBVIOUS
<1>2. Min(I) \in I /\ \A i \in I : Min(I) <= i
  BY <1>1, LeastPosition
<1>3. Min(I) = k
  <2>1. PICK m : m = Min(I)
    OBVIOUS
  <2>2. m \in 1..Len(x) /\ x[m] # SP /\ m <= k
    BY <1>1, <1>2, <2>1
  <2>3. ~(m < k)
    BY <2>2
  <2> QED BY <2>1, <2>2, <2>3
<1>4. SelectInSeq(x, LAMBDA e : e # SP) = k
  BY <1>1, <1>3 DEF SelectInSeq
<1>5. k # 0
  OBVIOUS
<1> QED BY <1>4, <1>5 DEF Stripped

LEMMA StrippedNone ==
  ASSUME NEW x \in Text, \A i \in 1..Len(x) : x[i] = SP
  PROVE  Stripped(x) = << >>
<1> DEFINE I == {i \in 1..Len(x) : x[i] # SP}
<1>1. I = {}
  OBVIOUS
<1>2. SelectInSeq(x, LAMBDA e : e # SP) = 0
  BY <1>1 DEF SelectInSeq
<1> QED BY <1>2 DEF Stripped

\* One more space at the beginning makes no difference.
LEMMA StrippedOnce ==
  ASSUME NEW x \in Text, NEW y \in Text, Len(y) = Len(x) + 1, y[1] = SP,
         \A i \in 1..Len(x) : y[i + 1] = x[i]
  PROVE  Stripped(y) = Stripped(x)
<1>1. Len(x) \in Nat
  BY DEF Text
<1>2. CASE \A i \in 1..Len(x) : x[i] = SP
  <2>1. \A i \in 1..Len(y) : y[i] = SP
    <3> SUFFICES ASSUME NEW i \in 1..Len(y), i # 1 PROVE y[i] = SP
      OBVIOUS
    <3>1. PICK j \in 1..Len(x) : i = j + 1
      <4>1. i - 1 \in 1..Len(x) /\ i = (i - 1) + 1
        BY <1>1
      <4> QED BY <4>1
    <3> QED BY <1>2, <3>1
  <2> QED BY <1>2, <2>1, StrippedNone
<1>3. CASE ~(\A i \in 1..Len(x) : x[i] = SP)
  <2> DEFINE I == {i \in 1..Len(x) : x[i] # SP}
  <2>1. I \subseteq Nat /\ I # {}
    BY <1>3
  <2>2. PICK k \in I : \A i \in I : k <= i
    <3> HIDE DEF I
    <3> QED BY <2>1, LeastPosition
  <2>3. k \in 1..Len(x) /\ x[k] # SP /\ \A i \in 1..k - 1 : x[i] = SP
    <3>1. k \in 1..Len(x) /\ x[k] # SP
      OBVIOUS
    <3>2. ASSUME NEW i \in 1..k - 1 PROVE x[i] = SP
      <4>1. i \in 1..Len(x) /\ ~(k <= i)
        BY <1>1, <3>1
      <4> QED BY <2>2, <4>1
    <3> QED BY <3>1, <3>2
  <2> HIDE DEF I
  <2>4. PICK n : n = k + 1
    OBVIOUS
  <2>5. n \in 1..Len(y) /\ y[n] # SP
    BY <1>1, <2>3, <2>4
  <2>6. ASSUME NEW i \in 1..n - 1 PROVE y[i] = SP
    <3>1. CASE i = 1
      BY <3>1
    <3>2. CASE i # 1
      <4>1. i - 1 \in 1..k - 1 /\ i - 1 \in 1..Len(x) /\ i = (i - 1) + 1
        BY <1>1, <2>3, <2>4, <3>2
      <4> QED BY <2>3, <4>1
    <3> QED BY <3>1, <3>2
  <2>7. Stripped(y) = SubSeq(y, n, Len(y))
    BY <2>5, <2>6, StrippedIs
  <2>8. Stripped(x) = SubSeq(x, k, Len(x))
    BY <2>3, StrippedIs
  <2>9. SubSeq(y, n, Len(y)) = SubSeq(x, k, Len(x))
    <3>1. PICK a, b : a = SubSeq(y, n, Len(y)) /\ b = SubSeq(x, k, Len(x))
      OBVIOUS
    <3>2. /\ b \in Text /\ Len(b) = Len(x) + 1 - k
          /\ \A i \in 1..Len(b) : b[i] = x[k - 1 + i]
      BY <1>1, <2>3, <3>1 DEF Text
    <3>3. /\ a \in Text /\ Len(a) = Len(y) + 1 - n
          /\ \A i \in 1..Len(a) : a[i] = y[n - 1 + i]
      BY <1>1, <2>5, <3>1 DEF Text
    <3>4. Len(a) = Len(b)
      BY <1>1, <2>3, <2>4, <3>2, <3>3
    <3>5. ASSUME NEW i \in 1..Len(a) PROVE a[i] = b[i]
      <4>1. k - 1 + i \in 1..Len(x) /\ n - 1 + i = (k - 1 + i) + 1
        BY <1>1, <2>3, <2>4, <3>2, <3>4
      <4> QED BY <3>2, <3>3, <3>4, <4>1
    <3>6. a = b
      BY <3>2, <3>3, <3>4, <3>5, SeqEqual DEF Text
    <3> QED BY <3>1, <3>6
  <2> QED BY <2>7, <2>8, <2>9
<1> QED BY <1>2, <1>3

\* A refusal is taken for one, with the first line of its reason.
LEMMA ErrorDecoded ==
  ASSUME NEW x \in Text, NEW type
  PROVE  DecodeReply(type, Append(EncodeError(x), NL)) =
           [type |-> "error",
            reason |-> IF Stripped(Received(Append(x, NL))) = << >>
                       THEN <<"request", SP, "rejected">>
                       ELSE Stripped(Received(Append(x, NL)))]
<1>0. PICK raw, n : raw = Append(EncodeError(x), NL) /\ n = Received(Append(x, NL))
  OBVIOUS
<1>1. /\ "ERR" \in Symbol \ {NL} /\ SP \in Symbol \ {NL} /\ NL \in Symbol
  BY WordsAreSymbols DEF Keywords, Separators, SP, NL
<1>2. n \in Text /\ Len(n) \in 0..Len(x) /\ Len(x) \in Nat
  BY <1>0, ReceivedLine DEF Text
<1>3. PICK first : first = Received(raw)
  OBVIOUS
<1>4. /\ raw # << >> /\ IsError(raw) /\ Stripped(Tail(first)) = Stripped(n)
  <2>1. CASE x = << >>
    <3>1. PICK e : e = <<"ERR">>
      OBVIOUS
    <3>2. e \in Text /\ \A i \in 1..Len(e) : e[i] # NL
      BY <1>1, <3>1 DEF Text
    <3>3. raw = Append(e, NL)
      BY <1>0, <2>1, <3>1 DEF EncodeError
    <3>4. first = e
      <4>1. PICK u, c, t : u = raw /\ c = NL /\ t = << >>
        OBVIOUS
      <4>2. t \in Text /\ u \in Text /\ Len(u) = Len(e) + 1 + Len(t) /\ u[Len(e) + 1] = c
            /\ \A i \in 1..Len(e) : u[i] = e[i]
        BY <1>1, <3>2, <3>3, <4>1 DEF Text
      <4>3. /\ \A i \in 1..Len(e) : e[i] # c
            /\ \A i \in 1..Len(t) : u[Len(e) + 1 + i] = t[i]
        BY <3>2, <4>1
      <4>4. Before(u, Find(u, c)) = e
        BY <3>2, <4>2, <4>3, CutAt
      <4> QED BY <1>3, <4>1, <4>4 DEF Received
    <3>5. Tail(first) = << >>
      BY <3>1, <3>4
    <3>6. n = << >>
      BY <1>2, <2>1 DEF Text
    <3>7. raw # << >>
      BY <1>1, <3>2, <3>3 DEF Text
    <3>8. IsError(raw)
      BY <1>3, <3>1, <3>4 DEF IsError, Received
    <3> QED BY <3>5, <3>6, <3>7, <3>8
  <2>2. CASE x # << >>
    <3>1. PICK h : h = <<"ERR", SP>>
      OBVIOUS
    <3>2. h \in Text /\ Len(h) = 2 /\ h[1] = "ERR" /\ h[2] = SP
      BY <1>1, <3>1 DEF Text
    <3>3. \A i \in 1..Len(h) : h[i] # NL
      BY <1>1, <3>1
    <3>4. PICK z : z = h \o x
      OBVIOUS
    <3>5. raw = Append(z, NL)
      BY <1>0, <2>2, <3>1, <3>4 DEF EncodeError
    <3>6. first = h \o n
      <4>1. h \in Text
        BY <3>2
      <4>2. Received(Append(z, NL)) = h \o Received(Append(x, NL))
        BY <3>3, <3>4, <4>1, ReceivedBehind
      <4> QED BY <1>0, <1>3, <3>5, <4>2
    <3>7. /\ first \in Text /\ Len(first) = 2 + Len(n)
          /\ \A i \in 1..2 : first[i] = h[i]
          /\ \A i \in 1..Len(n) : first[2 + i] = n[i]
      <4>1. h \in Text /\ n \in Text
        BY <1>2, <3>2
      <4>2. /\ first \in Text /\ Len(first) = Len(h) + Len(n)
            /\ \A i \in 1..Len(h) : first[i] = h[i]
            /\ \A i \in 1..Len(n) : first[Len(h) + i] = n[i]
        BY <3>6, <4>1 DEF Text
      <4> QED BY <3>2, <4>2
    <3>8. IsPrefix(h, first)
      <4>1. PICK a, b : a = SubSeq(h, 1, 2) /\ b = SubSeq(first, 1, 2)
        OBVIOUS
      <4>2. Len(h) = 2 /\ Len(h) <= Len(first) /\ h \in Text
        BY <1>2, <3>2, <3>7
      <4>3. a = b
        BY <3>7, <4>1, <4>2 DEF Text
      <4> QED BY <4>1, <4>2, <4>3 DEF IsPrefix
    <3>9. Stripped(Tail(first)) = Stripped(n)
      <4>1. PICK t : t = Tail(first)
        OBVIOUS
      <4>2. /\ t \in Text /\ Len(t) = Len(n) + 1
            /\ \A i \in 1..Len(t) : t[i] = first[i + 1]
        BY <1>2, <3>7, <4>1 DEF Text
      <4>3. t[1] = SP /\ \A i \in 1..Len(n) : t[i + 1] = n[i]
        BY <1>2, <3>2, <3>7, <4>2
      <4> QED BY <1>2, <4>1, <4>2, <4>3, StrippedOnce
    <3>10. raw # << >>
      BY <1>1, <3>2, <3>4, <3>5 DEF Text
    <3>11. IsError(raw)
      BY <1>3, <3>1, <3>8 DEF IsError, Received
    <3> QED BY <3>9, <3>10, <3>11
  <2> QED BY <2>1, <2>2
<1>5. DecodeReply(type, raw) = DecodeError(raw)
  BY <1>4 DEF DecodeReply
<1> QED BY <1>0, <1>3, <1>4, <1>5 DEF DecodeError, Received
=============================================================================
