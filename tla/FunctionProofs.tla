---------------------------- MODULE FunctionProofs ----------------------------
(***************************************************************************)
(* Proofs of what WireProperties, AttributorProperties and                 *)
(* CommandLineProperties state, for texts, paths, environments and command *)
(* lines of any length over any symbols.                                   *)
(***************************************************************************)
EXTENDS WireProperties, AttributorProperties, CommandLineProperties, WireProofs,
        FiniteSetTheorems

(* The lines of the protocol. *)

\* The daemon starts the phase the client was told to start: with any phase
\* name, of any symbols, and any pid but 0, which blastguardctl does not send
\* (encode and decodeRequest, proto.cpp:97-99, 177-215).
LEMMA RequestArrives ==
  ASSUME text \in Text
  PROVE  RequestSurvives
<1> SUFFICES ASSUME NEW pid \in DOMAIN Decimal \ {0},
                    NEW name, name = Received(Append(text, NL)),
                    NEW req, req = [type |-> "start-phase", pid |-> pid,
                                    phase |-> text]
             PROVE  DecodeRequest(Received(Append(EncodeRequest(req), NL))) =
                      IF name = << >> THEN Fails
                      ELSE Gives([req EXCEPT !.phase = name])
  BY DEF RequestSurvives
<1>1. PICK w, h : w = Decimal[pid] /\ h = <<"START-PHASE", SP, w, SP>>
  OBVIOUS
<1>2. w \in DOMAIN FromChars /\ FromChars[w] = pid /\ pid # 0
  BY <1>1, WireAssumption
<1>3. /\ w \in Symbol \ {NL} /\ SP \in Symbol \ {NL}
      /\ "START-PHASE" \in Symbol \ {NL}
  BY <1>2, WordsAreSymbols DEF Separators, Keywords, SP, NL
<1>4. h \in Text /\ \A i \in 1..Len(h) : h[i] # NL
  BY <1>1, <1>3 DEF Text
<1>5. EncodeRequest(req) = h \o text
  BY <1>1 DEF EncodeRequest
<1>6. Received(Append(EncodeRequest(req), NL)) = h \o name
  BY <1>4, <1>5, ReceivedBehind
<1>7. name \in Text
  BY ReceivedLine
<1>8. DecodeRequest(h \o name) =
        IF name = << >> THEN Fails
        ELSE Gives([type |-> "start-phase", pid |-> pid, phase |-> name])
  BY <1>1, <1>2, <1>7, StartLine
<1>9. [req EXCEPT !.phase = name] =
        [type |-> "start-phase", pid |-> pid, phase |-> name]
  OBVIOUS
<1> QED BY <1>6, <1>8, <1>9

\* Whatever text is taken for a request, the client could have sent it
\* (encode and decodeRequest, proto.cpp:92-115, 177-215).
LEMMA AcceptedSendable ==
  ASSUME text \in Text
  PROVE  AcceptedIsSendable
<1> SUFFICES ASSUME NEW d, d = DecodeRequest(text), d.ok
             PROVE  DecodeRequest(EncodeRequest(d.value)) = d
  BY DEF AcceptedIsSendable
<1>1. PICK cmd, args : cmd = Token1(text) /\ args = Rest(text)
  OBVIOUS
<1>2. /\ Keywords \subseteq Symbol \ {SP}
  BY WordsAreSymbols DEF Separators
<1>3. ASSUME NEW w \in {"PING", "END-PHASE", "SHUTDOWN"}
      PROVE  Token1(<<w>>) = <<w>>
  BY <1>2, TokenAlone DEF Keywords
<1>4. CASE cmd = <<"PING">>
  BY <1>1, <1>3, <1>4 DEF DecodeRequest, EncodeRequest, Gives
<1>5. CASE cmd = <<"END-PHASE">>
  BY <1>1, <1>3, <1>5 DEF DecodeRequest, EncodeRequest, Gives
<1>6. CASE cmd = <<"SHUTDOWN">>
  BY <1>1, <1>3, <1>6 DEF DecodeRequest, EncodeRequest, Gives
<1>7. CASE cmd = <<"START-PHASE">>
  <2>1. d = DecodeStart(args)
    BY <1>1, <1>7 DEF DecodeRequest
  <2>2. PICK pid, x : pid = PidOf(Token1(args)) /\ x = Rest(args)
    OBVIOUS
  <2>3. /\ pid # 0 /\ x # << >>
        /\ d = Gives([type |-> "start-phase", pid |-> pid, phase |-> x])
    BY <2>1, <2>2 DEF DecodeStart, Fails
  <2>4. pid \in DOMAIN Decimal
    BY <2>2, <2>3, WireAssumption DEF PidOf
  <2>5. PICK w : w = Decimal[pid]
    OBVIOUS
  <2>6. w \in DOMAIN FromChars /\ FromChars[w] = pid
    BY <2>4, <2>5, WireAssumption
  <2>7. x \in Text
    <3>1. args \in Text
      BY <1>1, RestIsText
    <3> QED BY <2>2, <3>1, RestIsText
  <2>8. EncodeRequest(d.value) = <<"START-PHASE", SP, w, SP>> \o x
    BY <2>3, <2>5 DEF EncodeRequest, Gives
  <2> QED BY <2>3, <2>6, <2>7, <2>8, StartLine
<1>8. CASE cmd = <<"REPORT">>
  <2>1. d = DecodeReport(args)
    BY <1>1, <1>8 DEF DecodeRequest
  <2>2. PICK f \in Formats : d = Gives([type |-> "report", format |-> f])
    BY <2>1 DEF DecodeReport, Fails, Formats
  <2>3. PICK arg, line : arg = <<f>> /\ line = <<"REPORT", SP>> \o arg
    OBVIOUS
  <2>4. f \in Symbol \ {SP} /\ "REPORT" \in Symbol \ {SP} /\ SP \in Symbol
    BY <1>2, WordsAreSymbols DEF Keywords, Formats, Separators
  <2>5. arg \in Text
    BY <2>3, <2>4 DEF Text
  <2>6. Token1(line) = <<"REPORT">> /\ Rest(line) = arg
    BY <2>3, <2>4, <2>5, TokenOfLine
  <2>7. DecodeRequest(line) = DecodeReport(arg)
    BY <2>6 DEF DecodeRequest
  <2>8. DecodeReport(arg) = d
    BY <2>2, <2>3 DEF DecodeReport
  <2>9. line = <<"REPORT", SP, f>>
    <3>1. PICK l : l = <<"REPORT", SP, f>>
      OBVIOUS
    <3>2. l \in Text /\ line \in Text /\ Len(l) = 3 /\ Len(line) = 3
          /\ \A i \in 1..3 : line[i] = l[i]
      BY <2>3, <2>4, <3>1 DEF Text
    <3>3. line = l
      BY <3>2, SeqEqual DEF Text
    <3> QED BY <3>1, <3>3
  <2>10. EncodeRequest(d.value) = line
    BY <2>2, <2>9 DEF EncodeRequest, Gives
  <2> QED BY <2>7, <2>8, <2>10
<1> QED BY <1>1, <1>4, <1>5, <1>6, <1>7, <1>8 DEF DecodeRequest, Fails

\* However a report is cut, it passes for malformed or shows its severity
\* (decodeResponse, proto.cpp:241-264).
LEMMA CutReport ==
  ASSUME text \in Text
  PROVE  CutReportKeepsSeverity
<1> SUFFICES ASSUME NEW sev \in 0..3, NEW whole,
                    whole = EncodeResponse([type |-> "report",
                                            severity |-> sev, body |-> text]),
                    NEW n \in 0..Len(whole),
                    NEW r, r = DecodeReply("report", SubSeq(whole, 1, n))
             PROVE  r.type = "error" \/ r.severity = sev
  BY DEF CutReportKeepsSeverity
<1>1. PICK raw : raw = SubSeq(whole, 1, n)
  OBVIOUS
<1>2. whole \in Text /\ Len(whole) = 5 + Len(text) /\ Header(whole, sev)
  <2>1. whole = ReportHeader(sev) \o text
    BY DEF EncodeResponse, ReportHeader
  <2> QED BY <2>1, ReportEncoded
<1>3. /\ raw \in Text /\ n \in Nat /\ Len(raw) = n
      /\ \A i \in 1..n : raw[i] = whole[i]
  BY <1>1, <1>2 DEF Text
<1>4. CASE n = 0
  <2>1. raw = << >>
    BY <1>3, <1>4 DEF Text
  <2> QED BY <1>1, <2>1 DEF DecodeReply
<1>5. CASE n \in 1..4
  <2>1. /\ whole[1] # NL /\ whole[2] # NL /\ whole[3] # NL /\ whole[4] # NL
        /\ whole[1] # "ERR"
    <3>1. SeverityToString(sev) # NL
      BY SeverityRead, WordsAreSymbols DEF Separators
    <3> QED BY <1>2, <3>1 DEF Header, SP, NL
  <2>2. \A i \in 1..Len(raw) : raw[i] # NL
    BY <1>3, <1>5, <2>1
  <2>3. Find(raw, NL) = 0
    BY <1>3, <2>2, FindNone
  <2>4. ~DecodeHeader(raw).ok
    BY <2>3 DEF DecodeHeader, Fails
  <2>5. raw # << >> /\ raw[1] # "ERR"
    BY <1>3, <1>5, <2>1
  <2>6. ~IsError(raw)
    BY <1>3, <2>5, ErrorBegins
  <2> QED BY <1>1, <2>4, <2>5, <2>6 DEF DecodeReply
<1>6. CASE n >= 5
  <2>1. Header(raw, sev)
    BY <1>2, <1>3, <1>6 DEF Header
  <2>2. DecodeReply("report", raw).severity = sev
    BY <1>3, <1>6, <2>1, HeaderDecoded
  <2> QED BY <1>1, <2>2
<1> QED BY <1>3, <1>4, <1>5, <1>6

\* A report arrives as a report with its severity and all of its body, a
\* refusal as a refusal with the first line of its reason (encode,
\* decodeError, decodeResponse and sendCommand, proto.cpp:117-152, 225-264,
\* proto.h:116-132).
LEMMA ReplyArrives ==
  ASSUME text \in Text
  PROVE  ReplySurvives
<1>1. ASSUME NEW sev \in 0..3,
             NEW sent, sent = [type |-> "report", severity |-> sev, body |-> text]
      PROVE  DecodeReply("report", Append(EncodeResponse(sent), NL)) =
               [sent EXCEPT !.body = Append(text, NL)]
  <2>1. PICK w, b, raw : /\ w = ReportHeader(sev) \o text /\ b = Append(text, NL)
                         /\ raw = Append(w, NL)
    OBVIOUS
  <2>2. EncodeResponse(sent) = w
    BY <1>1, <2>1 DEF EncodeResponse, ReportHeader
  <2>3. NL \in Symbol
    BY WordsAreSymbols DEF Separators
  <2>4. /\ w \in Text /\ Len(w) = 5 + Len(text) /\ Header(w, sev)
        /\ \A i \in 1..Len(text) : w[5 + i] = text[i]
    BY <2>1, ReportEncoded
  <2>5. /\ raw \in Text /\ Len(raw) = 6 + Len(text) /\ Len(text) \in Nat
        /\ raw[6 + Len(text)] = NL
        /\ \A i \in 1..5 + Len(text) : raw[i] = w[i]
    BY <2>1, <2>3, <2>4 DEF Text
  <2>6. Header(raw, sev)
    BY <2>4, <2>5 DEF Header
  <2>7. DecodeReply("report", raw) =
          [type |-> "report", severity |-> sev, body |-> SubSeq(raw, 6, Len(raw))]
    BY <2>5, <2>6, HeaderDecoded
  <2>8. SubSeq(raw, 6, Len(raw)) = b
    <3>1. PICK a : a = SubSeq(raw, 6, Len(raw))
      OBVIOUS
    <3>2. /\ a \in Text /\ Len(a) = Len(text) + 1
          /\ \A i \in 1..Len(a) : a[i] = raw[5 + i]
      BY <2>5, <3>1 DEF Text
    <3>3. /\ b \in Text /\ Len(b) = Len(text) + 1 /\ b[Len(text) + 1] = NL
          /\ \A i \in 1..Len(text) : b[i] = text[i]
      BY <2>1, <2>3 DEF Text
    <3>4. ASSUME NEW i \in 1..Len(a) PROVE a[i] = b[i]
      <4>1. CASE i \in 1..Len(text)
        BY <2>4, <2>5, <3>2, <3>3, <4>1
      <4>2. CASE i = Len(text) + 1
        BY <2>5, <3>2, <3>3, <4>2
      <4> QED BY <2>5, <3>2, <4>1, <4>2
    <3>5. a = b
      BY <3>2, <3>3, <3>4, SeqEqual DEF Text
    <3> QED BY <3>1, <3>5
  <2>9. [sent EXCEPT !.body = b] =
          [type |-> "report", severity |-> sev, body |-> b]
    BY <1>1
  <2> QED BY <2>1, <2>2, <2>7, <2>8, <2>9
<1>2. ASSUME NEW type \in Types
      PROVE  DecodeReply(type, Append(EncodeResponse(
                                        [type |-> "error", reason |-> text]), NL)) =
               [type |-> "error",
                reason |-> IF Stripped(Received(Append(text, NL))) = << >>
                           THEN <<"request", SP, "rejected">>
                           ELSE Stripped(Received(Append(text, NL)))]
  <2>1. EncodeResponse([type |-> "error", reason |-> text]) = EncodeError(text)
    BY DEF EncodeResponse
  <2> QED BY <2>1, ErrorDecoded
<1> QED BY <1>1, <1>2 DEF ReplySurvives
-----------------------------------------------------------------------------
(* A text of any length, over any symbols. *)

LEMMA TextAlways == TextSpec => [](text \in Text)
<1>1. text = << >> => text \in Text
  BY DEF Text
<1>2. text \in Text /\ [GrowText]_text => (text \in Text)'
  BY SymbolsAssumption DEF Text, GrowText
<1> QED BY <1>1, <1>2, PTL DEF TextSpec

\* The daemon starts the phase the client was told to start, whatever its
\* name (encode and decodeRequest, proto.cpp:97-99, 177-215).
THEOREM RequestsSurvive == TextSpec => []RequestSurvives
BY RequestArrives, TextAlways, PTL

\* Whatever line the daemon accepts, the client could have sent the request it
\* takes it for (encode and decodeRequest, proto.cpp:92-115, 177-215).
THEOREM AcceptedAreSendable == TextSpec => []AcceptedIsSendable
BY AcceptedSendable, TextAlways, PTL

\* A reply of any length arrives as what it was (encode, decodeError,
\* decodeResponse and sendCommand, proto.cpp:117-152, 225-264,
\* proto.h:116-132).
THEOREM RepliesSurvive == TextSpec => []ReplySurvives
BY ReplyArrives, TextAlways, PTL

\* A report of any length never shows a lower severity, wherever it is cut
\* (decodeResponse, proto.cpp:241-264).
THEOREM CutReportsKeepSeverity == TextSpec => []CutReportKeepsSeverity
BY CutReport, TextAlways, PTL
-----------------------------------------------------------------------------
(* Paths. *)

Components == Names \cup {Deleted[name] : name \in Names} \cup {NodeModules}
Paths == Seq(Components)

\* Where the last node_modules of a path is, or 0.
LastModules(p) == SelectLastInSeq(p, LAMBDA c : c = NodeModules)

LEMMA LastModulesIs ==
  ASSUME NEW p \in Paths
  PROVE  \/ LastModules(p) = 0 /\ \A i \in 1..Len(p) : p[i] # NodeModules
         \/ /\ LastModules(p) \in 1..Len(p) /\ p[LastModules(p)] = NodeModules
            /\ \A i \in LastModules(p) + 1..Len(p) : p[i] # NodeModules
<1> DEFINE I == {i \in 1..Len(p) : p[i] = NodeModules}
<1>1. LastModules(p) = IF I # {} THEN Max(I) ELSE 0
  BY DEF LastModules, SelectLastInSeq
<1>2. Len(p) \in Nat /\ I \subseteq 1..Len(p)
  BY DEF Paths
<1>3. \/ LastModules(p) = 0 /\ I = {}
      \/ /\ LastModules(p) \in I /\ LastModules(p) \in 1..Len(p)
         /\ \A i \in LastModules(p) + 1..Len(p) : i \notin I
  <2> HIDE DEF I
  <2>1. PICK f : f = LastModules(p)
    OBVIOUS
  <2>2. f = IF I # {} THEN Max(I) ELSE 0
    BY <1>1, <2>1
  <2>3. \/ f = 0 /\ I = {}
        \/ f \in I /\ f \in 1..Len(p) /\ \A i \in f + 1..Len(p) : i \notin I
    BY <1>2, <2>2, LastOfPositions, Zenon
  <2> QED BY <2>1, <2>3
<1> QED BY <1>2, <1>3

\* There is one place it can be.
LEMMA LastModulesAt ==
  ASSUME NEW p \in Paths, NEW k \in 1..Len(p), p[k] = NodeModules,
         \A i \in k + 1..Len(p) : p[i] # NodeModules
  PROVE  LastModules(p) = k
<1>1. PICK f, n : f = LastModules(p) /\ n = Len(p)
  OBVIOUS
<1>2. n \in Nat
  BY <1>1 DEF Paths
<1>3. f \in 1..n /\ p[f] = NodeModules /\ \A i \in f + 1..n : p[i] # NodeModules
  BY <1>1, LastModulesIs
<1>4. ~(f < k)
  BY <1>1, <1>2, <1>3
<1>5. ~(k < f)
  BY <1>1, <1>2, <1>3
<1> QED BY <1>1, <1>2, <1>3, <1>4, <1>5

\* No directory of pnpm's store follows the last node_modules: the branch for
\* it yields nothing.
LEMMA PnpmNothing ==
  ASSUME NEW p \in Paths, NEW k \in Nat, \A i \in k..Len(p) : p[i] # NodeModules
  PROVE  PnpmPackage(p, k) = None
<1> DEFINE I == {i \in k..Len(p) - 1 : p[i] = NodeModules}
<1>1. Len(p) \in Nat
  BY DEF Paths
<1>2. I = {}
  BY <1>1
<1>3. SelectInSubSeq(p, k, Len(p) - 1, LAMBDA c : c = NodeModules) = 0
  BY <1>2 DEF SelectInSubSeq
<1> QED BY <1>3 DEF PnpmPackage

\* What a path is put down to: what follows the last node_modules.
LEMMA BlamedIs ==
  ASSUME NEW p \in Paths, NEW k \in 1..Len(p), p[k] = NodeModules,
         \A i \in k + 1..Len(p) : p[i] # NodeModules
  PROVE  PackageFromPath(p) =
           IF k = Len(p) THEN None
           ELSE IF p[k + 1] \in Scoped /\ k + 1 < Len(p)
                THEN <<p[k + 1], p[k + 2]>>
           ELSE IF p[k + 1] \in Hidden THEN None
           ELSE <<p[k + 1]>>
<1>1. PackageFromPath(p) = PackageAfter(p, k)
  BY LastModulesAt DEF PackageFromPath, LastModules
<1>2. k \in Nat /\ k # 0 /\ Len(p) \in Nat
  BY DEF Paths
<1>3. PnpmPackage(p, k + 2) = None
  BY <1>2, PnpmNothing
<1>4. ".pnpm" \in Hidden /\ ".pnpm" \notin Scoped
  BY AttributorAssumption
<1> QED BY <1>1, <1>2, <1>3, <1>4 DEF PackageAfter

LEMMA NobodyBlamed ==
  ASSUME NEW p \in Paths, LastModules(p) = 0
  PROVE  PackageFromPath(p) = None
BY DEF PackageFromPath, LastModules, PackageAfter

\* The first components behind a position, as a sequence.
LEMMA OneBehind ==
  ASSUME NEW p \in Paths, NEW i \in 0..Len(p) - 1
  PROVE  SubSeq(p, i + 1, i + 1) = <<p[i + 1]>>
<1>1. PICK a, b : a = SubSeq(p, i + 1, i + 1) /\ b = <<p[i + 1]>>
  OBVIOUS
<1>2. a \in Paths /\ Len(a) = 1 /\ a[1] = p[i + 1]
  BY <1>1 DEF Paths
<1>3. b \in Paths /\ Len(b) = 1 /\ b[1] = p[i + 1]
  BY <1>1 DEF Paths
<1>4. \A j \in 1..Len(a) : a[j] = b[j]
  BY <1>2, <1>3
<1> QED BY <1>1, <1>2, <1>3, <1>4, SeqEqual DEF Paths

LEMMA TwoBehind ==
  ASSUME NEW p \in Paths, NEW i \in 0..Len(p) - 2
  PROVE  SubSeq(p, i + 1, i + 2) = <<p[i + 1], p[i + 2]>>
<1>1. PICK a, b : a = SubSeq(p, i + 1, i + 2) /\ b = <<p[i + 1], p[i + 2]>>
  OBVIOUS
<1>2. a \in Paths /\ Len(a) = 2 /\ a[1] = p[i + 1] /\ a[2] = p[i + 2]
  BY <1>1 DEF Paths
<1>3. b \in Paths /\ Len(b) = 2 /\ b[1] = p[i + 1] /\ b[2] = p[i + 2]
  BY <1>1 DEF Paths
<1>4. \A j \in 1..Len(a) : a[j] = b[j]
  BY <1>2, <1>3
<1> QED BY <1>1, <1>2, <1>3, <1>4, SeqEqual DEF Paths

\* What makes one or two components a package.
LEMMA PackageOfOne ==
  ASSUME NEW x
  PROVE  IsPackage(<<x>>) <=> x # Nameless /\ x \notin Scoped \cup Hidden
<1>1. PICK s : s = <<x>>
  OBVIOUS
<1>2. Len(s) = 1 /\ s[1] = x /\ DOMAIN s = {1}
  BY <1>1
<1>3. Nameless \in ToSet(s) <=> x = Nameless
  BY <1>2 DEF ToSet
<1> QED BY <1>1, <1>2, <1>3 DEF IsPackage

LEMMA PackageOfTwo ==
  ASSUME NEW x, NEW y
  PROVE  IsPackage(<<x, y>>) <=> x # Nameless /\ y # Nameless /\ x \in Scoped
<1>1. PICK s : s = <<x, y>>
  OBVIOUS
<1>2. Len(s) = 2 /\ s[1] = x /\ s[2] = y /\ DOMAIN s = {1, 2}
  BY <1>1
<1>3. Nameless \in ToSet(s) <=> x = Nameless \/ y = Nameless
  BY <1>2 DEF ToSet
<1> QED BY <1>1, <1>2, <1>3 DEF IsPackage

LEMMA PackageLength ==
  ASSUME NEW pkg, IsPackage(pkg)
  PROVE  Len(pkg) \in {1, 2}
BY DEF IsPackage

\* The package a path lies in is one of the two that can follow the last
\* node_modules.
LEMMA InnermostAre ==
  ASSUME NEW p \in Paths, NEW k \in 1..Len(p), p[k] = NodeModules,
         \A i \in k + 1..Len(p) : p[i] # NodeModules,
         NEW pkg
  PROVE  pkg \in InnermostPackages(p) <=>
           /\ IsPackage(pkg)
           /\ \/ k < Len(p) /\ pkg = <<p[k + 1]>>
              \/ k + 1 < Len(p) /\ pkg = <<p[k + 1], p[k + 2]>>
<1>1. PICK n : n = Len(p)
  OBVIOUS
<1>2. n \in Nat /\ k \in 1..n
  BY <1>1 DEF Paths
<1>3. ASSUME pkg \in InnermostPackages(p)
      PROVE  /\ IsPackage(pkg)
             /\ \/ k < n /\ pkg = <<p[k + 1]>>
                \/ k + 1 < n /\ pkg = <<p[k + 1], p[k + 2]>>
  <2>1. IsPackage(pkg) /\ Len(pkg) \in {1, 2}
    BY <1>3, PackageLength, Zenon DEF InnermostPackages
  <2>2. PICK i \in 1..n - Len(pkg) :
          /\ p[i] = NodeModules /\ SubSeq(p, i + 1, i + Len(pkg)) = pkg
          /\ NodeModules \notin {p[j] : j \in i + 1..n}
    BY <1>1, <1>3, Zenon DEF InnermostPackages, Innermost
  <2>3. i = k
    <3>1. i \in 1..n
      BY <1>2, <2>1, <2>2
    <3>2. \A j \in i + 1..n : p[j] # NodeModules
      BY <2>2
    <3> QED BY <1>1, <1>2, <2>2, <3>1, <3>2, LastModulesAt
  <2>4. CASE Len(pkg) = 1
    <3>1. pkg = SubSeq(p, k + 1, k + 1) /\ k \in 1..n - 1
      BY <2>2, <2>3, <2>4, Zenon
    <3>2. k < n /\ k \in 0..n - 1
      BY <1>2, <3>1
    <3> QED BY <1>1, <2>1, <3>1, <3>2, OneBehind
  <2>5. CASE Len(pkg) = 2
    <3>1. pkg = SubSeq(p, k + 1, k + 2) /\ k \in 1..n - 2
      BY <2>2, <2>3, <2>5, Zenon
    <3>2. k + 1 < n /\ k \in 0..n - 2
      BY <1>2, <3>1
    <3> QED BY <1>1, <2>1, <3>1, <3>2, TwoBehind
  <2> QED BY <2>1, <2>4, <2>5
<1>4. ASSUME NEW l \in {1, 2}, k + l <= n, IsPackage(pkg), Len(pkg) = l,
             pkg = SubSeq(p, k + 1, k + l)
      PROVE  pkg \in InnermostPackages(p)
  <2>1. k + 1 \in 2..n /\ k + l \in 2..n /\ k \in 1..n - l
    BY <1>2, <1>4
  <2>2. pkg \in Pieces(p)
    BY <1>1, <1>4, <2>1 DEF Pieces
  <2>3. /\ p[k] = NodeModules /\ SubSeq(p, k + 1, k + Len(pkg)) = pkg
        /\ NodeModules \notin {p[j] : j \in k + 1..n}
        /\ k \in 1..n - Len(pkg)
    BY <1>1, <1>4, <2>1
  <2>4. Innermost(pkg, p)
    BY <1>1, <2>3, Zenon DEF Innermost
  <2> QED BY <1>1, <1>4, <2>2, <2>4, Zenon DEF InnermostPackages
<1>5. ASSUME IsPackage(pkg), k < n, pkg = <<p[k + 1]>>
      PROVE  pkg \in InnermostPackages(p)
  <2>1. k \in 0..n - 1 /\ k + 1 <= n
    BY <1>2, <1>5
  <2>2. pkg = SubSeq(p, k + 1, k + 1)
    BY <1>1, <1>5, <2>1, OneBehind
  <2>3. Len(pkg) = 1
    BY <1>5
  <2> QED BY <1>4, <1>5, <2>1, <2>2, <2>3
<1>6. ASSUME IsPackage(pkg), k + 1 < n, pkg = <<p[k + 1], p[k + 2]>>
      PROVE  pkg \in InnermostPackages(p)
  <2>1. k \in 0..n - 2 /\ k + 2 <= n
    BY <1>2, <1>6
  <2>2. pkg = SubSeq(p, k + 1, k + 2)
    BY <1>1, <1>6, <2>1, TwoBehind
  <2>3. Len(pkg) = 2
    BY <1>6
  <2> QED BY <1>4, <1>6, <2>1, <2>2, <2>3
<1> QED BY <1>1, <1>3, <1>5, <1>6

LEMMA NoneInnermost ==
  ASSUME NEW p \in Paths, \A i \in 1..Len(p) : p[i] # NodeModules
  PROVE  InnermostPackages(p) = {}
<1> SUFFICES ASSUME NEW pkg \in InnermostPackages(p) PROVE FALSE
  OBVIOUS
<1>1. Len(pkg) \in {1, 2} /\ Len(p) \in Nat
  <2>1. IsPackage(pkg)
    BY Zenon DEF InnermostPackages
  <2> QED BY <2>1, PackageLength DEF Paths
<1>2. PICK i \in 1..Len(p) - Len(pkg) : p[i] = NodeModules
  BY Zenon DEF InnermostPackages, Innermost
<1> QED BY <1>1, <1>2

\* A path nothing follows the empty component of.
Whole(p) == \A i \in 1..Len(p) - 1 : p[i] # Nameless

\* The package a path is put down to is the innermost one it lies in
\* (packageFromPath, attributor.cpp:18-68).
LEMMA InnermostOfPath ==
  ASSUME path \in Paths, Whole(path)
  PROVE  InnermostPackageBlamed
<1>1. PICK p, b, r : /\ p = path /\ b = PackageFromPath(p)
                     /\ r = InnermostPackages(p)
  OBVIOUS
<1> SUFFICES IF r # {} THEN r = {b}
             ELSE \/ b = None
                  \/ Last(b) = Last(p) /\ Last(p) \in Scoped \cup {Nameless}
  BY <1>1 DEF InnermostPackageBlamed
<1>2. p \in Paths /\ Whole(p) /\ Len(p) \in Nat
  BY <1>1 DEF Paths
<1>3. CASE LastModules(p) = 0
  <2>1. \A i \in 1..Len(p) : p[i] # NodeModules
    BY <1>2, <1>3, LastModulesIs
  <2> QED BY <1>1, <1>2, <1>3, <2>1, NobodyBlamed, NoneInnermost
<1>4. CASE LastModules(p) # 0
  <2>1. PICK k \in 1..Len(p) :
          /\ p[k] = NodeModules
          /\ \A i \in k + 1..Len(p) : p[i] # NodeModules
    BY <1>2, <1>4, LastModulesIs
  <2>2. PICK n, x, y : n = Len(p) /\ x = p[k + 1] /\ y = p[k + 2]
    OBVIOUS
  <2>3. n \in Nat /\ k \in 1..n
    BY <1>2, <2>1, <2>2
  <2>4. b = IF k = n THEN None
            ELSE IF x \in Scoped /\ k + 1 < n THEN <<x, y>>
            ELSE IF x \in Hidden THEN None
            ELSE <<x>>
    BY <1>1, <1>2, <2>1, <2>2, BlamedIs
  <2>5. \A pkg : pkg \in r <=>
          /\ IsPackage(pkg)
          /\ \/ k < n /\ pkg = <<x>>
             \/ k + 1 < n /\ pkg = <<x, y>>
    BY <1>1, <1>2, <2>1, <2>2, InnermostAre
  <2>6. Scoped \cap Hidden = {}
    BY AttributorAssumption
  <2>7. CASE k = n
    BY <2>3, <2>4, <2>5, <2>7
  <2>8. CASE k + 1 = n
    <3>1. r = IF IsPackage(<<x>>) THEN {<<x>>} ELSE {}
      BY <2>3, <2>5, <2>8
    <3>2. b = IF x \in Hidden THEN None ELSE <<x>>
      BY <2>3, <2>4, <2>8
    <3>3. Last(p) = x /\ Last(<<x>>) = x
      BY <2>2, <2>8 DEF Last
    <3> QED BY <3>1, <3>2, <3>3, PackageOfOne
  <2>9. CASE k + 1 < n
    <3>0. k + 1 \in 1..n - 1 /\ (k + 2 < n => k + 2 \in 1..n - 1)
      BY <2>3, <2>9
    <3>1. x # Nameless /\ (k + 2 < n => y # Nameless)
      BY <1>2, <2>2, <3>0 DEF Whole
    <3>2. CASE x \in Scoped
      <4>1. b = <<x, y>>
        BY <2>3, <2>4, <2>9, <3>2
      <4>2. r = IF y = Nameless THEN {} ELSE {<<x, y>>}
        BY <2>5, <2>9, <3>1, <3>2, PackageOfOne, PackageOfTwo
      <4>3. y = Nameless => n = k + 2
        BY <2>3, <2>9, <3>1
      <4>4. Last(b) = y /\ (n = k + 2 => Last(p) = y)
        BY <2>2, <4>1 DEF Last
      <4> QED BY <4>1, <4>2, <4>3, <4>4
    <3>3. CASE x \notin Scoped
      <4>1. b = IF x \in Hidden THEN None ELSE <<x>>
        BY <2>3, <2>4, <2>9, <3>3
      <4>2. r = IF x \in Hidden THEN {} ELSE {<<x>>}
        BY <2>3, <2>5, <2>9, <3>1, <3>3, PackageOfOne, PackageOfTwo
      <4> QED BY <4>1, <4>2
    <3> QED BY <3>2, <3>3
  <2> QED BY <2>3, <2>7, <2>8, <2>9
<1> QED BY <1>3, <1>4

\* What follows the last node_modules stays what it is when the path grows by
\* another name (packageFromPath, attributor.cpp:18-68).
LEMMA DeeperStep ==
  ASSUME path \in Paths, Descend
  PROVE  IsPackage(PackageFromPath(path)) /\ Last(path') # NodeModules
           => PackageFromPath(path') = PackageFromPath(path)
<1> SUFFICES ASSUME IsPackage(PackageFromPath(path)), Last(path') # NodeModules
             PROVE  PackageFromPath(path') = PackageFromPath(path)
  OBVIOUS
<1>1. PICK name \in Names : path' = Append(path, name)
  BY DEF Descend
<1>2. PICK p, q, n : p = path /\ q = path' /\ n = Len(p)
  OBVIOUS
<1>3. /\ p \in Paths /\ n \in Nat /\ q \in Paths /\ Len(q) = n + 1
      /\ \A i \in 1..n : q[i] = p[i]
  <2>1. PICK c \in Components : q = Append(p, c)
    BY <1>1, <1>2 DEF Components
  <2> QED BY <1>2, <2>1 DEF Paths
<1>4. q[n + 1] # NodeModules
  BY <1>2, <1>3 DEF Last
<1>5. ~IsPackage(None)
  BY DEF IsPackage, None
<1>6. LastModules(p) # 0
  BY <1>2, <1>3, <1>5, NobodyBlamed
<1>7. PICK k \in 1..n : /\ p[k] = NodeModules
                        /\ \A i \in k + 1..n : p[i] # NodeModules
  BY <1>2, <1>3, <1>6, LastModulesIs
<1>8. /\ k \in 1..Len(q) /\ q[k] = NodeModules
      /\ \A i \in k + 1..Len(q) : q[i] # NodeModules
  <2>1. k \in 1..Len(q) /\ q[k] = NodeModules
    BY <1>3, <1>7
  <2>2. ASSUME NEW i \in k + 1..Len(q) PROVE q[i] # NodeModules
    <3>1. CASE i = n + 1
      BY <1>4, <3>1
    <3>2. CASE i # n + 1
      <4>1. i \in k + 1..n /\ i \in 1..n
        BY <1>3, <1>7, <2>2, <3>2
      <4> QED BY <1>3, <1>7, <4>1
    <3> QED BY <3>1, <3>2
  <2> QED BY <2>1, <2>2
<1>9. PICK x, y : x = p[k + 1] /\ y = p[k + 2]
  OBVIOUS
<1>10. PackageFromPath(p) =
         IF k = n THEN None
         ELSE IF x \in Scoped /\ k + 1 < n THEN <<x, y>>
         ELSE IF x \in Hidden THEN None
         ELSE <<x>>
  BY <1>2, <1>3, <1>7, <1>9, BlamedIs
<1>11. PackageFromPath(q) =
         IF k = n + 1 THEN None
         ELSE IF q[k + 1] \in Scoped /\ k + 1 < n + 1 THEN <<q[k + 1], q[k + 2]>>
         ELSE IF q[k + 1] \in Hidden THEN None
         ELSE <<q[k + 1]>>
  BY <1>3, <1>8, BlamedIs
<1>12. k < n /\ q[k + 1] = x /\ (k + 1 < n => q[k + 2] = y)
  <2>1. k # n
    BY <1>2, <1>5, <1>10
  <2>2. k < n /\ k + 1 \in 1..n /\ (k + 1 < n => k + 2 \in 1..n)
    BY <1>3, <1>7, <2>1
  <2> QED BY <1>3, <1>9, <2>2
<1>13. k \in Nat /\ k # n + 1 /\ k + 1 < n + 1 /\ k # n
  BY <1>3, <1>7, <1>12
<1>14. CASE x \in Scoped /\ k + 1 < n
  BY <1>2, <1>10, <1>11, <1>12, <1>13, <1>14
<1>15. CASE x \in Scoped /\ ~(k + 1 < n)
  <2>1. PackageFromPath(p) \in {None, <<x>>}
    BY <1>10, <1>13, <1>15
  <2> QED BY <1>2, <1>5, <1>15, <2>1, PackageOfOne
<1>16. CASE x \notin Scoped
  BY <1>2, <1>10, <1>11, <1>12, <1>13, <1>16
<1> QED BY <1>14, <1>15, <1>16

LEMMA PathAlways == PathSpec => [](path \in Paths /\ Whole(path))
<1>1. path = << >> => path \in Paths /\ Whole(path)
  BY DEF Paths, Whole
<1>2. path \in Paths /\ Whole(path) /\ [Descend]_path
      => (path \in Paths /\ Whole(path))'
  <2> SUFFICES ASSUME path \in Paths, Whole(path), [Descend]_path
               PROVE  path' \in Paths /\ Whole(path')
    OBVIOUS
  <2>1. CASE Descend
    <3>1. PICK name \in Names : path' = Append(path, name)
      BY <2>1 DEF Descend
    <3>2. /\ path' \in Paths /\ Len(path) \in Nat /\ Len(path') = Len(path) + 1
          /\ \A i \in 1..Len(path) : path'[i] = path[i]
      <4>1. PICK c \in Components : path' = Append(path, c)
        BY <3>1 DEF Components
      <4> QED BY <4>1 DEF Paths
    <3>3. \A i \in 1..Len(path) : path[i] # Nameless
      <4>1. DOMAIN path = 1..Len(path)
        BY DEF Paths
      <4>2. \A i \in DOMAIN path : path[i] \in ToSet(path)
        BY DEF ToSet
      <4> QED BY <2>1, <4>1, <4>2 DEF Descend
    <3> QED BY <3>2, <3>3 DEF Whole
  <2>2. CASE UNCHANGED path
    BY <2>2
  <2> QED BY <2>1, <2>2
<1> QED BY <1>1, <1>2, PTL DEF PathSpec

\* A path of any length is put down to the innermost package it lies in
\* (packageFromPath, attributor.cpp:18-68).
THEOREM InnermostBlamed == PathSpec => []InnermostPackageBlamed
BY InnermostOfPath, PathAlways, PTL

\* A process that goes deeper into a package, however deep, stays in it until
\* it meets another node_modules (packageFromPath, attributor.cpp:18-68).
THEOREM DeeperInside == PathSpec => DeeperIsInside
<1>1. path \in Paths /\ Whole(path) /\ [Descend]_path
      => [IsPackage(PackageFromPath(path)) /\ Last(path') # NodeModules
          => PackageFromPath(path') = PackageFromPath(path)]_path
  BY DeeperStep
<1> QED BY <1>1, PathAlways, PTL DEF PathSpec, DeeperIsInside
-----------------------------------------------------------------------------
(* Directories that have been removed. *)

LEMMA SuffixIs ==
  ASSUME NEW s \in Paths, NEW t \in Paths
  PROVE  IsSuffix(s, t) <=>
           /\ Len(s) <= Len(t)
           /\ \A i \in 1..Len(s) : s[i] = t[Len(t) - Len(s) + i]
<1>1. PICK a, b, m, n : /\ a = Reverse(s) /\ b = Reverse(t)
                        /\ m = Len(s) /\ n = Len(t)
  OBVIOUS
<1>2. m \in Nat /\ n \in Nat
  BY <1>1 DEF Paths
<1>3. /\ a \in Paths /\ Len(a) = m /\ \A i \in 1..m : a[i] = s[m - i + 1]
      /\ b \in Paths /\ Len(b) = n /\ \A i \in 1..n : b[i] = t[n - i + 1]
  <2>1. \A i \in 1..m : s[(m - i) + 1] \in Components
    <3>1. ASSUME NEW i \in 1..m PROVE s[(m - i) + 1] \in Components
      <4>1. (m - i) + 1 \in 1..m
        BY <1>2
      <4> QED BY <1>1, <4>1 DEF Paths
    <3> QED BY <3>1
  <2>2. \A i \in 1..n : t[(n - i) + 1] \in Components
    <3>1. ASSUME NEW i \in 1..n PROVE t[(n - i) + 1] \in Components
      <4>1. (n - i) + 1 \in 1..n
        BY <1>2
      <4> QED BY <1>1, <4>1 DEF Paths
    <3> QED BY <3>1
  <2> QED BY <1>1, <1>2, <2>1, <2>2 DEF Reverse, Paths
<1>4. IsSuffix(s, t) <=> m <= n /\ SubSeq(a, 1, m) = SubSeq(b, 1, m)
  BY <1>1, <1>3 DEF IsSuffix, IsPrefix
<1>5. ASSUME m <= n
      PROVE  SubSeq(a, 1, m) = SubSeq(b, 1, m) <=> \A i \in 1..m : a[i] = b[i]
  <2>1. PICK c, d : c = SubSeq(a, 1, m) /\ d = SubSeq(b, 1, m)
    OBVIOUS
  <2>2. c \in Paths /\ Len(c) = m /\ \A i \in 1..m : c[i] = a[i]
    BY <1>2, <1>3, <2>1 DEF Paths
  <2>3. d \in Paths /\ Len(d) = m /\ \A i \in 1..m : d[i] = b[i]
    BY <1>2, <1>3, <1>5, <2>1 DEF Paths
  <2>4. c = d <=> \A i \in 1..m : c[i] = d[i]
    BY <2>2, <2>3, SeqEqual DEF Paths
  <2> QED BY <2>1, <2>2, <2>3, <2>4
<1>6. ASSUME m <= n
      PROVE  (\A i \in 1..m : a[i] = b[i]) <=>
               \A i \in 1..m : s[i] = t[n - m + i]
  <2>1. \A i \in 1..m : i \in 1..n
    BY <1>2, <1>6
  <2>2. ASSUME \A i \in 1..m : a[i] = b[i], NEW j \in 1..m
        PROVE  s[j] = t[n - m + j]
    <3>1. PICK i : i = m - j + 1
      OBVIOUS
    <3>2. i \in 1..m /\ m - i + 1 = j /\ n - i + 1 = n - m + j
      BY <1>2, <3>1
    <3> QED BY <1>3, <2>1, <2>2, <3>2
  <2>3. ASSUME \A i \in 1..m : s[i] = t[n - m + i], NEW j \in 1..m
        PROVE  a[j] = b[j]
    <3>1. PICK i : i = m - j + 1
      OBVIOUS
    <3>2. i \in 1..m /\ n - m + i = n - j + 1 /\ m - j + 1 = i /\ j \in 1..n
      BY <1>2, <2>1, <3>1
    <3>3. a[j] = s[i] /\ b[j] = t[n - m + i]
      BY <1>3, <3>2
    <3> QED BY <2>3, <3>2, <3>3
  <2> QED BY <2>2, <2>3
<1> QED BY <1>1, <1>4, <1>5, <1>6

\* In a path whose last node_modules is k, a package ends it exactly if it is
\* as long as what follows.
LEMMA PackageEnds ==
  ASSUME NEW p \in Paths, NEW k \in 1..Len(p), p[k] = NodeModules,
         \A i \in k + 1..Len(p) : p[i] # NodeModules,
         NEW pkg \in Paths, k + Len(pkg) <= Len(p),
         \A i \in 1..Len(pkg) : pkg[i] = p[k + i]
  PROVE  IsSuffix(<<NodeModules>> \o pkg, p) <=> k + Len(pkg) = Len(p)
<1>1. PICK c, s, m, n : /\ c = NodeModules /\ s = <<c>> \o pkg
                        /\ m = Len(pkg) /\ n = Len(p)
  OBVIOUS
<1>2. m \in Nat /\ n \in Nat /\ k \in 1..n /\ k + m <= n /\ c \in Components
  BY <1>1 DEF Paths
<1>3. /\ s \in Paths /\ Len(s) = m + 1 /\ s[1] = c
      /\ \A i \in 1..m : s[i + 1] = pkg[i]
  BY <1>1, <1>2 DEF Paths
<1>4. IsSuffix(s, p) <=> /\ m + 1 <= n
                         /\ \A i \in 1..m + 1 : s[i] = p[n - (m + 1) + i]
  <2>1. IsSuffix(s, p) <=> /\ Len(s) <= Len(p)
                           /\ \A i \in 1..Len(s) : s[i] = p[Len(p) - Len(s) + i]
    BY <1>3, SuffixIs
  <2>2. Len(s) = m + 1 /\ Len(p) = n
    BY <1>1, <1>3
  <2> QED BY <2>1, <2>2, Zenon
<1>5. ASSUME IsSuffix(s, p) PROVE k + m = n
  <2>1. p[n - m] = c
    <3>1. 1 \in 1..m + 1 /\ n - (m + 1) + 1 = n - m
      BY <1>2
    <3> QED BY <1>3, <1>4, <1>5, <3>1
  <2>2. ~(n - m \in k + 1..n)
    BY <1>1, <2>1
  <2> QED BY <1>2, <2>2
<1>6. ASSUME k + m = n PROVE IsSuffix(s, p)
  <2>1. ASSUME NEW i \in 1..m + 1 PROVE s[i] = p[n - (m + 1) + i]
    <3>1. CASE i = 1
      <4>1. n - (m + 1) + i = k
        BY <1>2, <1>6, <3>1
      <4> QED BY <1>1, <1>3, <3>1, <4>1
    <3>2. CASE i # 1
      <4>1. PICK j : j = i - 1
        OBVIOUS
      <4>2. j \in 1..m /\ i = j + 1 /\ n - (m + 1) + i = k + j
        BY <1>2, <1>6, <3>2, <4>1
      <4> QED BY <1>1, <1>3, <4>2
    <3> QED BY <3>1, <3>2
  <2>2. m + 1 <= n
    BY <1>2, <1>6
  <2> QED BY <1>4, <2>1, <2>2
<1> QED BY <1>1, <1>5, <1>6

LEMMA OneRenamed ==
  ASSUME NEW x
  PROVE  Append(Front(<<x>>), Deleted[Last(<<x>>)]) = <<Deleted[x]>>
<1>1. Front(<<x>>) = << >> /\ Last(<<x>>) = x
  BY DEF Front, Last
<1> QED BY <1>1

LEMMA TwoRenamed ==
  ASSUME NEW x, NEW y
  PROVE  Append(Front(<<x, y>>), Deleted[Last(<<x, y>>)]) = <<x, Deleted[y]>>
<1>1. PICK s, d, f : s = <<x, y>> /\ d = Deleted[y] /\ f = Front(s)
  OBVIOUS
<1>2. PICK S : S = {x, y, d}
  OBVIOUS
<1>3. s \in Seq(S) /\ Len(s) = 2 /\ s[1] = x /\ s[2] = y /\ d \in S
  BY <1>1, <1>2
<1>4. f \in Seq(S) /\ Len(f) = 1 /\ f[1] = x
  BY <1>1, <1>3 DEF Front
<1>5. PICK a, b : a = Append(f, d) /\ b = <<x, d>>
  OBVIOUS
<1>6. a \in Seq(S) /\ Len(a) = 2 /\ a[1] = x /\ a[2] = d
  <2>1. d \in S /\ f \in Seq(S)
    BY <1>3, <1>4
  <2>2. /\ a \in Seq(S) /\ Len(a) = Len(f) + 1 /\ a[Len(f) + 1] = d
        /\ \A i \in 1..Len(f) : a[i] = f[i]
    BY <1>5, <2>1
  <2> QED BY <1>4, <2>2
<1>7. b \in Seq(S) /\ Len(b) = 2 /\ b[1] = x /\ b[2] = d
  BY <1>2, <1>5
<1>8. \A i \in 1..Len(a) : a[i] = b[i]
  BY <1>6, <1>7
<1>9. a = b
  BY <1>6, <1>7, <1>8, SeqEqual
<1>10. Last(s) = y
  BY <1>3 DEF Last
<1> QED BY <1>1, <1>5, <1>9, <1>10

\* The kernel's name for a removed directory changes the package only where
\* the directory is the package's own (readCwd, daemon.cpp:81-93,
\* packageFromPath, attributor.cpp:18-68).
LEMMA RemovalOfPath ==
  ASSUME path \in Seq(Names), Whole(path)
  PROVE  RemovalKeepsBlame
<1>1. PICK p, b : p = path /\ b = PackageFromPath(p)
  OBVIOUS
<1>2. PICK q : q = ReadCwd(p, TRUE)
  OBVIOUS
<1> SUFFICES ASSUME IsPackage(b)
             PROVE  PackageFromPath(q) =
                      IF IsSuffix(<<NodeModules>> \o b, p)
                      THEN Append(Front(b), Deleted[Last(b)]) ELSE b
  BY <1>1, <1>2 DEF RemovalKeepsBlame
<1>3. PICK n : n = Len(p)
  OBVIOUS
<1>4. /\ p \in Paths /\ n \in Nat /\ \A i \in 1..n : p[i] \in Names
      /\ \A i \in 1..n - 1 : p[i] # Nameless
  <2>1. Names \subseteq Components
    BY DEF Components
  <2>2. p \in Seq(Names)
    BY <1>1
  <2>3. p \in Paths /\ n \in Nat /\ \A i \in 1..n : p[i] \in Names
    BY <1>3, <2>1, <2>2 DEF Paths
  <2> QED BY <1>1, <1>3, <2>3 DEF Whole
<1>5. ~IsPackage(None)
  BY DEF IsPackage, None
<1>6. LastModules(p) # 0
  BY <1>1, <1>4, <1>5, NobodyBlamed
<1>7. PICK k \in 1..n : /\ p[k] = NodeModules
                        /\ \A i \in k + 1..n : p[i] # NodeModules
  BY <1>3, <1>4, <1>6, LastModulesIs
<1>8. PICK x, y : x = p[k + 1] /\ y = p[k + 2]
  OBVIOUS
<1>9. b = IF k = n THEN None
          ELSE IF x \in Scoped /\ k + 1 < n THEN <<x, y>>
          ELSE IF x \in Hidden THEN None
          ELSE <<x>>
  BY <1>1, <1>3, <1>4, <1>7, <1>8, BlamedIs
<1>10. k < n /\ k \in Nat /\ k # n
  <2>1. k # n
    BY <1>5, <1>9
  <2> QED BY <1>4, <1>7, <2>1
<1>11. PICK d : d = Deleted[p[n]]
  OBVIOUS
<1>12. /\ d \in Components /\ d # NodeModules
       /\ p[n] # Nameless => /\ d \in Scoped <=> p[n] \in Scoped
                             /\ d \in Hidden <=> p[n] \in Hidden
  <2>1. p[n] \in Names
    BY <1>4, <1>10
  <2> QED BY <1>11, <2>1, DeletedAssumption DEF Components, NodeModules, Nameless
<1>13. /\ q \in Paths /\ Len(q) = n /\ q[n] = d
       /\ \A i \in 1..n - 1 : q[i] = p[i]
  <2>1. PICK f : f = Front(p)
    OBVIOUS
  <2>2. f \in Paths /\ Len(f) = n - 1 /\ \A i \in 1..n - 1 : f[i] = p[i]
    BY <1>3, <1>4, <1>10, <2>1 DEF Front, Paths
  <2>3. q = Append(f, d)
    <3>1. p # << >>
      BY <1>3, <1>4, <1>10
    <3>2. Last(p) = p[n]
      BY <1>3 DEF Last
    <3> QED BY <1>2, <1>11, <2>1, <3>1, <3>2 DEF ReadCwd
  <2>4. q \in Paths /\ Len(q) = Len(f) + 1 /\ q[Len(f) + 1] = d
        /\ \A i \in 1..Len(f) : q[i] = f[i]
    BY <1>12, <2>2, <2>3 DEF Paths
  <2>5. Len(f) + 1 = n
    BY <1>4, <2>2
  <2> QED BY <2>2, <2>4, <2>5
<1>14. /\ k \in 1..Len(q) /\ q[k] = NodeModules
       /\ \A i \in k + 1..Len(q) : q[i] # NodeModules
  <2>1. k \in 1..n - 1
    BY <1>4, <1>7, <1>10
  <2>2. ASSUME NEW i \in k + 1..n PROVE q[i] # NodeModules
    <3>1. CASE i = n
      BY <1>12, <1>13, <3>1
    <3>2. CASE i # n
      <4>1. i \in 1..n - 1
        BY <1>4, <2>1, <2>2, <3>2
      <4> QED BY <1>7, <1>13, <2>2, <4>1
    <3> QED BY <3>1, <3>2
  <2> QED BY <1>7, <1>13, <2>1, <2>2
<1>15. PackageFromPath(q) =
         IF k = n THEN None
         ELSE IF q[k + 1] \in Scoped /\ k + 1 < n THEN <<q[k + 1], q[k + 2]>>
         ELSE IF q[k + 1] \in Hidden THEN None
         ELSE <<q[k + 1]>>
  BY <1>13, <1>14, BlamedIs
<1>16. CASE k + 1 = n
  <2>1. q[k + 1] = d /\ x = p[n]
    BY <1>8, <1>13, <1>16
  <2>2. ~(k + 1 < n)
    BY <1>10, <1>16
  <2>3. b = IF x \in Hidden THEN None ELSE <<x>>
    BY <1>9, <1>10, <2>2
  <2>4. x \notin Hidden /\ b = <<x>>
    BY <1>5, <2>3
  <2>5. x # Nameless
    BY <2>4, PackageOfOne
  <2>6. PackageFromPath(q) = <<d>>
    BY <1>10, <1>12, <1>15, <2>1, <2>2, <2>4, <2>5
  <2>7. Append(Front(b), Deleted[Last(b)]) = <<d>>
    BY <1>11, <2>1, <2>4, OneRenamed
  <2>8. IsSuffix(<<NodeModules>> \o b, p)
    <3>1. b \in Paths /\ Len(b) = 1 /\ b[1] = x
      BY <1>4, <1>10, <2>1, <2>4 DEF Paths, Components
    <3>2. \A i \in 1..Len(b) : b[i] = p[k + i]
      BY <1>8, <3>1
    <3>3. k + Len(b) = Len(p) /\ k + Len(b) <= Len(p)
      BY <1>3, <1>4, <1>16, <3>1
    <3> QED BY <1>3, <1>4, <1>7, <3>1, <3>2, <3>3, PackageEnds
  <2> QED BY <2>6, <2>7, <2>8
<1>17. CASE k + 1 < n
  <2>1. q[k + 1] = x
    <3>1. k + 1 \in 1..n - 1
      BY <1>4, <1>10, <1>17
    <3> QED BY <1>8, <1>13, <3>1
  <2>2. x \in Names /\ y \in Names /\ k + 2 <= n
    <3>1. k + 1 \in 1..n /\ k + 2 \in 1..n
      BY <1>4, <1>10, <1>17
    <3> QED BY <1>4, <1>8, <3>1
  <2>3. x \in Components /\ y \in Components
    BY <2>2 DEF Components
  <2>4. CASE x \in Scoped
    <3>1. b = <<x, y>> /\ PackageFromPath(q) = <<x, q[k + 2]>>
      BY <1>9, <1>10, <1>15, <1>17, <2>1, <2>4
    <3>2. b \in Paths /\ Len(b) = 2 /\ b[1] = x /\ b[2] = y
      BY <2>3, <3>1 DEF Paths
    <3>3. \A i \in 1..Len(b) : b[i] = p[k + i]
      BY <1>8, <3>2
    <3>4. IsSuffix(<<NodeModules>> \o b, p) <=> k + 2 = n
      <4>1. k + Len(b) <= Len(p)
        BY <1>3, <2>2, <3>2
      <4>2. IsSuffix(<<NodeModules>> \o b, p) <=> k + Len(b) = Len(p)
        BY <1>3, <1>4, <1>7, <3>2, <3>3, <4>1, PackageEnds
      <4> QED BY <1>3, <3>2, <4>2
    <3>5. CASE k + 2 = n
      <4>1. q[k + 2] = d /\ y = p[n]
        BY <1>8, <1>13, <3>5
      <4>2. Append(Front(b), Deleted[Last(b)]) = <<x, d>>
        BY <1>11, <3>1, <4>1, TwoRenamed
      <4> QED BY <3>1, <3>4, <3>5, <4>1, <4>2
    <3>6. CASE k + 2 # n
      <4>1. k + 2 \in 1..n - 1
        BY <1>4, <1>10, <2>2, <3>6
      <4>2. q[k + 2] = y
        BY <1>8, <1>13, <4>1
      <4> QED BY <3>1, <3>4, <3>6, <4>2
    <3> QED BY <3>5, <3>6
  <2>5. CASE x \notin Scoped
    <3>1. x \notin Hidden /\ b = <<x>>
      BY <1>5, <1>9, <1>10, <2>5
    <3>2. PackageFromPath(q) = <<x>>
      BY <1>10, <1>15, <2>1, <2>5, <3>1
    <3>3. b \in Paths /\ Len(b) = 1 /\ b[1] = x
      BY <2>3, <3>1 DEF Paths
    <3>4. \A i \in 1..Len(b) : b[i] = p[k + i]
      BY <1>8, <3>3
    <3>5. ~IsSuffix(<<NodeModules>> \o b, p)
      <4>1. k + Len(b) <= Len(p) /\ k + Len(b) # Len(p)
        BY <1>3, <1>10, <1>17, <2>2, <3>3
      <4> QED BY <1>3, <1>4, <1>7, <3>3, <3>4, <4>1, PackageEnds
    <3> QED BY <3>1, <3>2, <3>5
  <2> QED BY <2>4, <2>5
<1> QED BY <1>4, <1>10, <1>16, <1>17

LEMMA NamesAlways == PathSpec => [](path \in Seq(Names))
<1>1. path = << >> => path \in Seq(Names)
  OBVIOUS
<1>2. path \in Seq(Names) /\ [Descend]_path => (path \in Seq(Names))'
  BY DEF Descend
<1> QED BY <1>1, <1>2, PTL DEF PathSpec

\* A script whose working directory has been removed, however deep, is put down
\* to the package it was (readCwd, daemon.cpp:81-93).
THEOREM RemovalKept == PathSpec => []RemovalKeepsBlame
BY RemovalOfPath, NamesAlways, PathAlways, PTL
-----------------------------------------------------------------------------
(* Environments. *)

Envs == Seq(Words)

\* Where an entry begins.
Begin(e, i) == i = 1 \/ e[i - 1] = NUL

\* An entry ends before the next NUL, or with the copy.
LEMMA EntryEnds ==
  ASSUME NEW e \in Envs, NEW pos \in 1..Len(e)
  PROVE  /\ EntryLen(e, pos) \in 0..Len(e) + 1 - pos
         /\ \A i \in pos..pos + EntryLen(e, pos) - 1 : e[i] # NUL
         /\ \/ pos + EntryLen(e, pos) = Len(e) + 1
            \/ /\ pos + EntryLen(e, pos) \in 1..Len(e)
               /\ e[pos + EntryLen(e, pos)] = NUL
<1> DEFINE I == {i \in pos..Len(e) : e[i] = NUL}
<1>1. PICK f, n : /\ f = SelectInSubSeq(e, pos, Len(e), LAMBDA x : x = NUL)
                  /\ n = Len(e)
  OBVIOUS
<1>2. n \in Nat /\ pos \in 1..n /\ I \subseteq pos..n
  BY <1>1 DEF Envs
<1>3. f = IF I # {} THEN Min(I) ELSE 0
  BY <1>1 DEF SelectInSubSeq
<1>4. \/ f = 0 /\ I = {}
      \/ f \in I /\ f \in pos..n /\ \A i \in pos..f - 1 : i \notin I
  <2> HIDE DEF I
  <2>1. pos \in Nat /\ n \in Int
    BY <1>2
  <2> QED BY <1>2, <1>3, <2>1, FirstOfPositions, Zenon
<1>5. EntryLen(e, pos) = IF f = 0 THEN n + 1 - pos ELSE f - pos
  BY <1>1 DEF EntryLen
<1>6. PICK l : l = EntryLen(e, pos)
  OBVIOUS
<1>7. CASE f = 0
  <2>1. I = {}
    BY <1>2, <1>4, <1>7
  <2>2. l = n + 1 - pos
    BY <1>5, <1>6, <1>7
  <2>3. l \in 0..n + 1 - pos /\ pos + l = n + 1 /\ pos + l - 1 = n
    BY <1>2, <2>2
  <2>4. \A i \in pos..n : e[i] # NUL
    BY <1>1, <2>1
  <2> QED BY <1>1, <1>6, <2>3, <2>4
<1>8. CASE f # 0
  <2>1. f \in pos..n /\ e[f] = NUL /\ \A i \in pos..f - 1 : i \notin I
    BY <1>4, <1>8
  <2>2. l = f - pos
    BY <1>5, <1>6, <1>8
  <2>3. /\ l \in 0..n + 1 - pos /\ pos + l = f /\ f \in 1..n
        /\ pos + l - 1 = f - 1
    BY <1>2, <2>1, <2>2
  <2>4. ASSUME NEW i \in pos..f - 1 PROVE e[i] # NUL
    <3>1. i \in pos..n
      BY <1>2, <2>1
    <3> QED BY <1>1, <2>1, <3>1
  <2> QED BY <1>1, <1>6, <2>1, <2>3, <2>4
<1> QED BY <1>7, <1>8

\* The entries that begin at pos or later, as the loops meet them.
BeginsFrom(e) == [pos \in 1..Len(e) + 2 |-> {i \in pos..Len(e) : i = pos \/ e[i - 1] = NUL}]

Recurs(e, f) ==
  f = [pos \in 1..Len(e) + 2 |->
         IF pos > Len(e) THEN {}
         ELSE {pos} \cup f[pos + EntryLen(e, pos) + 1]]

LEMMA BeginsRecur ==
  ASSUME NEW e \in Envs
  PROVE  Recurs(e, BeginsFrom(e))
<1>1. PICK n, g : n = Len(e) /\ g = BeginsFrom(e)
  OBVIOUS
<1>2. n \in Nat
  BY <1>1 DEF Envs
<1>3. \A pos \in 1..n + 2 : g[pos] = {i \in pos..n : i = pos \/ e[i - 1] = NUL}
  BY <1>1 DEF BeginsFrom
<1>4. ASSUME NEW pos \in 1..n + 2
      PROVE  g[pos] = IF pos > n THEN {}
                      ELSE {pos} \cup g[pos + EntryLen(e, pos) + 1]
  <2>1. CASE pos > n
    <3>1. pos..n = {}
      BY <1>2, <2>1
    <3> QED BY <1>3, <2>1, <3>1
  <2>2. CASE ~(pos > n)
    <3>1. PICK l, x : l = EntryLen(e, pos) /\ x = pos + l + 1
      OBVIOUS
    <3>2. pos \in 1..n
      BY <1>2, <2>2
    <3>3. /\ l \in 0..n + 1 - pos
          /\ \A i \in pos..pos + l - 1 : e[i] # NUL
          /\ pos + l = n + 1 \/ (pos + l \in 1..n /\ e[pos + l] = NUL)
      BY <1>1, <3>1, <3>2, EntryEnds
    <3>4. x \in 1..n + 2 /\ x > pos
      BY <1>2, <3>1, <3>2, <3>3
    <3>5. ASSUME NEW i \in g[pos], i # pos PROVE i \in g[x]
      <4>1. i \in pos..n /\ e[i - 1] = NUL
        BY <1>3, <3>5
      <4>2. ~(i - 1 \in pos..pos + l - 1)
        BY <3>3, <4>1
      <4>3. i \in x..n
        BY <1>2, <3>1, <3>2, <3>3, <3>5, <4>1, <4>2
      <4> QED BY <1>3, <3>4, <4>1, <4>3
    <3>6. ASSUME NEW i \in g[x] PROVE i \in g[pos]
      <4>1. i \in x..n /\ (i = x \/ e[i - 1] = NUL)
        BY <1>3, <3>4, <3>6
      <4>2. i \in pos..n /\ (i = x => i - 1 = pos + l /\ pos + l # n + 1)
        BY <1>2, <3>1, <3>2, <3>3, <3>4, <4>1
      <4>3. e[i - 1] = NUL
        BY <3>3, <4>1, <4>2
      <4> QED BY <1>3, <4>2, <4>3
    <3>7. pos \in g[pos]
      <4>1. pos \in pos..n
        BY <1>2, <3>2
      <4> QED BY <1>3, <4>1
    <3>8. g[pos] = {pos} \cup g[x]
      BY <3>5, <3>6, <3>7
    <3> QED BY <2>2, <3>1, <3>8
  <2> QED BY <2>1, <2>2
<1>5. DOMAIN g = 1..n + 2 /\ g = [pos \in 1..n + 2 |-> g[pos]]
  BY <1>1 DEF BeginsFrom
<1> QED BY <1>1, <1>4, <1>5 DEF Recurs

\* There is only one such function.
LEMMA BeginsUnique ==
  ASSUME NEW e \in Envs, NEW f, Recurs(e, f)
  PROVE  f[1] = {i \in 1..Len(e) : Begin(e, i)}
<1>1. PICK n, g : n = Len(e) /\ g = BeginsFrom(e)
  OBVIOUS
<1>2. n \in Nat /\ Recurs(e, g)
  BY <1>1, BeginsRecur DEF Envs
<1>3. ASSUME NEW h, Recurs(e, h), NEW pos \in 1..n + 2
      PROVE  h[pos] = IF pos > n THEN {}
                      ELSE {pos} \cup h[pos + EntryLen(e, pos) + 1]
  BY <1>1, <1>3, Zenon DEF Recurs
<1> DEFINE J == {pos \in 1..n + 2 : f[pos] # g[pos]}
<1>4. J = {}
  <2> SUFFICES ASSUME J # {} PROVE FALSE
    OBVIOUS
  <2>1. J \subseteq 0..n + 2 /\ n + 2 \in Nat
    BY <1>2
  <2>2. PICK m : m = Max(J)
    OBVIOUS
  <2>3. m \in J /\ \A i \in J : m >= i
    <3> HIDE DEF J
    <3> QED BY <2>1, <2>2, GreatestPosition
  <2>4. m \in 1..n + 2 /\ f[m] # g[m]
    BY <2>3
  <2>5. PICK x : x = m + EntryLen(e, m) + 1
    OBVIOUS
  <2>6. CASE m > n
    BY <1>2, <1>3, <2>4, <2>6
  <2>7. CASE ~(m > n)
    <3>1. m \in 1..n
      BY <1>2, <2>4, <2>7
    <3>2. EntryLen(e, m) \in 0..n + 1 - m
      BY <1>1, <3>1, EntryEnds
    <3>3. x \in 1..n + 2 /\ ~(m >= x)
      BY <1>2, <2>5, <3>1, <3>2
    <3>4. f[x] = g[x]
      BY <2>3, <3>3
    <3>5. f[m] = {m} \cup f[x] /\ g[m] = {m} \cup g[x]
      BY <1>2, <1>3, <2>4, <2>5, <2>7
    <3> QED BY <2>4, <3>4, <3>5
  <2> QED BY <2>6, <2>7
<1>5. 1 \in 1..n + 2
  BY <1>2
<1>6. f[1] = g[1]
  BY <1>4, <1>5
<1>7. g[1] = {i \in 1..n : i = 1 \/ e[i - 1] = NUL}
  BY <1>1, <1>5 DEF BeginsFrom
<1> QED BY <1>1, <1>6, <1>7 DEF Begin

\* Both loops visit the entries' beginnings, the empty ones' too.
LEMMA EntryStartsAre ==
  ASSUME NEW e \in Envs
  PROVE  EntryStarts(e) = {i \in 1..Len(e) : Begin(e, i)}
<1>1. PICK f : f = CHOOSE h : Recurs(e, h)
  OBVIOUS
<1>2. Recurs(e, f)
  BY <1>1, BeginsRecur
<1>3. EntryStarts(e) = f[1]
  BY <1>1 DEF EntryStarts, Recurs
<1> QED BY <1>2, <1>3, BeginsUnique

LEMMA CopyIsEnv ==
  ASSUME env \in Envs
  PROVE  Copied(env) \in Envs
<1>1. Len(env) \in Nat /\ EnvMax \in Nat
  BY AttributorAssumption DEF Envs
<1>2. PICK n : n = IF Len(env) > EnvMax THEN EnvMax ELSE Len(env)
  OBVIOUS
<1>3. n \in 0..Len(env)
  BY <1>1, <1>2
<1>4. Copied(env) = SubSeq(env, 1, n)
  BY <1>2 DEF Copied
<1> QED BY <1>1, <1>3, <1>4 DEF Envs

LEMMA StartsAre ==
  ASSUME NEW e \in Envs, NEW symbol
  PROVE  Starts(symbol, e) = {i \in EntryStarts(e) : e[i] = symbol}
<1>1. DOMAIN e = 1..Len(e)
  BY DEF Envs
<1> QED BY <1>1, EntryStartsAre DEF Starts, Begin

\* A token is found where its entry begins (scanEnvForTokens,
\* daemon.cpp:30-51).
LEMMA TokensOfEnv ==
  ASSUME env \in Envs
  PROVE  TokensWhereEntriesBegin
<1>1. PICK e : e = Copied(env)
  OBVIOUS
<1>2. e \in Envs
  BY <1>1, CopyIsEnv
<1>3. ASSUME NEW t
      PROVE  t \in {e[pos] : pos \in EntryStarts(e)} <=> Starts(t, e) # {}
  <2>1. Starts(t, e) = {i \in EntryStarts(e) : e[i] = t}
    BY <1>2, StartsAre
  <2> QED BY <2>1
<1>4. ScanEnvForTokens(e) = {t \in TokenPrefixes : Starts(t, e) # {}}
  BY <1>3 DEF ScanEnvForTokens
<1> QED BY <1>1, <1>4 DEF TokensWhereEntriesBegin

LEMMA PieceOfEnv ==
  ASSUME NEW e \in Envs, NEW a \in 0..Len(e), NEW b \in a..Len(e)
  PROVE  /\ SubSeq(e, a + 1, b) \in Envs
         /\ Len(SubSeq(e, a + 1, b)) = b - a
         /\ \A j \in 1..b - a : SubSeq(e, a + 1, b)[j] = e[a + j]
<1>1. PICK n, s : n = Len(e) /\ s = SubSeq(e, a + 1, b)
  OBVIOUS
<1>2. n \in Nat /\ a \in Nat /\ b \in Nat /\ a <= b /\ b <= n
  BY <1>1 DEF Envs
<1>3. s \in Envs /\ Len(s) = b - a
  BY <1>1, <1>2 DEF Envs
<1>4. \A j \in 1..b - a : s[j] = e[a + j]
  BY <1>1, <1>2 DEF Envs
<1> QED BY <1>1, <1>3, <1>4

\* The value of an entry: what follows up to its end.
LEMMA EntryValue ==
  ASSUME NEW e \in Envs, NEW i \in 1..Len(e), e[i] # NUL,
         NEW v, v = SubSeq(e, i + 1, i + EntryLen(e, i) - 1)
  PROVE  /\ NUL \notin ToSet(v)
         /\ IsPrefix(v, SubSeq(e, i + 1, Len(e)))
         /\ \/ i + Len(v) = Len(e)
            \/ e[i + Len(v) + 1] = NUL
<1>1. PICK n, l : n = Len(e) /\ l = EntryLen(e, i)
  OBVIOUS
<1>2. n \in Nat /\ i \in 1..n
  BY <1>1 DEF Envs
<1>3. /\ l \in 0..n + 1 - i
      /\ \A j \in i..i + l - 1 : e[j] # NUL
      /\ i + l = n + 1 \/ (i + l \in 1..n /\ e[i + l] = NUL)
  BY <1>1, EntryEnds
<1>4. l # 0
  <2>1. ASSUME l = 0 PROVE FALSE
    <3>1. i + l = i /\ i # n + 1
      BY <1>2, <2>1
    <3> QED BY <1>3, <3>1
  <2> QED BY <2>1
<1>5. PICK m, k : m = i + l - 1 /\ k = l - 1
  OBVIOUS
<1>6. /\ m \in i..n /\ k \in Nat /\ k = m - i /\ k <= n - i
      /\ m + 1 = i + l /\ m = i + k
  BY <1>2, <1>3, <1>4, <1>5
<1>7. v = SubSeq(e, i + 1, m)
  BY <1>1, <1>5
<1>8. v \in Envs /\ Len(v) = k /\ \A j \in 1..k : v[j] = e[i + j]
  <2>1. v \in Envs /\ Len(v) = m - i /\ \A j \in 1..m - i : v[j] = e[i + j]
    <3>1. i \in 1..n /\ m \in i..n /\ n = Len(e) /\ n \in Nat
      BY <1>1, <1>2, <1>6
    <3>2. i \in 0..Len(e) /\ m \in i..Len(e)
      BY <3>1
    <3>3. LET u == SubSeq(e, i + 1, m)
          IN  u \in Envs /\ Len(u) = m - i /\ \A j \in 1..m - i : u[j] = e[i + j]
      BY <3>2, PieceOfEnv, Zenon
    <3> QED BY <1>7, <3>3, Zenon
  <2> QED BY <1>6, <2>1
<1>9. NUL \notin ToSet(v)
  <2>1. DOMAIN v = 1..k
    BY <1>8 DEF Envs
  <2>2. ASSUME NEW j \in 1..k PROVE v[j] # NUL
    <3>1. i + j \in i..i + l - 1
      BY <1>2, <1>3, <1>5, <1>6
    <3> QED BY <1>3, <1>8, <3>1
  <2> QED BY <2>1, <2>2 DEF ToSet
<1>10. IsPrefix(v, SubSeq(e, i + 1, n))
  <2>1. PICK t : t = SubSeq(e, i + 1, n)
    OBVIOUS
  <2>2. t \in Envs /\ Len(t) = n - i /\ \A j \in 1..n - i : t[j] = e[i + j]
    BY <1>1, <1>2, <2>1 DEF Envs
  <2>3. PICK a, b : a = SubSeq(v, 1, k) /\ b = SubSeq(t, 1, k)
    OBVIOUS
  <2>4. a \in Envs /\ Len(a) = k /\ \A j \in 1..k : a[j] = v[j]
    <3>1. k \in Nat /\ v \in Envs /\ Len(v) = k
      BY <1>6, <1>8
    <3> QED BY <2>3, <3>1 DEF Envs
  <2>5. b \in Envs /\ Len(b) = k /\ \A j \in 1..k : b[j] = t[j]
    BY <1>2, <1>6, <2>2, <2>3 DEF Envs
  <2>6. \A j \in 1..k : j \in 1..n - i
    BY <1>2, <1>6
  <2>7. \A j \in 1..k : a[j] = b[j]
    BY <1>8, <2>2, <2>4, <2>5, <2>6
  <2>8. a = b
    BY <2>4, <2>5, <2>7, SeqEqual DEF Envs
  <2> QED BY <1>6, <1>8, <2>1, <2>2, <2>3, <2>8 DEF IsPrefix
<1>11. i + Len(v) = n \/ e[i + Len(v) + 1] = NUL
  <2>1. i + Len(v) = m /\ i + Len(v) + 1 = i + l
    BY <1>6, <1>8
  <2>2. i + l = n + 1 => m = n
    BY <1>2, <1>6
  <2> QED BY <1>3, <2>1, <2>2
<1> QED BY <1>1, <1>9, <1>10, <1>11

\* The phase is the value of the first entry of that name (phaseFromEnv,
\* attributor.cpp:70-87).
LEMMA PhaseOfEnv ==
  ASSUME env \in Envs
  PROVE  PhaseAsGetenv
<1>1. PICK e, F : e = Copied(env) /\ F = Starts(LifecycleKey, e)
  OBVIOUS
<1>2. e \in Envs
  BY <1>1, CopyIsEnv
<1>3. F = {pos \in EntryStarts(e) : e[pos] = LifecycleKey}
  BY <1>1, <1>2, StartsAre
<1>4. F \subseteq 1..Len(e) /\ \A i \in F : e[i] = LifecycleKey
  BY <1>2, <1>3, EntryStartsAre
<1>5. CASE F = {}
  BY <1>1, <1>3, <1>5 DEF PhaseAsGetenv, PhaseFromEnv
<1>6. CASE F # {}
  <2>1. PICK pos : pos = CHOOSE p \in F : \A q \in F : p <= q
    OBVIOUS
  <2>2. pos \in F /\ \A q \in F : pos <= q
    <3>1. F \subseteq Nat
      BY <1>4
    <3>2. \E p \in F : \A q \in F : p <= q
      BY <1>6, <3>1, LeastPosition
    <3> QED BY <2>1, <3>2
  <2>3. PICK v : v = SubSeq(e, pos + 1, pos + EntryLen(e, pos) - 1)
    OBVIOUS
  <2>4. PhaseFromEnv(e) = v
    BY <1>3, <1>6, <2>1, <2>3 DEF PhaseFromEnv
  <2>5. e[pos] # NUL /\ pos \in 1..Len(e)
    BY <1>4, <2>2 DEF NUL, LifecycleKey
  <2>6. /\ NUL \notin ToSet(v)
        /\ IsPrefix(v, SubSeq(e, pos + 1, Len(e)))
        /\ \/ pos + Len(v) = Len(e)
           \/ e[pos + Len(v) + 1] = NUL
    BY <1>2, <2>3, <2>5, EntryValue
  <2> QED BY <1>1, <1>6, <2>2, <2>4, <2>6 DEF PhaseAsGetenv
<1> QED BY <1>5, <1>6

LEMMA EnvAlways == EnvSpec => [](env \in Envs)
<1>1. env = << >> => env \in Envs
  BY DEF Envs
<1>2. env \in Envs /\ [Extend]_env => (env \in Envs)'
  BY DEF Envs, Extend
<1> QED BY <1>1, <1>2, PTL DEF EnvSpec

\* In an environment of any length the daemon finds the tokens whose entries
\* begin in the copied part, and no others (scanEnvForTokens,
\* daemon.cpp:30-51).
THEOREM TokensFound == EnvSpec => []TokensWhereEntriesBegin
BY TokensOfEnv, EnvAlways, PTL

\* In an environment of any length the phase is what getenv would find in the
\* copied part (phaseFromEnv, attributor.cpp:70-87).
THEOREM PhaseFound == EnvSpec => []PhaseAsGetenv
BY PhaseOfEnv, EnvAlways, PTL
-----------------------------------------------------------------------------
(* Command lines: what the loops see. *)

\* Symbols of arguments; the options' names are strings.
Letter == STRING \cup {"=", "--format", "--fail-on"}
Args   == Seq(Seq(Letter))

\* What the loops see of a command line.
LEMMA SeenIs ==
  ASSUME NEW args \in Args, NEW e, e = Seen(args)
  PROVE  /\ e \in Args /\ Len(e) \in 0..Len(args) /\ DOMAIN e = 1..Len(e)
         /\ \A i \in 1..Len(e) : /\ e[i] = args[i] /\ e[i] # << >>
                                 /\ e[i] \in Seq(Letter) /\ Len(e[i]) >= 1
         /\ \A i \in 1..Len(e) + 1 : Shift(args, i) = Shift(e, i)
<1> DEFINE I == {i \in 1..Len(args) : args[i] = << >>}
<1>1. PICK f : f = Find(args, << >>)
  OBVIOUS
<1>2. f = IF I # {} THEN Min(I) ELSE 0
  BY <1>1 DEF Find, SelectInSeq
<1>3. Len(args) \in Nat /\ I \subseteq 1..Len(args)
  BY DEF Args
<1>4. \/ f = 0 /\ I = {}
      \/ f \in I /\ f \in 1..Len(args) /\ \A i \in 1..f - 1 : i \notin I
  <2> HIDE DEF I
  <2>1. 1 \in Nat /\ Len(args) \in Int
    BY <1>3
  <2> QED BY <1>2, <1>3, <2>1, FirstOfPositions, Zenon
<1>5. e = IF f = 0 THEN args ELSE SubSeq(args, 1, f - 1)
  BY <1>1 DEF Seen, Before
<1>6. /\ e \in Args /\ Len(e) = (IF f = 0 THEN Len(args) ELSE f - 1)
      /\ \A i \in 1..Len(e) : e[i] = args[i]
  <2>1. CASE f = 0
    BY <1>5, <2>1
  <2>2. CASE f # 0
    BY <1>3, <1>4, <1>5, <2>2 DEF Args
  <2> QED BY <2>1, <2>2
<1>7. Len(e) \in 0..Len(args) /\ DOMAIN e = 1..Len(e)
  BY <1>3, <1>4, <1>6 DEF Args
<1>8. ASSUME NEW i \in 1..Len(e)
      PROVE  e[i] # << >> /\ e[i] \in Seq(Letter) /\ Len(e[i]) >= 1
  <2>1. e[i] \in Seq(Letter)
    BY <1>6 DEF Args
  <2>2. i \in 1..Len(args) /\ i \notin I
    BY <1>3, <1>4, <1>6, <1>7
  <2>3. e[i] # << >>
    BY <1>6, <2>2
  <2> QED BY <2>1, <2>3
<1>9. ASSUME NEW i \in 1..Len(e) + 1
      PROVE  Shift(args, i) = Shift(e, i)
  <2>1. CASE i \in 1..Len(e)
    <3>1. i \in DOMAIN args /\ i \in DOMAIN e
      BY <1>3, <1>7, <2>1 DEF Args
    <3> QED BY <1>6, <2>1, <3>1 DEF Shift
  <2>2. CASE i = Len(e) + 1
    <3>1. Shift(e, i) = << >>
      BY <1>7, <2>2 DEF Shift
    <3>2. CASE f = 0
      <4>1. i \notin DOMAIN args
        BY <1>3, <1>6, <2>2, <3>2 DEF Args
      <4> QED BY <3>1, <4>1 DEF Shift
    <3>3. CASE f # 0
      <4>1. i = f /\ f \in 1..Len(args) /\ args[f] = << >>
        BY <1>3, <1>4, <1>6, <2>2, <3>3
      <4> QED BY <3>1, <4>1 DEF Shift, Args
    <3> QED BY <3>2, <3>3
  <2> QED BY <1>7, <2>1, <2>2
<1> QED BY <1>6, <1>7, <1>8, <1>9

LEMMA ValueIs ==
  ASSUME NEW e \in Args, NEW i \in 1..Len(e)
  PROVE  ValueAt(e, i) = IF Len(e[i]) = 1 THEN Shift(e, i + 1)
                         ELSE SubSeq(e[i], 3, Len(e[i]))
<1>1. i + 1 \in DOMAIN e <=> i < Len(e)
  BY DEF Args
<1> QED BY <1>1 DEF ValueAt, Shift

\* optionValue knows the option by its first symbol.
LEMMA OptionIs ==
  ASSUME NEW args \in Args, NEW e, e = Seen(args), NEW i \in 1..Len(e),
         NEW name \in Letter, NEW v, v = OptionValue(args, i, name)
  PROVE  /\ v.is <=> i \in Options(e, name)
         /\ v.is => /\ v.value = ValueAt(e, i)
                    /\ v.next = IF Len(e[i]) = 1 THEN i + 2 ELSE i + 1
<1>1. PICK x : x = e[i]
  OBVIOUS
<1>2. /\ args[i] = x /\ x \in Seq(Letter) /\ Len(x) \in Nat /\ Len(x) >= 1
      /\ e \in Args /\ i \in DOMAIN e /\ i + 1 \in 1..Len(e) + 1
  BY <1>1, SeenIs DEF Args
<1>3. Shift(args, i + 1) = Shift(e, i + 1)
  BY <1>2, SeenIs
<1>4. i \in Options(e, name) <=> x[1] = name /\ (Len(x) = 1 \/ x[2] = "=")
  BY <1>1, <1>2 DEF Options
<1>5. CASE x = <<name>>
  <2>1. Len(x) = 1 /\ x[1] = name
    BY <1>5
  <2>2. v = [is |-> TRUE, value |-> Shift(args, i + 1), next |-> i + 2]
    BY <1>2, <1>5 DEF OptionValue
  <2> QED BY <1>1, <1>2, <1>3, <1>4, <2>1, <2>2, ValueIs
<1>6. CASE x # <<name>>
  <2>1. v = [is    |-> IsPrefix(<<name, "=">>, x),
             value |-> SubSeq(x, 3, Len(x)), next |-> i + 1]
    BY <1>2, <1>6 DEF OptionValue
  <2>2. Len(x) = 1 => x[1] # name
    <3> HIDE <1>1
    <3> QED BY <1>2, <1>6
  <2>3. IsPrefix(<<name, "=">>, x) <=> Len(x) >= 2 /\ x[1] = name /\ x[2] = "="
    <3>1. PICK p : p = <<name, "=">>
      OBVIOUS
    <3>2. p \in Seq(Letter) /\ Len(p) = 2 /\ p[1] = name /\ p[2] = "="
      BY <3>1 DEF Letter
    <3>3. IsPrefix(p, x) <=> 2 <= Len(x) /\ SubSeq(p, 1, 2) = SubSeq(x, 1, 2)
      BY <3>2 DEF IsPrefix
    <3>4. SubSeq(p, 1, 2) = p
      BY <3>2
    <3>5. ASSUME Len(x) >= 2
          PROVE  SubSeq(x, 1, 2) = p <=> x[1] = name /\ x[2] = "="
      <4>1. PICK q : q = SubSeq(x, 1, 2)
        OBVIOUS
      <4>2. /\ q \in Seq(Letter) /\ Len(q) = 2 /\ q[1] = x[1] /\ q[2] = x[2]
        BY <1>2, <3>5, <4>1
      <4>3. q = p <=> q[1] = p[1] /\ q[2] = p[2]
        BY <3>2, <4>2, SeqEqual
      <4> QED BY <3>2, <4>1, <4>2, <4>3
    <3> QED BY <1>2, <3>1, <3>3, <3>4, <3>5
  <2>4. v.is <=> i \in Options(e, name)
    <3>1. v.is <=> IsPrefix(<<name, "=">>, x)
      BY <2>1
    <3>2. Len(x) # 1 => (i \in Options(e, name) <=> x[1] = name /\ x[2] = "=")
      BY <1>4
    <3>3. Len(x) = 1 => i \notin Options(e, name)
      BY <1>4, <2>2
    <3>4. Len(x) # 1 <=> Len(x) >= 2
      <4>1. PICK n \in Nat : n = Len(x) /\ n >= 1
        BY <1>2
      <4>2. n # 1 => n >= 2
        BY <4>1
      <4> QED BY <4>1, <4>2
    <3> QED BY <2>3, <3>1, <3>2, <3>3, <3>4
  <2>5. v.is => Len(x) # 1
    BY <2>1, <2>3
  <2> QED BY <1>1, <1>2, <2>1, <2>4, <2>5, ValueIs
<1> QED BY <1>5, <1>6
-----------------------------------------------------------------------------
(* The loops: recursive functions exist, by the least length without one. *)

CtlTurns(args, sub, n, f) ==
  f = [k \in 0..n |-> IF k = 0 THEN Reads(1, DefaultArgs(sub))
                      ELSE CtlTurn(args, f[k - 1])]

LEMMA CtlTurnsExist ==
  ASSUME NEW args, NEW sub, NEW n \in Nat
  PROVE  \E f : CtlTurns(args, sub, n, f)
<1> DEFINE J == {m \in Nat : ~ \E f : CtlTurns(args, sub, m, f)}
<1> SUFFICES ASSUME J # {} PROVE FALSE
  OBVIOUS
<1>1. PICK m : m \in J /\ \A i \in J : m <= i
  <2>1. J \subseteq Nat
    OBVIOUS
  <2> HIDE DEF J
  <2> QED BY <2>1, LeastPosition
<1>2. m \in Nat /\ ~ \E f : CtlTurns(args, sub, m, f)
  BY <1>1
<1>3. CASE m = 0
  <2> DEFINE f == [k \in 0..0 |-> Reads(1, DefaultArgs(sub))]
  <2>1. CtlTurns(args, sub, 0, f)
    BY DEF CtlTurns
  <2> QED BY <1>2, <1>3, <2>1
<1>4. CASE m # 0
  <2>1. m - 1 \in Nat /\ ~(m <= m - 1)
    BY <1>2, <1>4
  <2>2. PICK f : CtlTurns(args, sub, m - 1, f)
    BY <1>1, <2>1
  <2> DEFINE g == [k \in 0..m |-> IF k = 0 THEN Reads(1, DefaultArgs(sub))
                                  ELSE CtlTurn(args, f[k - 1])]
  <2>3. ASSUME NEW k \in 0..m, k # 0
        PROVE  f[k - 1] = g[k - 1]
    <3>1. k - 1 \in 0..m - 1 /\ k - 1 \in 0..m
      BY <1>2, <2>3
    <3>2. f[k - 1] = IF k - 1 = 0 THEN Reads(1, DefaultArgs(sub))
                     ELSE CtlTurn(args, f[k - 1 - 1])
      BY <2>2, <3>1, Zenon DEF CtlTurns
    <3> QED BY <3>1, <3>2
  <2>4. g = [k \in 0..m |-> IF k = 0 THEN Reads(1, DefaultArgs(sub))
                            ELSE CtlTurn(args, g[k - 1])]
    BY <2>3
  <2>5. CtlTurns(args, sub, m, g)
    <3> HIDE DEF g
    <3> QED BY <2>4 DEF CtlTurns
  <2> QED BY <1>2, <2>5
<1> QED BY <1>3, <1>4

LEMMA CtlLoopIs ==
  ASSUME NEW args \in Args, NEW sub
  PROVE  \E f : /\ f[0] = Reads(1, DefaultArgs(sub))
                /\ \A k \in 1..Len(args) : f[k] = CtlTurn(args, f[k - 1])
                /\ CtlLoop(args, sub) = f[Len(args)]
<1>1. Len(args) \in Nat
  BY DEF Args
<1>2. PICK f : f = CHOOSE g : CtlTurns(args, sub, Len(args), g)
  OBVIOUS
<1>3. CtlTurns(args, sub, Len(args), f)
  BY <1>1, <1>2, CtlTurnsExist
<1>4. CtlLoop(args, sub) = f[Len(args)]
  BY <1>2 DEF CtlLoop, CtlTurns
<1>5. \A k \in 0..Len(args) : f[k] = IF k = 0 THEN Reads(1, DefaultArgs(sub))
                                     ELSE CtlTurn(args, f[k - 1])
  BY <1>3, Zenon DEF CtlTurns
<1>6. 0 \in 0..Len(args) /\ \A k \in 1..Len(args) : k \in 0..Len(args) /\ k # 0
  BY <1>1
<1> QED BY <1>4, <1>5, <1>6
-----------------------------------------------------------------------------
(* Positions among others. *)

Upto(I, i) == {j \in I : j < i}

\* What one more position adds.
LEMMA UptoNext ==
  ASSUME NEW n \in Nat, NEW I \in SUBSET (1..n), NEW i \in 1..n
  PROVE  /\ i \in I => Upto(I, i + 1) = Upto(I, i) \cup {i}
         /\ i \notin I => Upto(I, i + 1) = Upto(I, i)
         /\ i + 1 \notin I => Upto(I, i + 2) = Upto(I, i + 1)
<1>1. \A j \in I : j \in Int /\ (j < i + 1 <=> j < i \/ j = i)
                   /\ (j < i + 2 <=> j < i + 1 \/ j = i + 1)
  OBVIOUS
<1> QED BY <1>1 DEF Upto

LEMMA UptoBehind ==
  ASSUME NEW n \in Nat, NEW I \in SUBSET (1..n), NEW i \in I, i + 1 \notin I
  PROVE  Upto(I, i + 2) = Upto(I, i) \cup {i}
<1>1. i \in 1..n /\ i \in I
  OBVIOUS
<1>2. Upto(I, i + 1) = Upto(I, i) \cup {i}
  BY <1>1, UptoNext
<1>3. Upto(I, i + 2) = Upto(I, i + 1)
  BY <1>1, UptoNext
<1> QED BY <1>2, <1>3

LEMMA UptoCounts ==
  ASSUME NEW n \in Nat, NEW I \in SUBSET (1..n), NEW i \in 1..n + 1
  PROVE  /\ Cardinality(Upto(I, i)) \in Nat
         /\ \A j \in Upto(I, i) : Place(j, I) \in 1..Cardinality(Upto(I, i))
         /\ i \in I => /\ Cardinality(Upto(I, i + 1)) = Cardinality(Upto(I, i)) + 1
                       /\ Place(i, I) = Cardinality(Upto(I, i)) + 1
<1>1. \A J : J \subseteq I => IsFiniteSet(J) /\ Cardinality(J) \in Nat
  <2>1. IsFiniteSet(1..n)
    BY FS_Interval
  <2> QED BY <2>1, FS_Subset, FS_CardinalityType
<1>2. Upto(I, i) \subseteq I
  BY DEF Upto
<1>3. ASSUME NEW j \in Upto(I, i)
      PROVE  Place(j, I) \in 1..Cardinality(Upto(I, i))
  <2> DEFINE J == {k \in I : k <= j}
  <2>1. j \in J /\ J \subseteq Upto(I, i) /\ J \subseteq I
    <3>1. j \in I /\ j < i /\ j \in Int /\ \A k \in I : k \in Int
      BY <1>3 DEF Upto
    <3>2. \A k \in I : k <= j => k < i
      BY <3>1
    <3>3. j \in J /\ J \subseteq I
      BY <3>1
    <3>4. \A k \in J : k \in Upto(I, i)
      BY <3>2 DEF Upto
    <3> QED BY <3>3, <3>4
  <2>2. Cardinality(J) \in Nat /\ IsFiniteSet(J) /\ IsFiniteSet(Upto(I, i))
    BY <1>1, <1>2, <2>1
  <2>3. Cardinality(J) <= Cardinality(Upto(I, i))
    BY <2>1, <2>2, FS_Subset
  <2>4. Cardinality(J) # 0
    BY <2>1, <2>2, FS_EmptySet
  <2>5. Place(j, I) = Cardinality(J)
    BY DEF Place
  <2> HIDE DEF J
  <2> QED BY <1>1, <1>2, <2>2, <2>3, <2>4, <2>5
<1>4. ASSUME i \in I
      PROVE  /\ Cardinality(Upto(I, i + 1)) = Cardinality(Upto(I, i)) + 1
             /\ Place(i, I) = Cardinality(Upto(I, i)) + 1
  <2>1. Upto(I, i + 1) = Upto(I, i) \cup {i} /\ i \notin Upto(I, i)
    <3>1. i \in 1..n
      BY <1>4
    <3>2. i \notin Upto(I, i)
      BY <3>1 DEF Upto
    <3> QED BY <1>4, <3>1, <3>2, UptoNext
  <2>2. {k \in I : k <= i} = Upto(I, i) \cup {i}
    <3>1. \A k \in I : k \in Int /\ (k <= i <=> k < i \/ k = i)
      OBVIOUS
    <3> QED BY <1>4, <3>1 DEF Upto
  <2>3. Cardinality(Upto(I, i) \cup {i}) = Cardinality(Upto(I, i)) + 1
    BY <1>1, <1>2, <2>1, FS_AddElement
  <2> QED BY <2>1, <2>2, <2>3 DEF Place
<1> QED BY <1>1, <1>2, <1>3, <1>4

\* The last of several is the one that is added.
LEMMA LastAdded ==
  ASSUME NEW e, NEW n \in Nat, NEW I \in SUBSET (1..n), NEW i \in I, NEW default
  PROVE  LastOf(e, Upto(I, i) \cup {i}, default) = ValueAt(e, i)
<1> DEFINE J == Upto(I, i) \cup {i}
<1>1. i \in J /\ \A j \in J : j \in Int /\ j <= i
  BY DEF Upto
<1>2. \A j \in J : (\A k \in J : k <= j) <=> j = i
  BY <1>1
<1>3. (CHOOSE j \in J : \A k \in J : k <= j) = i
  <2> HIDE DEF J
  <2> QED BY <1>1, <1>2
<1> QED BY <1>1, <1>3 DEF LastOf
-----------------------------------------------------------------------------
(* What the options before position i say. *)

OptionsKnown(e, I, i, words, default, value) ==
  /\ \A j \in Upto(I, i) : IsWord(ValueAt(e, j), words)
  /\ <<value>> = LastOf(e, Upto(I, i), default)

LEMMA ValueType ==
  ASSUME NEW e \in Args, NEW i \in 1..Len(e), Len(e[i]) >= 1
  PROVE  ValueAt(e, i) \in Seq(Letter)
<1>1. e[i] \in Seq(Letter) /\ Len(e[i]) \in Nat
  BY DEF Args
<1>2. i < Len(e) => i + 1 \in 1..Len(e) /\ e[i + 1] \in Seq(Letter)
  BY DEF Args
<1>3. Len(e[i]) # 1 => SubSeq(e[i], 3, Len(e[i])) \in Seq(Letter)
  BY <1>1
<1> QED BY <1>2, <1>3 DEF ValueAt

LEMMA OptionAdded ==
  ASSUME NEW e \in Args, NEW I \in SUBSET (1..Len(e)), NEW i \in I,
         Len(e[i]) >= 1, NEW words, NEW default, NEW value, NEW next,
         OptionsKnown(e, I, i, words, default, value),
         IsWord(ValueAt(e, i), words),
         next = i + 1 \/ (next = i + 2 /\ i + 1 \notin I)
  PROVE  OptionsKnown(e, I, next, words, default, Head(ValueAt(e, i)))
<1>1. PICK n \in Nat : n = Len(e) /\ i \in 1..n /\ I \in SUBSET (1..n)
  BY DEF Args
<1>2. Upto(I, next) = Upto(I, i) \cup {i}
  <2>1. Upto(I, i + 1) = Upto(I, i) \cup {i}
    <3>1. i \in I
      OBVIOUS
    <3> QED BY <1>1, <3>1, UptoNext
  <2>2. i + 1 \notin I => Upto(I, i + 2) = Upto(I, i + 1)
    BY <1>1, UptoNext
  <2> QED BY <2>1, <2>2
<1>3. LastOf(e, Upto(I, next), default) = ValueAt(e, i)
  <2>1. LastOf(e, Upto(I, i) \cup {i}, default) = ValueAt(e, i)
    BY <1>1, LastAdded, Zenon
  <2> QED BY <1>2, <2>1
<1>4. ValueAt(e, i) = <<Head(ValueAt(e, i))>>
  <2>1. PICK x : x = ValueAt(e, i)
    OBVIOUS
  <2>2. x \in Seq(Letter) /\ Len(x) = 1
    BY <1>1, <2>1, ValueType DEF IsWord
  <2>3. x = <<Head(x)>>
    BY <2>2
  <2> QED BY <2>1, <2>3
<1> QED BY <1>2, <1>3, <1>4 DEF OptionsKnown

LEMMA OptionsPassed ==
  ASSUME NEW e \in Args, NEW I \in SUBSET (1..Len(e)), NEW i \in 1..Len(e),
         i \notin I, NEW words, NEW default, NEW value, NEW next,
         OptionsKnown(e, I, i, words, default, value),
         next = i + 1 \/ (next = i + 2 /\ i + 1 \notin I)
  PROVE  OptionsKnown(e, I, next, words, default, value)
<1>1. PICK n \in Nat : n = Len(e) /\ i \in 1..n /\ I \in SUBSET (1..n)
  BY DEF Args
<1>2. Upto(I, next) = Upto(I, i)
  <2>1. /\ Upto(I, i + 1) = Upto(I, i)
        /\ i + 1 \notin I => Upto(I, i + 2) = Upto(I, i + 1)
    BY <1>1, UptoNext
  <2> QED BY <2>1
<1> QED BY <1>2 DEF OptionsKnown
-----------------------------------------------------------------------------
(* blastguardctl: what is known of the arguments before position i. *)

CtlArgs ==
  [sub : Letter, pid : Nat, phase : Seq(Letter), format : Formats,
   fail_on : 0..3, pos : Nat]

\* The first two positional arguments.
PositionalsKnown(e, i, a) ==
  LET I == Positionals(e)
  IN  /\ a.pos = Cardinality(Upto(I, i))
      /\ a.sub = "start-phase" =>
           /\ \A j \in Upto(I, i) : Place(j, I) = 1 => a.pid = PidOf(e[j])
           /\ (\A j \in Upto(I, i) : Place(j, I) # 1) => a.pid = 0
           /\ \A j \in Upto(I, i) : Place(j, I) = 2 => a.phase = e[j]
           /\ (\A j \in Upto(I, i) : Place(j, I) # 2) => a.phase = << >>

CtlKnown(e, i, a) ==
  /\ a \in CtlArgs
  /\ i - 1 \notin Bare(e)
  /\ OptionsKnown(e, Options(e, "--format"), i, Formats, <<"markdown">>,
                  a.format)
  /\ OptionsKnown(e, Options(e, "--fail-on"), i, ToSet(SeverityWords),
                  <<"none">>, SeverityToString(a.fail_on))
  /\ PositionalsKnown(e, i, a)

LEMMA SeverityWordsAre == ToSet(SeverityWords) = {"none", "low", "medium", "high"}
<1>1. PICK s : s = SeverityWords
  OBVIOUS
<1>2. DOMAIN s = 1..4 /\ s[1] = "none" /\ s[2] = "low" /\ s[3] = "medium" /\ s[4] = "high"
  BY <1>1 DEF SeverityWords
<1>3. ToSet(s) = {s[i] : i \in DOMAIN s}
  BY DEF ToSet
<1> QED BY <1>1, <1>2, <1>3

\* A severity's word is read, and written again.
LEMMA SeverityWordRead ==
  ASSUME NEW w \in ToSet(SeverityWords)
  PROVE  /\ SeverityFromWord(w) \in 0..3
         /\ SeverityToString(SeverityFromWord(w)) = w
<1>1. PICK sev \in 0..3 : w = SeverityToString(sev)
  <2>1. PICK s : s = SeverityWords
    OBVIOUS
  <2>2. DOMAIN s = 1..4
    BY <2>1 DEF SeverityWords
  <2>3. PICK k \in 1..4 : w = s[k]
    BY <2>1, <2>2 DEF ToSet
  <2>4. k - 1 \in 0..3 /\ k - 1 + 1 = k
    OBVIOUS
  <2> QED BY <2>1, <2>3, <2>4 DEF SeverityToString
<1> QED BY <1>1, SeverityRead

\* Options and positional arguments are different arguments.
LEMMA KindsOfArguments ==
  ASSUME NEW e \in Args
  PROVE  /\ Options(e, "--format") \in SUBSET (1..Len(e))
         /\ Options(e, "--fail-on") \in SUBSET (1..Len(e))
         /\ Positionals(e) \in SUBSET (1..Len(e))
         /\ Bare(e) \in SUBSET (1..Len(e))
         /\ \A i \in Options(e, "--format") :
              i \notin Options(e, "--fail-on") /\ i \notin Positionals(e)
         /\ \A i \in Options(e, "--fail-on") : i \notin Positionals(e)
<1>1. DOMAIN e = 1..Len(e)
  BY DEF Args
<1>2. "--format" \in Dashed /\ "--fail-on" \in Dashed
  BY CommandLineAssumption
<1> QED BY <1>1, <1>2 DEF Options, Positionals, Bare

\* What a bare option has taken is neither an option nor positional.
LEMMA ValueTaken ==
  ASSUME NEW e \in Args, NEW i \in Bare(e), NEW words,
         words = Formats \/ words = ToSet(SeverityWords),
         IsWord(ValueAt(e, i), words)
  PROVE  /\ i + 1 \in 1..Len(e)
         /\ i + 1 \notin Options(e, "--format")
         /\ i + 1 \notin Options(e, "--fail-on")
         /\ i + 1 \notin Positionals(e) /\ i + 1 \notin Bare(e)
<1>1. i \in 1..Len(e) /\ Len(e[i]) = 1
  BY KindsOfArguments DEF Bare
<1>2. ~IsWord(<< >>, words)
  BY DEF IsWord
<1>3. i < Len(e) /\ IsWord(e[i + 1], words)
  <2>1. ValueAt(e, i) = IF i < Len(e) THEN e[i + 1] ELSE << >>
    BY <1>1 DEF ValueAt
  <2> QED BY <1>2, <2>1
<1>4. i + 1 \in 1..Len(e)
  BY <1>1, <1>3 DEF Args
<1>5. e[i + 1][1] \in words
  <2>1. PICK x : x = e[i + 1]
    OBVIOUS
  <2>2. x \in Seq(Letter) /\ Len(x) = 1 /\ Head(x) \in words
    BY <1>3, <1>4, <2>1 DEF Args, IsWord
  <2>3. x[1] \in words
    BY <2>2
  <2> QED BY <2>1, <2>3
<1>6. "--format" \notin words /\ "--fail-on" \notin words
  BY SeverityWordsAre DEF Formats
<1>7. i + 1 \notin Options(e, "--format") /\ i + 1 \notin Options(e, "--fail-on")
  BY <1>5, <1>6 DEF Options
<1>8. i + 1 \notin Bare(e)
  BY <1>7 DEF Bare
<1>9. i + 1 \notin Positionals(e)
  <2>1. PICK m : m = i + 1
    OBVIOUS
  <2>2. m - 1 \in Bare(e)
    BY <1>1, <2>1
  <2>3. m \notin Positionals(e)
    BY <2>2 DEF Positionals
  <2> QED BY <2>1, <2>3
<1> QED BY <1>4, <1>7, <1>8, <1>9

LEMMA PositionalsPassed ==
  ASSUME NEW e \in Args, NEW i \in 1..Len(e), i \notin Positionals(e),
         NEW next,
         next = i + 1 \/ (next = i + 2 /\ i + 1 \notin Positionals(e)),
         NEW a, NEW b, PositionalsKnown(e, i, a),
         b.pos = a.pos, b.sub = a.sub, b.pid = a.pid, b.phase = a.phase
  PROVE  PositionalsKnown(e, next, b)
<1> DEFINE I == Positionals(e)
<1>1. PICK n \in Nat : n = Len(e) /\ i \in 1..n /\ I \in SUBSET (1..n)
  BY KindsOfArguments DEF Args
<1> HIDE DEF I
<1>2. Upto(I, next) = Upto(I, i)
  <2>1. /\ Upto(I, i + 1) = Upto(I, i)
        /\ i + 1 \notin I => Upto(I, i + 2) = Upto(I, i + 1)
    BY <1>1, UptoNext DEF I
  <2> QED BY <2>1 DEF I
<1> QED BY <1>2 DEF PositionalsKnown, I

LEMMA PositionalAdded ==
  ASSUME NEW e \in Args, NEW i \in 1..Len(e), i \in Positionals(e),
         NEW a \in CtlArgs, PositionalsKnown(e, i, a)
  PROVE  PositionalsKnown(e, i + 1, Positional(a, e[i]))
<1> DEFINE I == Positionals(e)
<1>1. PICK n \in Nat : n = Len(e) /\ i \in 1..n /\ I \in SUBSET (1..n)
  BY KindsOfArguments DEF Args
<1> HIDE DEF I
<1>2. PICK b : b = Positional(a, e[i])
  OBVIOUS
<1>3. i \in I /\ i \in 1..n + 1
  BY <1>1 DEF I
<1>4. Upto(I, i + 1) = Upto(I, i) \cup {i}
  BY <1>1, <1>3, UptoNext
<1>5. /\ Cardinality(Upto(I, i)) \in Nat
      /\ \A j \in Upto(I, i) : Place(j, I) \in 1..Cardinality(Upto(I, i))
      /\ Cardinality(Upto(I, i + 1)) = Cardinality(Upto(I, i)) + 1
      /\ Place(i, I) = Cardinality(Upto(I, i)) + 1
  BY <1>1, <1>3, UptoCounts
<1>6. /\ a.pos = Cardinality(Upto(I, i))
      /\ a.sub = "start-phase" =>
           /\ \A j \in Upto(I, i) : Place(j, I) = 1 => a.pid = PidOf(e[j])
           /\ (\A j \in Upto(I, i) : Place(j, I) # 1) => a.pid = 0
           /\ \A j \in Upto(I, i) : Place(j, I) = 2 => a.phase = e[j]
           /\ (\A j \in Upto(I, i) : Place(j, I) # 2) => a.phase = << >>
  BY DEF PositionalsKnown, I
<1>7. b.sub = a.sub /\ b.pos = a.pos + 1
  BY <1>2 DEF Positional, CtlArgs
<1>8. a.sub = "start-phase" =>
        /\ b.pid = IF a.pos = 0 THEN PidOf(e[i]) ELSE a.pid
        /\ b.phase = IF a.pos = 1 THEN e[i] ELSE a.phase
  BY <1>2 DEF Positional, CtlArgs
<1>9. b.pos = Cardinality(Upto(I, i + 1))
  BY <1>5, <1>6, <1>7
<1>10. ASSUME a.sub = "start-phase"
       PROVE  /\ \A j \in Upto(I, i + 1) : Place(j, I) = 1 => b.pid = PidOf(e[j])
              /\ (\A j \in Upto(I, i + 1) : Place(j, I) # 1) => b.pid = 0
  <2>1. a.pos = 0 => \A j \in Upto(I, i) : FALSE
    BY <1>5, <1>6
  <2>2. Place(i, I) = 1 <=> a.pos = 0
    BY <1>5, <1>6
  <2> QED BY <1>4, <1>6, <1>8, <1>10, <2>1, <2>2
<1>11. ASSUME a.sub = "start-phase"
       PROVE  /\ \A j \in Upto(I, i + 1) : Place(j, I) = 2 => b.phase = e[j]
              /\ (\A j \in Upto(I, i + 1) : Place(j, I) # 2) => b.phase = << >>
  <2>1. a.pos = 1 => \A j \in Upto(I, i) : Place(j, I) # 2
    BY <1>5, <1>6
  <2>2. Place(i, I) = 2 <=> a.pos = 1
    BY <1>5, <1>6
  <2> QED BY <1>4, <1>6, <1>8, <1>11, <2>1, <2>2
<1> QED BY <1>2, <1>7, <1>9, <1>10, <1>11 DEF PositionalsKnown, I

\* Where the loop goes on behind an option it has accepted.
LEMMA BehindOption ==
  ASSUME NEW e \in Args, NEW i \in 1..Len(e),
         i \in Options(e, "--format") \cup Options(e, "--fail-on"),
         NEW words, words = Formats \/ words = ToSet(SeverityWords),
         IsWord(ValueAt(e, i), words),
         NEW next, next = IF Len(e[i]) = 1 THEN i + 2 ELSE i + 1
  PROVE  /\ next \in i + 1..Len(e) + 1 /\ next - 1 \notin Bare(e)
         /\ \/ next = i + 1
            \/ /\ next = i + 2
               /\ i + 1 \notin Options(e, "--format")
               /\ i + 1 \notin Options(e, "--fail-on")
               /\ i + 1 \notin Positionals(e)
<1>1. Len(e) \in Nat
  BY DEF Args
<1>2. CASE Len(e[i]) = 1
  <2>1. i \in Bare(e)
    BY <1>2 DEF Bare
  <2>2. PICK m : m = i + 1
    OBVIOUS
  <2>3. /\ m \in 1..Len(e) /\ m \notin Options(e, "--format")
        /\ m \notin Options(e, "--fail-on") /\ m \notin Positionals(e)
        /\ m \notin Bare(e)
    BY <2>1, <2>2, ValueTaken
  <2>4. next = i + 2 /\ next - 1 = m /\ next \in i + 1..Len(e) + 1
    BY <1>1, <1>2, <2>2, <2>3
  <2> QED BY <2>2, <2>3, <2>4
<1>3. CASE Len(e[i]) # 1
  <2>1. i \notin Bare(e)
    BY <1>3 DEF Bare
  <2>2. next = i + 1 /\ next - 1 = i /\ next \in i + 1..Len(e) + 1
    BY <1>1, <1>3
  <2> QED BY <2>1, <2>2
<1> QED BY <1>2, <1>3

\* A turn of the loop refuses what is to be refused, or knows more.
LEMMA CtlTurnKnows ==
  ASSUME NEW args \in Args, NEW e, e = Seen(args), NEW i \in 1..Len(e),
         NEW a, CtlKnown(e, i, a), NEW t, t = CtlTurn(args, Reads(i, a))
  PROVE  \/ t = UsageExit /\ CtlRefuses(e)
         \/ \E next \in i + 1..Len(e) + 1 : \E b :
              t = Reads(next, b) /\ CtlKnown(e, next, b) /\ b.sub = a.sub
<1>1. /\ e \in Args /\ e[i] = args[i] /\ e[i] # << >> /\ Len(e) \in Nat
      /\ e[i] \in Seq(Letter) /\ Len(e[i]) >= 1 /\ i \in DOMAIN e
      /\ Shift(args, i) = e[i]
  <2>1. /\ e \in Args /\ DOMAIN e = 1..Len(e) /\ e[i] = args[i]
        /\ e[i] # << >> /\ e[i] \in Seq(Letter) /\ Len(e[i]) >= 1
    BY SeenIs
  <2>2. Len(e) \in Nat /\ i \in 1..Len(e) + 1
    BY <2>1 DEF Args
  <2>3. Shift(args, i) = Shift(e, i)
    BY <2>2, SeenIs
  <2>4. Shift(e, i) = e[i]
    BY <2>1 DEF Shift
  <2> QED BY <2>1, <2>2, <2>3, <2>4
<1>2. PICK format, failOn : /\ format = OptionValue(args, i, "--format")
                            /\ failOn = OptionValue(args, i, "--fail-on")
  OBVIOUS
<1>3. "--format" \in Letter /\ "--fail-on" \in Letter
  BY DEF Letter
<1>4. /\ format.is <=> i \in Options(e, "--format")
      /\ format.is => /\ format.value = ValueAt(e, i)
                      /\ format.next = IF Len(e[i]) = 1 THEN i + 2 ELSE i + 1
  BY <1>2, <1>3, OptionIs
<1>5. /\ failOn.is <=> i \in Options(e, "--fail-on")
      /\ failOn.is => /\ failOn.value = ValueAt(e, i)
                      /\ failOn.next = IF Len(e[i]) = 1 THEN i + 2 ELSE i + 1
  BY <1>2, <1>3, OptionIs
<1>6. t = IF format.is
          THEN IF IsWord(format.value, Formats)
               THEN Reads(format.next, [a EXCEPT !.format = Head(format.value)])
               ELSE UsageExit
          ELSE IF failOn.is
          THEN IF IsWord(failOn.value, ToSet(SeverityWords))
               THEN Reads(failOn.next,
                          [a EXCEPT !.fail_on =
                             SeverityFromWord(Head(failOn.value))])
               ELSE UsageExit
          ELSE Reads(i + 1, IF Head(e[i]) \in Dashed THEN a
                            ELSE Positional(a, e[i]))
  <2>1. Reads(i, a).ok /\ Reads(i, a).next = i /\ Reads(i, a).ret = a
    BY DEF Reads
  <2> QED BY <1>1, <1>2, <2>1 DEF CtlTurn
<1>7. /\ a \in CtlArgs /\ i - 1 \notin Bare(e) /\ PositionalsKnown(e, i, a)
      /\ OptionsKnown(e, Options(e, "--format"), i, Formats, <<"markdown">>,
                      a.format)
      /\ OptionsKnown(e, Options(e, "--fail-on"), i, ToSet(SeverityWords),
                      <<"none">>, SeverityToString(a.fail_on))
  BY DEF CtlKnown
<1>8. CASE i \in Options(e, "--format") /\ IsWord(ValueAt(e, i), Formats)
  <2>1. PICK next, b : /\ next = format.next
                       /\ b = [a EXCEPT !.format = Head(ValueAt(e, i))]
    OBVIOUS
  <2>2. t = Reads(next, b)
    BY <1>4, <1>6, <1>8, <2>1
  <2>3. /\ next \in i + 1..Len(e) + 1 /\ next - 1 \notin Bare(e)
        /\ \/ next = i + 1
           \/ /\ next = i + 2
              /\ i + 1 \notin Options(e, "--format")
              /\ i + 1 \notin Options(e, "--fail-on")
              /\ i + 1 \notin Positionals(e)
    BY <1>1, <1>4, <1>8, <2>1, BehindOption
  <2>4. Head(ValueAt(e, i)) \in Formats
    BY <1>8 DEF IsWord
  <2>5. /\ b \in CtlArgs /\ b.format = Head(ValueAt(e, i))
        /\ b.fail_on = a.fail_on /\ b.pos = a.pos /\ b.sub = a.sub
        /\ b.pid = a.pid /\ b.phase = a.phase
    BY <1>7, <2>1, <2>4 DEF CtlArgs
  <2>6. OptionsKnown(e, Options(e, "--format"), next, Formats, <<"markdown">>,
                     b.format)
    <3>1. OptionsKnown(e, Options(e, "--format"), next, Formats,
                       <<"markdown">>, Head(ValueAt(e, i)))
      BY <1>1, <1>7, <1>8, <2>3, KindsOfArguments, OptionAdded
    <3> QED BY <2>5, <3>1
  <2>7. OptionsKnown(e, Options(e, "--fail-on"), next, ToSet(SeverityWords),
                     <<"none">>, SeverityToString(b.fail_on))
    <3>1. i \notin Options(e, "--fail-on")
      BY <1>1, <1>8, KindsOfArguments
    <3> QED BY <1>1, <1>7, <2>3, <2>5, <3>1, KindsOfArguments, OptionsPassed
  <2>8. PositionalsKnown(e, next, b)
    <3>1. i \notin Positionals(e)
      BY <1>1, <1>8, KindsOfArguments
    <3> QED BY <1>1, <1>7, <2>3, <2>5, <3>1, PositionalsPassed
  <2>9. CtlKnown(e, next, b)
    BY <2>3, <2>5, <2>6, <2>7, <2>8 DEF CtlKnown
  <2> QED BY <2>2, <2>3, <2>5, <2>9
<1>9. CASE /\ i \in Options(e, "--fail-on")
           /\ IsWord(ValueAt(e, i), ToSet(SeverityWords))
  <2>1. PICK w, next, b :
          /\ w = Head(ValueAt(e, i)) /\ next = failOn.next
          /\ b = [a EXCEPT !.fail_on = SeverityFromWord(w)]
    OBVIOUS
  <2>2. i \notin Options(e, "--format") /\ i \notin Positionals(e)
    BY <1>1, <1>9, KindsOfArguments
  <2>3. t = Reads(next, b)
    BY <1>4, <1>5, <1>6, <1>9, <2>1, <2>2
  <2>4. /\ next \in i + 1..Len(e) + 1 /\ next - 1 \notin Bare(e)
        /\ \/ next = i + 1
           \/ /\ next = i + 2
              /\ i + 1 \notin Options(e, "--format")
              /\ i + 1 \notin Options(e, "--fail-on")
              /\ i + 1 \notin Positionals(e)
    BY <1>1, <1>5, <1>9, <2>1, BehindOption
  <2>5. /\ SeverityFromWord(w) \in 0..3
        /\ SeverityToString(SeverityFromWord(w)) = w
    BY <1>9, <2>1, SeverityWordRead DEF IsWord
  <2>6. /\ b \in CtlArgs /\ b.format = a.format
        /\ b.fail_on = SeverityFromWord(w) /\ b.pos = a.pos /\ b.sub = a.sub
        /\ b.pid = a.pid /\ b.phase = a.phase
    BY <1>7, <2>1, <2>5 DEF CtlArgs
  <2>7. OptionsKnown(e, Options(e, "--fail-on"), next, ToSet(SeverityWords),
                     <<"none">>, SeverityToString(b.fail_on))
    <3>1. OptionsKnown(e, Options(e, "--fail-on"), next, ToSet(SeverityWords),
                       <<"none">>, Head(ValueAt(e, i)))
      BY <1>1, <1>7, <1>9, <2>4, KindsOfArguments, OptionAdded
    <3> QED BY <2>1, <2>5, <2>6, <3>1
  <2>8. OptionsKnown(e, Options(e, "--format"), next, Formats, <<"markdown">>,
                     b.format)
    BY <1>1, <1>7, <2>2, <2>4, <2>6, KindsOfArguments, OptionsPassed
  <2>9. PositionalsKnown(e, next, b)
    BY <1>1, <1>7, <2>2, <2>4, <2>6, PositionalsPassed
  <2>10. CtlKnown(e, next, b)
    BY <2>4, <2>6, <2>7, <2>8, <2>9 DEF CtlKnown
  <2> QED BY <2>3, <2>4, <2>6, <2>10
<1>10. CASE /\ i \notin Options(e, "--format")
            /\ i \notin Options(e, "--fail-on")
  <2>1. PICK next, b :
          /\ next = i + 1
          /\ b = IF Head(e[i]) \in Dashed THEN a ELSE Positional(a, e[i])
    OBVIOUS
  <2>2. t = Reads(next, b)
    BY <1>4, <1>5, <1>6, <1>10, <2>1
  <2>3. next \in i + 1..Len(e) + 1 /\ next - 1 = i /\ i \notin Bare(e)
    BY <1>1, <1>10, <2>1 DEF Bare
  <2>4. Head(e[i]) = e[i][1]
    BY <1>1
  <2>5. /\ b \in CtlArgs /\ b.format = a.format /\ b.fail_on = a.fail_on
        /\ b.sub = a.sub
    <3>1. PidOf(e[i]) \in Nat
      BY WireAssumption DEF PidOf
    <3>2. a.pos + 1 \in Nat /\ 1 \in Nat /\ 2 \in Nat
      BY <1>7 DEF CtlArgs
    <3>3. PICK c : c = Positional(a, e[i])
      OBVIOUS
    <3>4. CASE a.sub # "start-phase" \/ (a.pos # 0 /\ a.pos # 1)
      <4>1. c = [a EXCEPT !.pos = a.pos + 1]
        BY <3>3, <3>4 DEF Positional
      <4> QED BY <1>7, <2>1, <3>2, <3>3, <4>1 DEF CtlArgs
    <3>5. CASE a.sub = "start-phase" /\ a.pos = 0
      <4>1. c = [a EXCEPT !.pos = 1, !.pid = PidOf(e[i])]
        BY <3>3, <3>5 DEF Positional
      <4> QED BY <1>7, <2>1, <3>1, <3>2, <3>3, <4>1 DEF CtlArgs
    <3>6. CASE a.sub = "start-phase" /\ a.pos = 1
      <4>1. c = [a EXCEPT !.pos = 2, !.phase = e[i]]
        BY <3>3, <3>6 DEF Positional
      <4> QED BY <1>1, <1>7, <2>1, <3>2, <3>3, <4>1 DEF CtlArgs
    <3> QED BY <3>4, <3>5, <3>6
  <2>6. OptionsKnown(e, Options(e, "--format"), next, Formats, <<"markdown">>,
                     b.format)
    BY <1>1, <1>7, <1>10, <2>1, <2>5, KindsOfArguments, OptionsPassed
  <2>7. OptionsKnown(e, Options(e, "--fail-on"), next, ToSet(SeverityWords),
                     <<"none">>, SeverityToString(b.fail_on))
    BY <1>1, <1>7, <1>10, <2>1, <2>5, KindsOfArguments, OptionsPassed
  <2>8. PositionalsKnown(e, next, b)
    <3>1. CASE Head(e[i]) \in Dashed
      <4>1. i \notin Positionals(e)
        BY <2>4, <3>1 DEF Positionals
      <4> QED BY <1>1, <1>7, <2>1, <3>1, <4>1, PositionalsPassed
    <3>2. CASE Head(e[i]) \notin Dashed
      <4>1. i \in Positionals(e)
        BY <1>1, <1>7, <2>4, <3>2 DEF Positionals
      <4> QED BY <1>1, <1>7, <2>1, <3>2, <4>1, PositionalAdded
    <3> QED BY <3>1, <3>2
  <2>9. CtlKnown(e, next, b)
    BY <2>3, <2>5, <2>6, <2>7, <2>8 DEF CtlKnown
  <2> QED BY <2>2, <2>3, <2>5, <2>9
<1>11. CASE \/ i \in Options(e, "--format") /\ ~IsWord(ValueAt(e, i), Formats)
            \/ /\ i \in Options(e, "--fail-on")
               /\ ~IsWord(ValueAt(e, i), ToSet(SeverityWords))
  <2>1. i \in Options(e, "--format") => i \notin Options(e, "--fail-on")
    BY <1>1, KindsOfArguments
  <2>2. t = UsageExit
    BY <1>4, <1>5, <1>6, <1>11, <2>1
  <2> QED BY <1>11, <2>2 DEF CtlRefuses
<1> QED BY <1>8, <1>9, <1>10, <1>11

\* What the loop has after n turns.
CtlCourse(e, sub, n, s) ==
  \/ s = UsageExit /\ CtlRefuses(e)
  \/ \E i \in 1..Len(e) + 1 : \E a :
       /\ s = Reads(i, a) /\ CtlKnown(e, i, a) /\ a.sub = sub
       /\ i > n \/ i = Len(e) + 1

LEMMA CtlBegins ==
  ASSUME NEW e \in Args, NEW sub \in Letter
  PROVE  CtlCourse(e, sub, 0, Reads(1, DefaultArgs(sub)))
<1>1. PICK a : a = DefaultArgs(sub)
  OBVIOUS
<1>2. 1 \in 1..Len(e) + 1
  BY DEF Args
<1>3. a \in CtlArgs /\ a.sub = sub
  BY <1>1 DEF DefaultArgs, CtlArgs, Formats
<1>4. \A I \in SUBSET (1..Len(e)) : Upto(I, 1) = {}
  <2>1. \A j \in 1..Len(e) : ~(j < 1)
    BY DEF Args
  <2> QED BY <2>1 DEF Upto
<1>5. 1 - 1 \notin Bare(e)
  <2>1. 0 \notin 1..Len(e)
    BY DEF Args
  <2> QED BY <2>1, KindsOfArguments
<1>6. OptionsKnown(e, Options(e, "--format"), 1, Formats, <<"markdown">>,
                   a.format)
  <2>1. a.format = "markdown" /\ Upto(Options(e, "--format"), 1) = {}
    BY <1>1, <1>4, KindsOfArguments DEF DefaultArgs
  <2> QED BY <2>1 DEF OptionsKnown, LastOf
<1>7. OptionsKnown(e, Options(e, "--fail-on"), 1, ToSet(SeverityWords),
                   <<"none">>, SeverityToString(a.fail_on))
  <2>1. a.fail_on = 0 /\ Upto(Options(e, "--fail-on"), 1) = {}
    BY <1>1, <1>4, KindsOfArguments DEF DefaultArgs
  <2>2. SeverityToString(0) = "none"
    BY DEF SeverityToString, SeverityWords
  <2> QED BY <2>1, <2>2 DEF OptionsKnown, LastOf
<1>8. PositionalsKnown(e, 1, a)
  <2>1. a.pos = 0 /\ a.pid = 0 /\ a.phase = << >>
    BY <1>1 DEF DefaultArgs
  <2>2. Upto(Positionals(e), 1) = {} /\ Cardinality({}) = 0
    BY <1>4, KindsOfArguments, FS_EmptySet
  <2> QED BY <2>1, <2>2 DEF PositionalsKnown
<1>9. CtlKnown(e, 1, a)
  BY <1>3, <1>5, <1>6, <1>7, <1>8 DEF CtlKnown
<1> QED BY <1>1, <1>2, <1>3, <1>9 DEF CtlCourse

LEMMA CtlCourseStep ==
  ASSUME NEW args \in Args, NEW e, e = Seen(args), NEW sub,
         NEW n \in 1..Len(args), NEW s, CtlCourse(e, sub, n - 1, s)
  PROVE  CtlCourse(e, sub, n, CtlTurn(args, s))
<1>1. e \in Args /\ Len(e) \in Nat /\ n \in Nat
  BY SeenIs DEF Args
<1>2. CASE s = UsageExit /\ CtlRefuses(e)
  <2>1. CtlTurn(args, s) = s
    BY <1>2 DEF CtlTurn, UsageExit, Fails
  <2> QED BY <1>2, <2>1 DEF CtlCourse
<1>3. ASSUME NEW i \in 1..Len(e) + 1, NEW a,
             s = Reads(i, a), CtlKnown(e, i, a), a.sub = sub,
             i > n - 1 \/ i = Len(e) + 1
      PROVE  CtlCourse(e, sub, n, CtlTurn(args, s))
  <2>1. CASE i = Len(e) + 1
    <3>1. Shift(args, i) = << >>
      <4>1. Shift(args, i) = Shift(e, i) /\ DOMAIN e = 1..Len(e)
        BY <1>1, <2>1, SeenIs
      <4>2. i \notin DOMAIN e
        BY <1>1, <2>1, <4>1
      <4> QED BY <4>1, <4>2 DEF Shift
    <3>2. CtlTurn(args, s) = s
      BY <1>3, <3>1 DEF CtlTurn, Reads
    <3> QED BY <1>3, <2>1, <3>2 DEF CtlCourse
  <2>2. CASE i # Len(e) + 1
    <3>1. i \in 1..Len(e)
      BY <1>1, <2>2
    <3>2. \/ CtlTurn(args, s) = UsageExit /\ CtlRefuses(e)
          \/ \E next \in i + 1..Len(e) + 1 : \E b :
               CtlTurn(args, s) = Reads(next, b) /\ CtlKnown(e, next, b)
               /\ b.sub = a.sub
      BY <1>3, <3>1, CtlTurnKnows
    <3>3. \A next \in i + 1..Len(e) + 1 : next \in 1..Len(e) + 1 /\ next > n
      BY <1>1, <1>3, <2>2
    <3> QED BY <1>3, <3>2, <3>3 DEF CtlCourse
  <2> QED BY <2>1, <2>2
<1> QED BY <1>2, <1>3 DEF CtlCourse

\* What the loop ends with.
LEMMA CtlEnds ==
  ASSUME NEW args \in Args, NEW e, e = Seen(args), NEW sub \in Letter,
         NEW s, s = CtlLoop(args, sub)
  PROVE  \/ s = UsageExit /\ CtlRefuses(e)
         \/ \E a : /\ s = Reads(Len(e) + 1, a) /\ a.sub = sub
                   /\ CtlKnown(e, Len(e) + 1, a)
<1>1. PICK f : /\ f[0] = Reads(1, DefaultArgs(sub))
               /\ \A k \in 1..Len(args) : f[k] = CtlTurn(args, f[k - 1])
               /\ s = f[Len(args)]
  BY CtlLoopIs
<1>2. e \in Args /\ Len(e) \in 0..Len(args) /\ Len(args) \in Nat
  BY SeenIs DEF Args
<1> DEFINE J == {k \in 0..Len(args) : ~CtlCourse(e, sub, k, f[k])}
<1>3. J = {}
  <2> SUFFICES ASSUME J # {} PROVE FALSE
    OBVIOUS
  <2>1. PICK m : m \in J /\ \A k \in J : m <= k
    <3>1. J \subseteq Nat
      BY <1>2
    <3> HIDE DEF J
    <3> QED BY <3>1, LeastPosition
  <2>2. CASE m = 0
    BY <1>1, <1>2, <2>1, <2>2, CtlBegins
  <2>3. CASE m # 0
    <3>1. m \in 1..Len(args) /\ m - 1 \in 0..Len(args) /\ ~(m <= m - 1)
      BY <1>2, <2>1, <2>3
    <3>2. CtlCourse(e, sub, m - 1, f[m - 1])
      BY <2>1, <3>1
    <3>3. CtlCourse(e, sub, m, f[m])
      BY <1>1, <3>1, <3>2, CtlCourseStep
    <3> QED BY <2>1, <3>3
  <2> QED BY <2>2, <2>3
<1>4. Len(args) \in 0..Len(args)
  BY <1>2
<1>5. CtlCourse(e, sub, Len(args), s)
  BY <1>1, <1>3, <1>4
<1>6. \A i \in 1..Len(e) + 1 : i > Len(args) => i = Len(e) + 1
  BY <1>2
<1> QED BY <1>5, <1>6 DEF CtlCourse

\* Every argument has been looked at when nothing is refused.
LEMMA CtlAllKnown ==
  ASSUME NEW e \in Args, NEW a, CtlKnown(e, Len(e) + 1, a)
  PROVE  /\ ~CtlRefuses(e)
         /\ <<a.format>> = LastOf(e, Options(e, "--format"), <<"markdown">>)
         /\ <<SeverityToString(a.fail_on)>> =
              LastOf(e, Options(e, "--fail-on"), <<"none">>)
         /\ a.sub = "start-phase" =>
              a.pid = PidOf(Nth(e, 1)) /\ a.phase = Nth(e, 2)
<1>1. \A I \in SUBSET (1..Len(e)) : Upto(I, Len(e) + 1) = I
  <2>1. \A j \in 1..Len(e) : j < Len(e) + 1
    BY DEF Args
  <2> QED BY <2>1 DEF Upto
<1>2. /\ Upto(Options(e, "--format"), Len(e) + 1) = Options(e, "--format")
      /\ Upto(Options(e, "--fail-on"), Len(e) + 1) = Options(e, "--fail-on")
      /\ Upto(Positionals(e), Len(e) + 1) = Positionals(e)
  BY <1>1, KindsOfArguments
<1>3. ~CtlRefuses(e)
  BY <1>2 DEF CtlKnown, OptionsKnown, CtlRefuses
<1>4. ASSUME a.sub = "start-phase"
      PROVE  a.pid = PidOf(Nth(e, 1)) /\ a.phase = Nth(e, 2)
  <2> DEFINE I == Positionals(e)
  <2>1. /\ \A j \in I : Place(j, I) = 1 => a.pid = PidOf(e[j])
        /\ (\A j \in I : Place(j, I) # 1) => a.pid = 0
        /\ \A j \in I : Place(j, I) = 2 => a.phase = e[j]
        /\ (\A j \in I : Place(j, I) # 2) => a.phase = << >>
    BY <1>2, <1>4 DEF CtlKnown, PositionalsKnown
  <2>2. PidOf(<< >>) = 0
    BY DEF PidOf
  <2> HIDE DEF I
  <2>3. ASSUME NEW n
        PROVE  \/ Nth(e, n) = << >> /\ \A j \in I : Place(j, I) # n
               \/ \E j \in I : Place(j, I) = n /\ Nth(e, n) = e[j]
    BY DEF Nth, I
  <2> QED BY <2>1, <2>2, <2>3
<1> QED BY <1>2, <1>3, <1>4 DEF CtlKnown, OptionsKnown

LEMMA CtlOfLine ==
  ASSUME ctl \in Args
  PROVE  CtlMeansWhatItSays
<1> SUFFICES ASSUME ctl # << >>,
                    NEW e, e = Seen(Tail(ctl)),
                    NEW parsed, parsed = ParseCtl(ctl)
             PROVE  /\ parsed.ok <=> IsWord(ctl[1], Subcommands) /\ ~CtlRefuses(e)
                    /\ parsed.ok =>
                         /\ <<parsed.value.format>> =
                              LastOf(e, Options(e, "--format"), <<"markdown">>)
                         /\ <<SeverityToString(parsed.value.fail_on)>> =
                              LastOf(e, Options(e, "--fail-on"), <<"none">>)
                         /\ ctl[1] = <<"start-phase">> =>
                              /\ parsed.value.pid = PidOf(Nth(e, 1))
                              /\ parsed.value.phase = Nth(e, 2)
  BY DEF CtlMeansWhatItSays
<1>1. Tail(ctl) \in Args /\ ctl[1] \in Seq(Letter)
  BY DEF Args
<1>2. e \in Args
  BY <1>1, SeenIs
<1>3. CASE ~IsWord(ctl[1], Subcommands)
  BY <1>3 DEF ParseCtl, UsageExit, Fails
<1>4. CASE IsWord(ctl[1], Subcommands)
  <2>1. PICK sub : sub = Head(ctl[1])
    OBVIOUS
  <2>2. sub \in Letter /\ (ctl[1] = <<"start-phase">> => sub = "start-phase")
    BY <1>1, <1>4, <2>1 DEF IsWord
  <2>3. PICK s : s = CtlLoop(Tail(ctl), sub)
    OBVIOUS
  <2>4. parsed = Outcome(s)
    BY <1>4, <2>1, <2>3 DEF ParseCtl
  <2>5. CASE s = UsageExit /\ CtlRefuses(e)
    BY <2>4, <2>5 DEF Outcome, UsageExit, Fails
  <2>6. ASSUME NEW a, s = Reads(Len(e) + 1, a), a.sub = sub,
               CtlKnown(e, Len(e) + 1, a)
        PROVE  /\ parsed.ok /\ parsed.value = a /\ ~CtlRefuses(e)
               /\ <<a.format>> =
                    LastOf(e, Options(e, "--format"), <<"markdown">>)
               /\ <<SeverityToString(a.fail_on)>> =
                    LastOf(e, Options(e, "--fail-on"), <<"none">>)
               /\ sub = "start-phase" =>
                    a.pid = PidOf(Nth(e, 1)) /\ a.phase = Nth(e, 2)
    BY <1>2, <2>4, <2>6, CtlAllKnown DEF Outcome, Gives, Reads
  <2> QED BY <1>1, <1>4, <2>2, <2>3, <2>5, <2>6, CtlEnds
<1> QED BY <1>3, <1>4

LEMMA CtlAlways == CtlSpec => [](ctl \in Args)
<1>1. ctl = << >> => ctl \in Args
  BY DEF Args
<1>2. ctl \in Args /\ [GiveCtl]_ctl => (ctl \in Args)'
  <2>1. ASSUME NEW arg \in CtlArguments PROVE arg \in Seq(Letter)
    <3>1. arg \in Seq(STRING)
      BY ArgumentsAssumption
    <3>2. \A k \in 1..Len(arg) : arg[k] \in Letter
      BY <3>1 DEF Letter
    <3>3. arg = [k \in 1..Len(arg) |-> arg[k]] /\ Len(arg) \in Nat
      BY <3>1
    <3> QED BY <3>2, <3>3
  <2>2. ASSUME ctl \in Seq(Seq(Letter)), NEW arg \in Seq(Letter)
        PROVE  Append(ctl, arg) \in Seq(Seq(Letter))
    BY <2>2
  <2> QED BY <2>1, <2>2 DEF Args, GiveCtl
<1> QED BY <1>1, <1>2, PTL DEF CtlSpec

\* README.md, "Subcommands": options and positional arguments of blastguardctl
\* mean the same in every order and in both spellings, however many there are
\* (parseArgs, ctl/args.cpp:63-159).
THEOREM CtlUnderstood == CtlSpec => []CtlMeansWhatItSays
BY CtlOfLine, CtlAlways, PTL
-----------------------------------------------------------------------------
(* blastguardd: which arguments take the next one. *)

Takes(e, n, f) ==
  f = [i \in 0..n |-> i > 0 /\ IsWord(e[i], Takers) /\ ~f[i - 1]]

LEMMA TakesExist ==
  ASSUME NEW e, NEW n \in Nat
  PROVE  \E f : Takes(e, n, f)
<1> DEFINE J == {m \in Nat : ~ \E f : Takes(e, m, f)}
<1> SUFFICES ASSUME J # {} PROVE FALSE
  OBVIOUS
<1>1. PICK m : m \in J /\ \A i \in J : m <= i
  <2>1. J \subseteq Nat
    OBVIOUS
  <2> HIDE DEF J
  <2> QED BY <2>1, LeastPosition
<1>2. m \in Nat /\ ~ \E f : Takes(e, m, f)
  BY <1>1
<1>3. CASE m = 0
  <2> DEFINE f == [k \in 0..0 |-> FALSE]
  <2>1. \A k \in 0..0 : ~(k > 0)
    OBVIOUS
  <2>2. \A k \in 0..0 :
          (k > 0 /\ IsWord(e[k], Takers) /\ ~f[k - 1]) = FALSE
    BY <2>1, Zenon
  <2>3. f = [k \in 0..0 |-> k > 0 /\ IsWord(e[k], Takers) /\ ~f[k - 1]]
    BY <2>2, Zenon
  <2>4. Takes(e, 0, f)
    BY <2>3, Zenon DEF Takes
  <2> QED BY <1>2, <1>3, <2>4
<1>4. CASE m # 0
  <2>1. m - 1 \in Nat /\ ~(m <= m - 1)
    BY <1>2, <1>4
  <2>2. PICK f : Takes(e, m - 1, f)
    BY <1>1, <2>1
  <2> DEFINE g == [k \in 0..m |-> k > 0 /\ IsWord(e[k], Takers) /\ ~f[k - 1]]
  <2>3. ASSUME NEW k \in 0..m, k > 0
        PROVE  f[k - 1] = g[k - 1]
    <3>1. k - 1 \in 0..m - 1 /\ k - 1 \in 0..m
      BY <1>2, <2>3
    <3>2. f[k - 1] = (k - 1 > 0 /\ IsWord(e[k - 1], Takers) /\ ~f[k - 1 - 1])
      BY <2>2, <3>1, Zenon DEF Takes
    <3> QED BY <3>1, <3>2
  <2>4. g = [k \in 0..m |-> k > 0 /\ IsWord(e[k], Takers) /\ ~g[k - 1]]
    <3>1. ASSUME NEW k \in 0..m
          PROVE  (k > 0 /\ IsWord(e[k], Takers) /\ ~f[k - 1])
                   = (k > 0 /\ IsWord(e[k], Takers) /\ ~g[k - 1])
      <4> HIDE DEF g
      <4> QED BY <2>3
    <3> QED BY <3>1, Zenon
  <2>5. Takes(e, m, g)
    <3> HIDE DEF g
    <3> QED BY <2>4 DEF Takes
  <2> QED BY <1>2, <2>5
<1> QED BY <1>3, <1>4

LEMMA TakingIs ==
  ASSUME NEW e \in Args
  PROVE  /\ Taking(e) \in SUBSET (1..Len(e))
         /\ \A i \in 1..Len(e) :
              i \in Taking(e) <=> IsWord(e[i], Takers) /\ i - 1 \notin Taking(e)
<1>1. DOMAIN e = 1..Len(e) /\ Len(e) \in Nat
  BY DEF Args
<1>2. PICK f : f = CHOOSE g : Takes(e, Len(e), g)
  OBVIOUS
<1>3. Takes(e, Len(e), f)
  BY <1>1, <1>2, TakesExist
<1>4. Taking(e) = {i \in DOMAIN e : f[i]}
  BY <1>2 DEF Taking, Takes
<1>5. ASSUME NEW i \in 0..Len(e)
      PROVE  f[i] = (i > 0 /\ IsWord(e[i], Takers) /\ ~f[i - 1])
  BY <1>3, Zenon DEF Takes
<1>6. ASSUME NEW i \in 1..Len(e)
      PROVE  i \in Taking(e) <=> IsWord(e[i], Takers) /\ i - 1 \notin Taking(e)
  <2>1. i \in 0..Len(e) /\ i > 0 /\ i - 1 \in 0..Len(e)
    BY <1>1
  <2>2. i \in Taking(e) <=> f[i]
    BY <1>1, <1>4
  <2>3. f[i] <=> IsWord(e[i], Takers) /\ ~f[i - 1]
    BY <1>5, <2>1
  <2>4. f[i - 1] <=> i - 1 \in Taking(e)
    <3>1. CASE i = 1
      <4>1. f[0] = (0 > 0 /\ IsWord(e[0], Takers) /\ ~f[0 - 1])
        <5>1. 0 \in 0..Len(e)
          BY <1>1
        <5> QED BY <1>5, <5>1, Zenon
      <4>2. ~f[0]
        <5>1. ~(0 > 0)
          OBVIOUS
        <5> QED BY <4>1, <5>1, Zenon
      <4>3. 0 \notin Taking(e)
        BY <1>1, <1>4
      <4>4. i - 1 = 0
        BY <3>1
      <4> QED BY <4>2, <4>3, <4>4
    <3>2. CASE i # 1
      <4>1. i - 1 \in DOMAIN e
        BY <1>1, <3>2
      <4> QED BY <1>4, <4>1
    <3> QED BY <3>1, <3>2
  <2> QED BY <2>2, <2>3, <2>4
<1>7. Taking(e) \in SUBSET (1..Len(e))
  BY <1>1, <1>4
<1> QED BY <1>6, <1>7

DaemonTurns(args, n, f) ==
  f = [k \in 0..n |-> IF k = 0 THEN Reads(1, DefaultDaemonArgs)
                      ELSE DaemonTurn(args, f[k - 1])]

LEMMA DaemonTurnsExist ==
  ASSUME NEW args, NEW n \in Nat
  PROVE  \E f : DaemonTurns(args, n, f)
<1> DEFINE J == {m \in Nat : ~ \E f : DaemonTurns(args, m, f)}
<1> SUFFICES ASSUME J # {} PROVE FALSE
  OBVIOUS
<1>1. PICK m : m \in J /\ \A i \in J : m <= i
  <2>1. J \subseteq Nat
    OBVIOUS
  <2> HIDE DEF J
  <2> QED BY <2>1, LeastPosition
<1>2. m \in Nat /\ ~ \E f : DaemonTurns(args, m, f)
  BY <1>1
<1>3. CASE m = 0
  <2> DEFINE f == [k \in 0..0 |-> Reads(1, DefaultDaemonArgs)]
  <2>1. DaemonTurns(args, 0, f)
    BY DEF DaemonTurns
  <2> QED BY <1>2, <1>3, <2>1
<1>4. CASE m # 0
  <2>1. m - 1 \in Nat /\ ~(m <= m - 1)
    BY <1>2, <1>4
  <2>2. PICK f : DaemonTurns(args, m - 1, f)
    BY <1>1, <2>1
  <2> DEFINE g == [k \in 0..m |-> IF k = 0 THEN Reads(1, DefaultDaemonArgs)
                                  ELSE DaemonTurn(args, f[k - 1])]
  <2>3. ASSUME NEW k \in 0..m, k # 0
        PROVE  f[k - 1] = g[k - 1]
    <3>1. k - 1 \in 0..m - 1 /\ k - 1 \in 0..m
      BY <1>2, <2>3
    <3>2. f[k - 1] = IF k - 1 = 0 THEN Reads(1, DefaultDaemonArgs)
                     ELSE DaemonTurn(args, f[k - 1 - 1])
      BY <2>2, <3>1, Zenon DEF DaemonTurns
    <3> QED BY <3>1, <3>2
  <2>4. g = [k \in 0..m |-> IF k = 0 THEN Reads(1, DefaultDaemonArgs)
                            ELSE DaemonTurn(args, g[k - 1])]
    BY <2>3
  <2>5. DaemonTurns(args, m, g)
    <3> HIDE DEF g
    <3> QED BY <2>4 DEF DaemonTurns
  <2> QED BY <1>2, <2>5
<1> QED BY <1>3, <1>4

LEMMA DaemonLoopIs ==
  ASSUME NEW args \in Args
  PROVE  \E f : /\ f[0] = Reads(1, DefaultDaemonArgs)
                /\ \A k \in 1..Len(args) : f[k] = DaemonTurn(args, f[k - 1])
                /\ DaemonLoop(args) = f[Len(args)]
<1>1. Len(args) \in Nat
  BY DEF Args
<1>2. PICK f : f = CHOOSE g : DaemonTurns(args, Len(args), g)
  OBVIOUS
<1>3. DaemonTurns(args, Len(args), f)
  BY <1>1, <1>2, DaemonTurnsExist
<1>4. DaemonLoop(args) = f[Len(args)]
  BY <1>2 DEF DaemonLoop, DaemonTurns
<1>5. \A k \in 0..Len(args) : f[k] = IF k = 0 THEN Reads(1, DefaultDaemonArgs)
                                     ELSE DaemonTurn(args, f[k - 1])
  BY <1>3, Zenon DEF DaemonTurns
<1>6. 0 \in 0..Len(args) /\ \A k \in 1..Len(args) : k \in 0..Len(args) /\ k # 0
  BY <1>1
<1> QED BY <1>4, <1>5, <1>6
-----------------------------------------------------------------------------
(* blastguardd: what is known of the arguments before position i. *)

DaemonArgs == [mode : Modes, hosts : Seq(Seq(Letter)), verbose : BOOLEAN]

HostsKnown(e, i, hosts) ==
  LET I == AllowOptions(e)
  IN  /\ Len(hosts) = Cardinality(Upto(I, i))
      /\ \A j \in Upto(I, i) :
           ValueAt(e, j) # << >> /\ hosts[Place(j, I)] = ValueAt(e, j)

DaemonKnown(e, i, a) ==
  /\ a \in DaemonArgs
  /\ i - 1 \notin Taking(e)
  /\ OptionsKnown(e, ModeOptions(e), i, Modes, <<"audit">>, a.mode)
  /\ HostsKnown(e, i, a.hosts)

LEMMA KindsOfOptions ==
  ASSUME NEW e \in Args
  PROVE  /\ ModeOptions(e) \in SUBSET (1..Len(e))
         /\ AllowOptions(e) \in SUBSET (1..Len(e))
         /\ ModeOptions(e) \subseteq Taking(e) /\ AllowOptions(e) \subseteq Taking(e)
         /\ \A i \in ModeOptions(e) : i \notin AllowOptions(e)
BY TakingIs DEF ModeOptions, AllowOptions

\* What an option has taken is not an option.
LEMMA ArgumentTaken ==
  ASSUME NEW e \in Args, NEW i \in Taking(e), ValueAt(e, i) # << >>
  PROVE  /\ i + 1 \in 1..Len(e) /\ i + 1 \notin Taking(e)
         /\ i + 1 \notin ModeOptions(e) /\ i + 1 \notin AllowOptions(e)
<1>1. i \in 1..Len(e) /\ IsWord(e[i], Takers)
  BY TakingIs
<1>2. Len(e[i]) = 1
  BY <1>1 DEF IsWord
<1>3. i + 1 \in 1..Len(e)
  <2>1. i < Len(e)
    BY <1>2 DEF ValueAt
  <2> QED BY <1>1, <2>1 DEF Args
<1>4. PICK m : m = i + 1
  OBVIOUS
<1>5. m \in 1..Len(e) /\ m - 1 = i
  BY <1>1, <1>3, <1>4
<1>6. m \notin Taking(e)
  BY <1>5, TakingIs
<1> QED BY <1>3, <1>4, <1>6, KindsOfOptions

LEMMA HostsPassed ==
  ASSUME NEW e \in Args, NEW i \in 1..Len(e), i \notin AllowOptions(e),
         NEW next,
         next = i + 1 \/ (next = i + 2 /\ i + 1 \notin AllowOptions(e)),
         NEW hosts, HostsKnown(e, i, hosts)
  PROVE  HostsKnown(e, next, hosts)
<1> DEFINE I == AllowOptions(e)
<1>1. PICK n \in Nat : n = Len(e) /\ i \in 1..n /\ I \in SUBSET (1..n)
  BY KindsOfOptions DEF Args
<1> HIDE DEF I
<1>2. Upto(I, next) = Upto(I, i)
  <2>1. /\ Upto(I, i + 1) = Upto(I, i)
        /\ i + 1 \notin I => Upto(I, i + 2) = Upto(I, i + 1)
    BY <1>1, UptoNext DEF I
  <2> QED BY <2>1 DEF I
<1> QED BY <1>2 DEF HostsKnown, I

LEMMA HostAdded ==
  ASSUME NEW e \in Args, NEW i \in 1..Len(e), i \in AllowOptions(e),
         i + 1 \notin AllowOptions(e), Len(e[i]) >= 1,
         NEW hosts \in Seq(Seq(Letter)), HostsKnown(e, i, hosts),
         ValueAt(e, i) # << >>
  PROVE  HostsKnown(e, i + 2, Append(hosts, ValueAt(e, i)))
<1> DEFINE I == AllowOptions(e)
<1>1. PICK n \in Nat : n = Len(e) /\ i \in 1..n /\ I \in SUBSET (1..n)
  BY KindsOfOptions DEF Args
<1> HIDE DEF I
<1>2. i \in I /\ i + 1 \notin I /\ i \in 1..n + 1
  BY <1>1 DEF I
<1>3. Upto(I, i + 2) = Upto(I, i) \cup {i}
  BY <1>1, <1>2, UptoBehind
<1>4. /\ Cardinality(Upto(I, i)) \in Nat
      /\ \A j \in Upto(I, i) : Place(j, I) \in 1..Cardinality(Upto(I, i))
      /\ Cardinality(Upto(I, i + 2)) = Cardinality(Upto(I, i)) + 1
      /\ Place(i, I) = Cardinality(Upto(I, i)) + 1
  <2>1. i + 1 \notin I => Upto(I, i + 2) = Upto(I, i + 1)
    BY <1>1, UptoNext
  <2> QED BY <1>1, <1>2, <2>1, UptoCounts
<1>5. /\ Len(hosts) = Cardinality(Upto(I, i))
      /\ \A j \in Upto(I, i) :
           ValueAt(e, j) # << >> /\ hosts[Place(j, I)] = ValueAt(e, j)
  BY DEF HostsKnown, I
<1>6. PICK more : more = Append(hosts, ValueAt(e, i))
  OBVIOUS
<1>7. /\ Len(more) = Len(hosts) + 1 /\ more[Len(hosts) + 1] = ValueAt(e, i)
      /\ \A k \in 1..Len(hosts) : more[k] = hosts[k]
  <2>1. ValueAt(e, i) \in Seq(Letter)
    BY ValueType
  <2> QED BY <1>6, <2>1
<1>8. \A j \in Upto(I, i + 2) :
        ValueAt(e, j) # << >> /\ more[Place(j, I)] = ValueAt(e, j)
  BY <1>3, <1>4, <1>5, <1>7
<1>9. Len(more) = Cardinality(Upto(I, i + 2))
  BY <1>3, <1>4, <1>5, <1>7
<1> QED BY <1>6, <1>8, <1>9 DEF HostsKnown, I

\* A turn of the loop refuses what is to be refused, or knows more.
LEMMA DaemonTurnKnows ==
  ASSUME NEW args \in Args, NEW e, e = Seen(args), NEW i \in 1..Len(e),
         NEW a, DaemonKnown(e, i, a), NEW t, t = DaemonTurn(args, Reads(i, a))
  PROVE  \/ t = UsageExit /\ DaemonRefuses(e)
         \/ \E next \in i + 1..Len(e) + 1 : \E b :
              t = Reads(next, b) /\ DaemonKnown(e, next, b)
<1>1. /\ e \in Args /\ e[i] # << >> /\ Len(e) \in Nat
      /\ e[i] \in Seq(Letter) /\ Len(e[i]) >= 1 /\ i \in DOMAIN e
      /\ Shift(args, i) = e[i] /\ Shift(args, i + 1) = Shift(e, i + 1)
  <2>1. /\ e \in Args /\ DOMAIN e = 1..Len(e) /\ e[i] = args[i]
        /\ e[i] # << >> /\ e[i] \in Seq(Letter) /\ Len(e[i]) >= 1
    BY SeenIs
  <2>2. Len(e) \in Nat /\ i \in 1..Len(e) + 1 /\ i + 1 \in 1..Len(e) + 1
    BY <2>1 DEF Args
  <2>3. Shift(args, i) = Shift(e, i) /\ Shift(args, i + 1) = Shift(e, i + 1)
    BY <2>2, SeenIs
  <2>4. Shift(e, i) = e[i]
    BY <2>1 DEF Shift
  <2> QED BY <2>1, <2>2, <2>3, <2>4
<1>2. PICK value : value = Shift(e, i + 1)
  OBVIOUS
<1>3. t = IF e[i] = <<"--mode">>
          THEN IF IsWord(value, Modes)
               THEN Reads(i + 2, [a EXCEPT !.mode = Head(value)])
               ELSE UsageExit
          ELSE IF IsWord(e[i], {"-a", "--allow"})
          THEN IF value = << >> THEN UsageExit
               ELSE Reads(i + 2, AllowHost(a, value))
          ELSE Reads(i + 1, IF IsWord(e[i], {"-v", "--verbose"})
                            THEN [a EXCEPT !.verbose = TRUE] ELSE a)
  <2>1. Reads(i, a).ok /\ Reads(i, a).next = i /\ Reads(i, a).ret = a
    BY DEF Reads
  <2> QED BY <1>1, <1>2, <2>1 DEF DaemonTurn
<1>4. Len(e[i]) = 1 => value = ValueAt(e, i)
  BY <1>1, <1>2, ValueIs
<1>5. /\ a \in DaemonArgs /\ i - 1 \notin Taking(e) /\ HostsKnown(e, i, a.hosts)
      /\ OptionsKnown(e, ModeOptions(e), i, Modes, <<"audit">>, a.mode)
  BY DEF DaemonKnown
<1>6. i \in Taking(e) <=> IsWord(e[i], Takers)
  BY <1>1, <1>5, TakingIs
<1>7. CASE e[i] = <<"--mode">>
  <2>1. Len(e[i]) = 1 /\ IsWord(e[i], Takers)
    BY <1>7 DEF IsWord, Takers
  <2>2. i \in ModeOptions(e) /\ i \in Taking(e) /\ value = ValueAt(e, i)
    BY <1>4, <1>6, <1>7, <2>1 DEF ModeOptions
  <2>3. CASE ~IsWord(value, Modes)
    BY <1>3, <1>7, <2>2, <2>3 DEF DaemonRefuses
  <2>4. CASE IsWord(value, Modes)
    <3>1. PICK b : b = [a EXCEPT !.mode = Head(value)]
      OBVIOUS
    <3>2. t = Reads(i + 2, b)
      BY <1>3, <1>7, <2>4, <3>1
    <3>3. b \in DaemonArgs /\ b.mode = Head(value) /\ b.hosts = a.hosts
      BY <1>5, <2>4, <3>1 DEF DaemonArgs, IsWord
    <3>4. value # << >>
      BY <2>4 DEF IsWord
    <3>5. /\ i + 1 \in 1..Len(e) /\ i + 1 \notin Taking(e)
          /\ i + 1 \notin ModeOptions(e) /\ i + 1 \notin AllowOptions(e)
      BY <1>1, <2>2, <3>4, ArgumentTaken
    <3>6. i + 2 \in i + 1..Len(e) + 1 /\ i + 2 - 1 = i + 1
      BY <1>1, <3>5
    <3>7. OptionsKnown(e, ModeOptions(e), i + 2, Modes, <<"audit">>, b.mode)
      <4>1. OptionsKnown(e, ModeOptions(e), i + 2, Modes, <<"audit">>,
                         Head(ValueAt(e, i)))
        BY <1>1, <1>5, <2>2, <2>4, <3>5, KindsOfOptions, OptionAdded
      <4> QED BY <2>2, <3>3, <4>1
    <3>8. HostsKnown(e, i + 2, b.hosts)
      BY <1>1, <1>5, <2>2, <3>3, <3>5, KindsOfOptions, HostsPassed
    <3>9. DaemonKnown(e, i + 2, b)
      BY <3>3, <3>5, <3>6, <3>7, <3>8 DEF DaemonKnown
    <3> QED BY <3>2, <3>6, <3>9
  <2> QED BY <2>3, <2>4
<1>8. CASE e[i] # <<"--mode">> /\ IsWord(e[i], {"-a", "--allow"})
  <2>1. Len(e[i]) = 1 /\ IsWord(e[i], Takers)
    BY <1>8 DEF IsWord, Takers
  <2>2. /\ i \in AllowOptions(e) /\ i \in Taking(e) /\ value = ValueAt(e, i)
        /\ i \notin ModeOptions(e)
    BY <1>4, <1>6, <1>8, <2>1 DEF ModeOptions, AllowOptions
  <2>3. CASE value = << >>
    BY <1>3, <1>8, <2>2, <2>3 DEF DaemonRefuses
  <2>4. CASE value # << >>
    <3>1. PICK b : b = AllowHost(a, value)
      OBVIOUS
    <3>2. t = Reads(i + 2, b)
      BY <1>3, <1>8, <2>4, <3>1
    <3>3. value \in Seq(Letter)
      BY <1>1, <2>2, ValueType
    <3>4. /\ b \in DaemonArgs /\ b.mode = a.mode
          /\ b.hosts = Append(a.hosts, value)
      <4>1. a.hosts \in Seq(Seq(Letter))
        BY <1>5 DEF DaemonArgs
      <4>2. PICK more : more = Append(a.hosts, value)
        OBVIOUS
      <4>3. more \in Seq(Seq(Letter))
        BY <3>3, <4>1, <4>2
      <4>4. b = [a EXCEPT !.hosts = more]
        BY <3>1, <4>2 DEF AllowHost
      <4> QED BY <1>5, <4>2, <4>3, <4>4 DEF DaemonArgs
    <3>5. /\ i + 1 \in 1..Len(e) /\ i + 1 \notin Taking(e)
          /\ i + 1 \notin ModeOptions(e) /\ i + 1 \notin AllowOptions(e)
      BY <1>1, <2>2, <2>4, ArgumentTaken
    <3>6. i + 2 \in i + 1..Len(e) + 1 /\ i + 2 - 1 = i + 1
      BY <1>1, <3>5
    <3>7. OptionsKnown(e, ModeOptions(e), i + 2, Modes, <<"audit">>, b.mode)
      BY <1>1, <1>5, <2>2, <3>4, <3>5, KindsOfOptions, OptionsPassed
    <3>8. HostsKnown(e, i + 2, b.hosts)
      <4>1. a.hosts \in Seq(Seq(Letter))
        BY <1>5 DEF DaemonArgs
      <4> QED BY <1>1, <1>5, <2>2, <2>4, <3>4, <3>5, <4>1, HostAdded
    <3>9. DaemonKnown(e, i + 2, b)
      BY <3>4, <3>5, <3>6, <3>7, <3>8 DEF DaemonKnown
    <3> QED BY <3>2, <3>6, <3>9
  <2> QED BY <2>3, <2>4
<1>9. CASE e[i] # <<"--mode">> /\ ~IsWord(e[i], {"-a", "--allow"})
  <2>1. ~IsWord(e[i], Takers)
    <3>1. Len(e[i]) = 1 => e[i] = <<Head(e[i])>>
      BY <1>1
    <3> QED BY <1>9, <3>1 DEF IsWord, Takers
  <2>2. i \notin Taking(e) /\ i \notin ModeOptions(e) /\ i \notin AllowOptions(e)
    BY <1>1, <1>6, <2>1, KindsOfOptions
  <2>3. PICK b : b = IF IsWord(e[i], {"-v", "--verbose"})
                     THEN [a EXCEPT !.verbose = TRUE] ELSE a
    OBVIOUS
  <2>4. t = Reads(i + 1, b)
    BY <1>3, <1>9, <2>3
  <2>5. b \in DaemonArgs /\ b.mode = a.mode /\ b.hosts = a.hosts
    BY <1>5, <2>3 DEF DaemonArgs
  <2>6. i + 1 \in i + 1..Len(e) + 1 /\ i + 1 - 1 = i
    BY <1>1
  <2>7. OptionsKnown(e, ModeOptions(e), i + 1, Modes, <<"audit">>, b.mode)
    BY <1>1, <1>5, <2>2, <2>5, KindsOfOptions, OptionsPassed
  <2>8. HostsKnown(e, i + 1, b.hosts)
    BY <1>1, <1>5, <2>2, <2>5, HostsPassed
  <2>9. DaemonKnown(e, i + 1, b)
    BY <2>2, <2>5, <2>6, <2>7, <2>8 DEF DaemonKnown
  <2> QED BY <2>4, <2>6, <2>9
<1> QED BY <1>7, <1>8, <1>9

\* What the loop has after n turns.
DaemonCourse(e, n, s) ==
  \/ s = UsageExit /\ DaemonRefuses(e)
  \/ \E i \in 1..Len(e) + 1 : \E a :
       /\ s = Reads(i, a) /\ DaemonKnown(e, i, a)
       /\ i > n \/ i = Len(e) + 1

LEMMA DaemonBegins ==
  ASSUME NEW e \in Args
  PROVE  DaemonCourse(e, 0, Reads(1, DefaultDaemonArgs))
<1>1. PICK a : a = DefaultDaemonArgs
  OBVIOUS
<1>2. 1 \in 1..Len(e) + 1
  BY DEF Args
<1>3. a.mode = "audit" /\ a.hosts = << >> /\ a \in DaemonArgs
  BY <1>1 DEF DefaultDaemonArgs, DaemonArgs, Modes
<1>4. \A I \in SUBSET (1..Len(e)) : Upto(I, 1) = {}
  <2>1. \A j \in 1..Len(e) : ~(j < 1)
    BY DEF Args
  <2> QED BY <2>1 DEF Upto
<1>5. 1 - 1 \notin Taking(e)
  <2>1. 0 \notin 1..Len(e)
    BY DEF Args
  <2> QED BY <2>1, TakingIs
<1>6. OptionsKnown(e, ModeOptions(e), 1, Modes, <<"audit">>, a.mode)
  <2>1. Upto(ModeOptions(e), 1) = {}
    BY <1>4, KindsOfOptions
  <2> QED BY <1>3, <2>1 DEF OptionsKnown, LastOf
<1>7. HostsKnown(e, 1, a.hosts)
  <2>1. Upto(AllowOptions(e), 1) = {} /\ Cardinality({}) = 0
    BY <1>4, KindsOfOptions, FS_EmptySet
  <2> QED BY <1>3, <2>1 DEF HostsKnown
<1>8. DaemonKnown(e, 1, a)
  BY <1>3, <1>5, <1>6, <1>7 DEF DaemonKnown
<1> QED BY <1>1, <1>2, <1>8 DEF DaemonCourse

LEMMA DaemonCourseStep ==
  ASSUME NEW args \in Args, NEW e, e = Seen(args),
         NEW n \in 1..Len(args), NEW s, DaemonCourse(e, n - 1, s)
  PROVE  DaemonCourse(e, n, DaemonTurn(args, s))
<1>1. e \in Args /\ Len(e) \in Nat /\ n \in Nat
  BY SeenIs DEF Args
<1>2. CASE s = UsageExit /\ DaemonRefuses(e)
  <2>1. DaemonTurn(args, s) = s
    BY <1>2 DEF DaemonTurn, UsageExit, Fails
  <2> QED BY <1>2, <2>1 DEF DaemonCourse
<1>3. ASSUME NEW i \in 1..Len(e) + 1, NEW a,
             s = Reads(i, a), DaemonKnown(e, i, a),
             i > n - 1 \/ i = Len(e) + 1
      PROVE  DaemonCourse(e, n, DaemonTurn(args, s))
  <2>1. CASE i = Len(e) + 1
    <3>1. Shift(args, i) = << >>
      <4>1. Shift(args, i) = Shift(e, i) /\ DOMAIN e = 1..Len(e)
        BY <1>1, <2>1, SeenIs
      <4>2. i \notin DOMAIN e
        BY <1>1, <2>1, <4>1
      <4> QED BY <4>1, <4>2 DEF Shift
    <3>2. DaemonTurn(args, s) = s
      BY <1>3, <3>1 DEF DaemonTurn, Reads
    <3> QED BY <1>3, <2>1, <3>2 DEF DaemonCourse
  <2>2. CASE i # Len(e) + 1
    <3>1. i \in 1..Len(e)
      BY <1>1, <2>2
    <3>2. \/ DaemonTurn(args, s) = UsageExit /\ DaemonRefuses(e)
          \/ \E next \in i + 1..Len(e) + 1 : \E b :
               DaemonTurn(args, s) = Reads(next, b) /\ DaemonKnown(e, next, b)
      BY <1>3, <3>1, DaemonTurnKnows
    <3>3. \A next \in i + 1..Len(e) + 1 : next \in 1..Len(e) + 1 /\ next > n
      BY <1>1, <1>3, <2>2
    <3> QED BY <3>2, <3>3 DEF DaemonCourse
  <2> QED BY <2>1, <2>2
<1> QED BY <1>2, <1>3 DEF DaemonCourse

\* What the loop ends with.
LEMMA DaemonEnds ==
  ASSUME NEW args \in Args, NEW e, e = Seen(args), NEW s, s = DaemonLoop(args)
  PROVE  \/ s = UsageExit /\ DaemonRefuses(e)
         \/ \E a : s = Reads(Len(e) + 1, a) /\ DaemonKnown(e, Len(e) + 1, a)
<1>1. PICK f : /\ f[0] = Reads(1, DefaultDaemonArgs)
               /\ \A k \in 1..Len(args) : f[k] = DaemonTurn(args, f[k - 1])
               /\ s = f[Len(args)]
  BY DaemonLoopIs
<1>2. e \in Args /\ Len(e) \in 0..Len(args) /\ Len(args) \in Nat
  BY SeenIs DEF Args
<1> DEFINE J == {k \in 0..Len(args) : ~DaemonCourse(e, k, f[k])}
<1>3. J = {}
  <2> SUFFICES ASSUME J # {} PROVE FALSE
    OBVIOUS
  <2>1. PICK m : m \in J /\ \A k \in J : m <= k
    <3>1. J \subseteq Nat
      BY <1>2
    <3> HIDE DEF J
    <3> QED BY <3>1, LeastPosition
  <2>2. CASE m = 0
    BY <1>1, <1>2, <2>1, <2>2, DaemonBegins
  <2>3. CASE m # 0
    <3>1. m \in 1..Len(args) /\ m - 1 \in 0..Len(args) /\ ~(m <= m - 1)
      BY <1>2, <2>1, <2>3
    <3>2. DaemonCourse(e, m - 1, f[m - 1])
      BY <2>1, <3>1
    <3>3. DaemonCourse(e, m, f[m])
      BY <1>1, <3>1, <3>2, DaemonCourseStep
    <3> QED BY <2>1, <3>3
  <2> QED BY <2>2, <2>3
<1>4. Len(args) \in 0..Len(args)
  BY <1>2
<1>5. DaemonCourse(e, Len(args), s)
  BY <1>1, <1>3, <1>4
<1>6. \A i \in 1..Len(e) + 1 : i > Len(args) => i = Len(e) + 1
  BY <1>2
<1> QED BY <1>5, <1>6 DEF DaemonCourse

\* Every argument has been looked at when nothing is refused.
LEMMA DaemonAllKnown ==
  ASSUME NEW e \in Args, NEW a, DaemonKnown(e, Len(e) + 1, a)
  PROVE  /\ ~DaemonRefuses(e)
         /\ <<a.mode>> = LastOf(e, ModeOptions(e), <<"audit">>)
         /\ Len(a.hosts) = Cardinality(AllowOptions(e))
         /\ \A i \in AllowOptions(e) :
              a.hosts[Place(i, AllowOptions(e))] = ValueAt(e, i)
<1>1. \A I \in SUBSET (1..Len(e)) : Upto(I, Len(e) + 1) = I
  <2>1. \A j \in 1..Len(e) : j < Len(e) + 1
    BY DEF Args
  <2> QED BY <2>1 DEF Upto
<1>2. /\ Upto(ModeOptions(e), Len(e) + 1) = ModeOptions(e)
      /\ Upto(AllowOptions(e), Len(e) + 1) = AllowOptions(e)
  BY <1>1, KindsOfOptions
<1>3. /\ \A j \in ModeOptions(e) : IsWord(ValueAt(e, j), Modes)
      /\ <<a.mode>> = LastOf(e, ModeOptions(e), <<"audit">>)
  BY <1>2 DEF DaemonKnown, OptionsKnown
<1>4. /\ Len(a.hosts) = Cardinality(AllowOptions(e))
      /\ \A j \in AllowOptions(e) :
           /\ ValueAt(e, j) # << >>
           /\ a.hosts[Place(j, AllowOptions(e))] = ValueAt(e, j)
  BY <1>2 DEF DaemonKnown, HostsKnown
<1> QED BY <1>3, <1>4 DEF DaemonRefuses

LEMMA DaemonOfLine ==
  ASSUME daemon \in Args
  PROVE  DaemonMeansWhatItSays
<1>1. PICK e, s : e = Seen(daemon) /\ s = DaemonLoop(daemon)
  OBVIOUS
<1>2. e \in Args
  BY <1>1, SeenIs
<1>3. PICK parsed : parsed = ParseDaemon(daemon)
  OBVIOUS
<1>4. parsed = Outcome(s)
  BY <1>1, <1>3 DEF ParseDaemon
<1>5. CASE s = UsageExit /\ DaemonRefuses(e)
  <2>1. ~parsed.ok
    BY <1>4, <1>5 DEF Outcome, UsageExit, Fails
  <2> QED BY <1>1, <1>3, <1>5, <2>1 DEF DaemonMeansWhatItSays
<1>6. ASSUME NEW a, s = Reads(Len(e) + 1, a), DaemonKnown(e, Len(e) + 1, a)
      PROVE  DaemonMeansWhatItSays
  <2>1. parsed.ok /\ parsed.value = a
    BY <1>4, <1>6 DEF Outcome, Gives, Reads
  <2>2. /\ ~DaemonRefuses(e)
        /\ <<a.mode>> = LastOf(e, ModeOptions(e), <<"audit">>)
        /\ Len(a.hosts) = Cardinality(AllowOptions(e))
        /\ \A i \in AllowOptions(e) :
             a.hosts[Place(i, AllowOptions(e))] = ValueAt(e, i)
    BY <1>2, <1>6, DaemonAllKnown
  <2> QED BY <1>1, <1>3, <2>1, <2>2 DEF DaemonMeansWhatItSays
<1> QED BY <1>1, <1>5, <1>6, DaemonEnds

LEMMA DaemonAlways == DaemonSpec => [](daemon \in Args)
<1>1. daemon = << >> => daemon \in Args
  BY DEF Args
<1>2. daemon \in Args /\ [GiveDaemon]_daemon => (daemon \in Args)'
  <2>1. ASSUME NEW arg \in DaemonArguments PROVE arg \in Seq(Letter)
    <3>1. arg \in Seq(STRING)
      BY ArgumentsAssumption
    <3>2. \A k \in 1..Len(arg) : arg[k] \in Letter
      BY <3>1 DEF Letter
    <3>3. arg = [k \in 1..Len(arg) |-> arg[k]] /\ Len(arg) \in Nat
      BY <3>1
    <3> QED BY <3>2, <3>3
  <2>2. ASSUME daemon \in Seq(Seq(Letter)), NEW arg \in Seq(Letter)
        PROVE  Append(daemon, arg) \in Seq(Seq(Letter))
    BY <2>2
  <2> QED BY <2>1, <2>2 DEF Args, GiveDaemon
<1> QED BY <1>1, <1>2, PTL DEF DaemonSpec

\* README.md, "Daemon flags": the options of blastguardd mean the same in every
\* order, however many there are: the last --mode counts, every host is allowed
\* in the order given, and a missing or unknown value is refused (parseArgs,
\* daemon/args.cpp:56-114).
THEOREM DaemonUnderstood == DaemonSpec => []DaemonMeansWhatItSays
BY DaemonOfLine, DaemonAlways, PTL
=============================================================================
