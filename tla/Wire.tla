-------------------------------- MODULE Wire --------------------------------
(***************************************************************************)
(* The lines blastguardctl and blastguardd exchange (src/src/common/       *)
(* proto.cpp).  A text is a sequence of symbols: a symbol is a separator   *)
(* (space, newline, carriage return, colon) or a word without separators.  *)
(* Nothing in proto.cpp looks inside a word, except from_chars, which      *)
(* takes the number a word begins with.                                    *)
(***************************************************************************)
EXTENDS Naturals, Sequences, SequencesExt

CONSTANTS
  Word,      \* words that may occur in a line besides those of the protocol
  Decimal,   \* std::format of a pid: from pids to the words that spell them
  FromChars  \* std::from_chars: from words to the number they begin with

SP == " "
NL == "\n"
CR == "\r"
Separators == {SP, NL, CR, ":"}

Keywords ==
  {"PING", "START-PHASE", "END-PHASE", "REPORT", "SHUTDOWN", "PONG", "OK",
   "ERR", "MAX_SEVERITY", "none", "low", "medium", "high", "markdown", "json"}

Symbol == Separators \cup Keywords \cup Word
Text   == Seq(Symbol)

\* A number is read from a word only: from_chars skips no separator.  What it
\* reads std::format can spell, and reads again.
ASSUME WireAssumption ==
  /\ Word \cap Separators = {}
  /\ DOMAIN Decimal \subseteq Nat
  /\ DOMAIN FromChars \subseteq Word
  /\ \A n \in DOMAIN Decimal :
       Decimal[n] \in DOMAIN FromChars /\ FromChars[Decimal[n]] = n
  /\ \A w \in DOMAIN FromChars : FromChars[w] \in DOMAIN Decimal

\* Severities by their position in severity_table, which is their order.
SeverityWords == <<"none", "low", "medium", "high">>
Formats == {"markdown", "json"}

SeverityToString(sev) == SeverityWords[sev + 1]

\* severityFromString(w).value_or(Severity::None)
SeverityFromWord(w) ==
  LET i == SelectInSeq(SeverityWords, LAMBDA x : x = w)
  IN  IF i = 0 THEN 0 ELSE i - 1

Fails == [ok |-> FALSE]
Gives(v) == [ok |-> TRUE, value |-> v]

\* The position of the first c in text, 0 if there is none (npos).
Find(text, c) == SelectInSeq(text, LAMBDA x : x = c)
Before(text, i) == IF i = 0 THEN text ELSE SubSeq(text, 1, i - 1)
After(text, i) == IF i = 0 THEN << >> ELSE SubSeq(text, i + 1, Len(text))

\* Every leading space is dropped.
Stripped(text) ==
  LET i == SelectInSeq(text, LAMBDA x : x # SP)
  IN  IF i = 0 THEN << >> ELSE SubSeq(text, i, Len(text))

Trimmed(text) ==
  SubSeq(text, 1, SelectLastInSeq(text, LAMBDA x : x \notin {NL, CR}))

\* nextToken cuts at one space: two in a row have an empty token between.
Token1(text) == Before(text, Find(text, SP))
Rest(text)   == After(text, Find(text, SP))

\* What readLine makes of a line that has been sent.
Received(sent) == Before(sent, Find(sent, NL))

-----------------------------------------------------------------------------
(* Requests. *)

Request ==
  [type : {"ping", "end-phase", "shutdown"}]
    \cup [type : {"start-phase"}, pid : DOMAIN Decimal, phase : Text]
    \cup [type : {"report"}, format : Formats]

EncodeRequest(r) ==
  CASE r.type = "ping"        -> <<"PING">>
    [] r.type = "start-phase" ->
         <<"START-PHASE", SP, Decimal[r.pid], SP>> \o r.phase
    [] r.type = "end-phase"   -> <<"END-PHASE">>
    [] r.type = "report"      -> <<"REPORT", SP, r.format>>
    [] r.type = "shutdown"    -> <<"SHUTDOWN">>

PidOf(text) ==
  IF text # << >> /\ Head(text) \in DOMAIN FromChars
  THEN FromChars[Head(text)] ELSE 0

\* Mutant of DecodeStart: the phase is the next token.
DecodeStartToken(args) ==
  IF PidOf(Token1(args)) = 0 \/ Rest(args) = << >> THEN Fails
  ELSE Gives([type |-> "start-phase", pid |-> PidOf(Token1(args)),
              phase |-> Token1(Rest(args))])

\* The phase is all that follows the pid and one space.
DecodeStart(args) ==
  IF PidOf(Token1(args)) = 0 \/ Rest(args) = << >> THEN Fails
  ELSE Gives([type |-> "start-phase", pid |-> PidOf(Token1(args)),
              phase |-> Rest(args)])

DecodeReport(args) ==
  IF args = << >> THEN Gives([type |-> "report", format |-> "markdown"])
  ELSE IF Len(args) = 1 /\ Head(args) \in Formats
  THEN Gives([type |-> "report", format |-> Head(args)])
  ELSE Fails

\* What follows PING, END-PHASE and SHUTDOWN is not looked at.
DecodeRequest(line) ==
  LET cmd == Token1(line)
  IN  CASE cmd = <<"PING">>        -> Gives([type |-> "ping"])
        [] cmd = <<"END-PHASE">>   -> Gives([type |-> "end-phase"])
        [] cmd = <<"SHUTDOWN">>    -> Gives([type |-> "shutdown"])
        [] cmd = <<"START-PHASE">> -> DecodeStart(Rest(line))
        [] cmd = <<"REPORT">>      -> DecodeReport(Rest(line))
        [] OTHER                   -> Fails
-----------------------------------------------------------------------------
(* Responses: a success carries what the client prints of it. *)

Response ==
  [type : {"pong", "ok"}]
    \cup [type : {"error"}, reason : Text]
    \cup [type : {"report"}, severity : 0..3, body : Text]

EncodeError(reason) ==
  IF reason = << >> THEN <<"ERR">> ELSE <<"ERR", SP>> \o reason

EncodeResponse(r) ==
  CASE r.type = "pong"   -> <<"PONG">>
    [] r.type = "ok"     -> <<"OK">>
    [] r.type = "error"  -> EncodeError(r.reason)
    [] r.type = "report" ->
         <<"MAX_SEVERITY", ":", SP, SeverityToString(r.severity), NL>> \o r.body

\* Mutant of IsError: any reply that begins with the three letters.
IsErrorAnywhere(raw) == \E i \in DOMAIN raw : raw[i] = "ERR"

IsError(raw) ==
  LET first == Before(raw, Find(raw, NL))
  IN  first = <<"ERR">> \/ IsPrefix(<<"ERR", SP>>, first)

DecodeError(raw) ==
  LET reason == Stripped(Tail(Before(raw, Find(raw, NL))))
  IN  [type |-> "error",
       reason |-> IF reason = << >> THEN <<"request", SP, "rejected">>
                  ELSE reason]

\* What is between the first colon and the newline, leading spaces dropped.
HeaderSeverity(raw, colon, nl) ==
  LET k == SelectInSubSeq(raw, colon + 1, nl - 1, LAMBDA x : x # SP)
  IN  IF k # 0 /\ k = nl - 1 THEN SeverityFromWord(raw[k]) ELSE 0

\* Mutant of DecodeHeader: the severity counts only with a body to it.
DecodeHeaderWithBody(raw) ==
  LET nl    == Find(raw, NL)
      colon == Find(raw, ":")
  IN  IF colon \notin 1..nl THEN Fails
      ELSE Gives([type     |-> "report",
                  severity |-> IF nl = Len(raw) THEN 0
                               ELSE HeaderSeverity(raw, colon, nl),
                  body     |-> After(raw, nl)])

\* No newline, or no colon before it, and the reply is malformed.
DecodeHeader(raw) ==
  LET nl    == Find(raw, NL)
      colon == Find(raw, ":")
  IN  IF colon \notin 1..nl THEN Fails
      ELSE Gives([type     |-> "report",
                  severity |-> HeaderSeverity(raw, colon, nl),
                  body     |-> After(raw, nl)])

\* sendCommand: an empty reply, an error, then what the request expects.
DecodeReply(type, raw) ==
  IF raw = << >>
    THEN [type |-> "error", reason |-> <<"no response from daemon">>]
  ELSE IF IsError(raw) THEN DecodeError(raw)
  ELSE LET d == CASE type = "report" -> DecodeHeader(raw)
                  [] type = "ping"   -> IF Trimmed(raw) = <<"PONG">>
                                        THEN Gives([type |-> "pong"]) ELSE Fails
                  [] OTHER           -> IF Trimmed(raw) = <<"OK">>
                                        THEN Gives([type |-> "ok"]) ELSE Fails
       IN  IF d.ok THEN d.value
           ELSE [type |-> "error",
                 reason |-> <<"malformed response from daemon">>]
=============================================================================
