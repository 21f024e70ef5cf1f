------------------------------- MODULE IpcProofs -------------------------------
(***************************************************************************)
(* Proofs about module Ipc, for any number of clients, any commands, any   *)
(* limits of the buffers and any pieces a line or a reply comes in.        *)
(***************************************************************************)
EXTENDS Ipc, WireProofs

Served(c) == conn = c /\ pc \in {"read", "handle", "write"}
Queued(c) == c \in ToSet(queue)

\* A text is s, then t, then u.
InPieces(w, s, t, u) ==
  /\ Len(w) = Len(s) + Len(t) + Len(u)
  /\ \A i \in 1..Len(s) : w[i] = s[i]
  /\ \A i \in 1..Len(t) : w[Len(s) + i] = t[i]
  /\ \A i \in 1..Len(u) : w[Len(s) + Len(t) + i] = u[i]

Begins(s, w) ==
  /\ Len(s) <= Len(w)
  /\ \A i \in 1..Len(s) : s[i] = w[i]

Sent(c) == Append(EncodeRequest(cmd[c].req), NL)

\* Nothing has come of the command yet.
Unanswered(c) ==
  outcome[c] = Svc!Nothing /\ got[c] = << >> /\ down[c] = << >>

\* The client goes on exactly until it is closed, with a command that makes
\* sense, and before it connects the socket has seen nothing of it.
Life(c) ==
  /\ exit[c] = "none" <=> at[c] # "closed"
  /\ IF at[c] = "idle" THEN cmd[c] = Svc!NoCommand ELSE cmd[c] \in Command
  /\ at[c] \in {"connected", "waiting"} \/ Queued(c) \/ Served(c)
       => ~Senseless(cmd[c])

Fresh(c) ==
  at[c] \in {"idle", "start"} =>
    /\ Unanswered(c) /\ up[c] = << >> /\ ~hungup[c]
    /\ ~Queued(c) /\ conn # c

\* Its line is on the way and the daemon has read some of it; or it never
\* wrote one.
Asking(c, read) ==
  /\ Unanswered(c) /\ ~hungup[c]
  /\ \/ /\ read = << >> /\ up[c] = << >>
        /\ at[c] = "connected" \/ exit[c] = "killed"
     \/ /\ at[c] = "waiting" \/ exit[c] = "killed"
        /\ InPieces(Sent(c), read, up[c], << >>)
        /\ \A i \in 1..Len(read) : read[i] # NL

InQueue(c) == Queued(c) => Asking(c, << >>)
Read(c)    == conn = c /\ pc = "read" => Asking(c, line)

\* readLine has returned what was sent, up to the newline or max_line.
AsSent(c) ==
  /\ Len(line) < Len(Sent(c))
  /\ \A i \in 1..Len(line) : line[i] = Sent(c)[i] /\ line[i] # NL
  /\ Sent(c)[Len(line) + 1] = NL \/ Len(line) >= MaxLine

Heard(c) ==
  conn = c /\ pc = "handle" =>
    /\ Unanswered(c) /\ ~hungup[c]
    /\ \/ line = << >> /\ exit[c] = "killed"
       \/ (at[c] = "waiting" \/ exit[c] = "killed") /\ AsSent(c)

\* The reply is in pieces: read, on the way, still to be written.
Replied(c) ==
  conn = c /\ pc = "write" =>
    /\ outcome[c] # Svc!Nothing /\ ~hungup[c]
    /\ at[c] \in {"waiting", "closed"} /\ exit[c] # "usage"
    /\ InPieces(Wired(outcome[c]), got[c], down[c], out)
    /\ exit[c] \in {"ok", "failed"} => Len(got[c]) >= ReadLimit

Left(c) ==
  hungup[c] /\ at[c] \in {"connected", "waiting"} =>
    \/ Unanswered(c) /\ ~Alive
    \/ /\ outcome[c] # Svc!Nothing /\ at[c] = "waiting"
       /\ InPieces(Wired(outcome[c]), got[c], down[c], << >>)

\* What an invocation that has ended makes known is what came of it.
Settled(c) ==
  exit[c] \in {"ok", "failed"} =>
    \/ outcome[c] = Svc!Nothing /\ ~Alive /\ exit[c] = "failed"
    \/ /\ outcome[c] # Svc!Nothing
       /\ Begins(got[c], Wired(outcome[c]))
       /\ Len(got[c]) = Len(Wired(outcome[c])) \/ Len(got[c]) >= ReadLimit
       /\ exit[c] = ExitCode(cmd[c], Reply(c))

\* Nobody waits for a daemon that has forgotten it.
Followed(c) ==
  at[c] \in {"connected", "waiting"} => Queued(c) \/ Served(c) \/ hungup[c]

\* The answer suits the question.
Suits(type, resp) ==
  /\ resp.type = "report" => type = "report"
  /\ resp.type = "pong" => type = "ping"
  /\ resp.type = "ok" => type \notin {"ping", "report"}
  /\ resp.type = "error" => resp = Svc!Refused

Course(c) ==
  /\ Life(c) /\ Fresh(c) /\ InQueue(c) /\ Read(c) /\ Heard(c) /\ Replied(c)
  /\ Left(c) /\ Settled(c) /\ Followed(c)
  /\ Suits(cmd[c].req.type, outcome[c])

\* Who told the daemon to leave.
Told(c) == cmd[c].req.type = "shutdown" /\ outcome[c].type = "ok"
ToldToLeave == leaving => \E c \in Client : Told(c)

IpcInv ==
  /\ TypeOK
  /\ \A c \in Client : Course(c)
  /\ ToldToLeave
-----------------------------------------------------------------------------
(* A text in pieces. *)

\* It begins with nothing read.
LEMMA PiecesStart ==
  ASSUME NEW w \in Text
  PROVE  InPieces(w, << >>, w, << >>) /\ InPieces(w, << >>, << >>, w)
<1>1. Len(w) \in Nat
  BY DEF Text
<1> QED BY <1>1 DEF InPieces

\* n symbols move from the middle to what has been read.
LEMMA PiecesRead ==
  ASSUME NEW w \in Text, NEW s \in Text, NEW t \in Text, NEW u \in Text,
         InPieces(w, s, t, u), NEW n \in 1..Len(t)
  PROVE  InPieces(w, s \o SubSeq(t, 1, n), SubSeq(t, n + 1, Len(t)), u)
<1>1. PICK a, x, b : /\ x = SubSeq(t, 1, n) /\ a = s \o x
                     /\ b = SubSeq(t, n + 1, Len(t))
  OBVIOUS
<1>2. Len(s) \in Nat /\ Len(t) \in Nat /\ Len(u) \in Nat /\ n \in Nat
  BY DEF Text
<1>3. x \in Text /\ Len(x) = n /\ \A i \in 1..n : x[i] = t[i]
  BY <1>1, <1>2 DEF Text
<1>4. /\ a \in Text /\ Len(a) = Len(s) + n
      /\ \A i \in 1..Len(s) : a[i] = s[i]
      /\ \A i \in 1..n : a[Len(s) + i] = x[i]
  BY <1>1, <1>2, <1>3 DEF Text
<1>5. /\ b \in Text /\ Len(b) = Len(t) - n
      /\ \A i \in 1..Len(b) : b[i] = t[n + i]
  BY <1>1, <1>2 DEF Text
<1>6. /\ Len(w) = Len(s) + Len(t) + Len(u)
      /\ \A i \in 1..Len(s) : w[i] = s[i]
      /\ \A i \in 1..Len(t) : w[Len(s) + i] = t[i]
      /\ \A i \in 1..Len(u) : w[Len(s) + Len(t) + i] = u[i]
  BY DEF InPieces
<1>7. ASSUME NEW i \in 1..Len(a) PROVE w[i] = a[i]
  <2>1. CASE i <= Len(s)
    BY <1>2, <1>4, <1>6, <2>1
  <2>2. CASE ~(i <= Len(s))
    <3>1. PICK j \in 1..n : i = Len(s) + j
      <4>1. i - Len(s) \in 1..n /\ i = Len(s) + (i - Len(s))
        BY <1>2, <1>4, <2>2
      <4> QED BY <4>1
    <3>2. j \in 1..Len(t)
      BY <1>2, <3>1
    <3> QED BY <1>3, <1>4, <1>6, <3>1, <3>2
  <2> QED BY <2>1, <2>2
<1>8. ASSUME NEW i \in 1..Len(b) PROVE w[Len(a) + i] = b[i]
  <2>1. n + i \in 1..Len(t) /\ Len(a) + i = Len(s) + (n + i)
    BY <1>2, <1>4, <1>5
  <2> QED BY <1>5, <1>6, <2>1
<1>9. Len(w) = Len(a) + Len(b) + Len(u) /\ Len(a) + Len(b) = Len(s) + Len(t)
  BY <1>2, <1>4, <1>5, <1>6
<1> QED BY <1>1, <1>6, <1>7, <1>8, <1>9 DEF InPieces

\* n symbols move from what is still to be written to the middle.
LEMMA PiecesWritten ==
  ASSUME NEW w \in Text, NEW s \in Text, NEW t \in Text, NEW u \in Text,
         InPieces(w, s, t, u), NEW n \in 1..Len(u)
  PROVE  InPieces(w, s, t \o SubSeq(u, 1, n), SubSeq(u, n + 1, Len(u)))
<1>1. PICK a, x, b : /\ x = SubSeq(u, 1, n) /\ a = t \o x
                     /\ b = SubSeq(u, n + 1, Len(u))
  OBVIOUS
<1>2. Len(s) \in Nat /\ Len(t) \in Nat /\ Len(u) \in Nat /\ n \in Nat
  BY DEF Text
<1>3. x \in Text /\ Len(x) = n /\ \A i \in 1..n : x[i] = u[i]
  BY <1>1, <1>2 DEF Text
<1>4. /\ a \in Text /\ Len(a) = Len(t) + n
      /\ \A i \in 1..Len(t) : a[i] = t[i]
      /\ \A i \in 1..n : a[Len(t) + i] = x[i]
  BY <1>1, <1>2, <1>3 DEF Text
<1>5. /\ b \in Text /\ Len(b) = Len(u) - n
      /\ \A i \in 1..Len(b) : b[i] = u[n + i]
  BY <1>1, <1>2 DEF Text
<1>6. /\ Len(w) = Len(s) + Len(t) + Len(u)
      /\ \A i \in 1..Len(s) : w[i] = s[i]
      /\ \A i \in 1..Len(t) : w[Len(s) + i] = t[i]
      /\ \A i \in 1..Len(u) : w[Len(s) + Len(t) + i] = u[i]
  BY DEF InPieces
<1>7. ASSUME NEW i \in 1..Len(a) PROVE w[Len(s) + i] = a[i]
  <2>1. CASE i <= Len(t)
    BY <1>2, <1>4, <1>6, <2>1
  <2>2. CASE ~(i <= Len(t))
    <3>1. PICK j \in 1..n : i = Len(t) + j
      <4>1. i - Len(t) \in 1..n /\ i = Len(t) + (i - Len(t))
        BY <1>2, <1>4, <2>2
      <4> QED BY <4>1
    <3>2. j \in 1..Len(u) /\ Len(s) + i = Len(s) + Len(t) + j
      BY <1>2, <3>1
    <3> QED BY <1>3, <1>4, <1>6, <3>1, <3>2
  <2> QED BY <2>1, <2>2
<1>8. ASSUME NEW i \in 1..Len(b) PROVE w[Len(s) + Len(a) + i] = b[i]
  <2>1. n + i \in 1..Len(u) /\ Len(s) + Len(a) + i = Len(s) + Len(t) + (n + i)
    BY <1>2, <1>4, <1>5
  <2> QED BY <1>5, <1>6, <2>1
<1>9. Len(w) = Len(s) + Len(a) + Len(b)
  BY <1>2, <1>4, <1>5, <1>6
<1> QED BY <1>1, <1>6, <1>7, <1>8, <1>9 DEF InPieces

\* One symbol moves: the first in the middle is the next of the whole.
LEMMA PiecesNext ==
  ASSUME NEW w \in Text, NEW s \in Text, NEW t \in Text, NEW u \in Text,
         InPieces(w, s, t, u), t # << >>
  PROVE  /\ InPieces(w, Append(s, Head(t)), Tail(t), u)
         /\ Len(s) < Len(w) /\ w[Len(s) + 1] = Head(t) /\ Head(t) \in Symbol
         /\ Tail(t) \in Text /\ Append(s, Head(t)) \in Text
         /\ Len(Append(s, Head(t))) = Len(s) + 1
<1>1. PICK a, b, h : a = Append(s, h) /\ b = Tail(t) /\ h = Head(t)
  OBVIOUS
<1>2. /\ Len(s) \in Nat /\ Len(t) \in Nat /\ Len(u) \in Nat /\ Len(t) >= 1
  BY DEF Text
<1>3. h = t[1] /\ h \in Symbol
  BY <1>1, <1>2 DEF Text
<1>4. /\ a \in Text /\ Len(a) = Len(s) + 1 /\ a[Len(s) + 1] = h
      /\ \A i \in 1..Len(s) : a[i] = s[i]
  BY <1>1, <1>2, <1>3 DEF Text
<1>5. /\ b \in Text /\ Len(b) = Len(t) - 1
      /\ \A i \in 1..Len(b) : b[i] = t[i + 1]
  BY <1>1, <1>2 DEF Text
<1>6. /\ Len(w) = Len(s) + Len(t) + Len(u)
      /\ \A i \in 1..Len(s) : w[i] = s[i]
      /\ \A i \in 1..Len(t) : w[Len(s) + i] = t[i]
      /\ \A i \in 1..Len(u) : w[Len(s) + Len(t) + i] = u[i]
  BY DEF InPieces
<1>7. ASSUME NEW i \in 1..Len(a) PROVE w[i] = a[i]
  <2>1. CASE i <= Len(s)
    BY <1>2, <1>4, <1>6, <2>1
  <2>2. CASE i = Len(s) + 1
    BY <1>2, <1>3, <1>4, <1>6, <2>2
  <2> QED BY <1>2, <1>4, <2>1, <2>2
<1>8. ASSUME NEW i \in 1..Len(b) PROVE w[Len(a) + i] = b[i]
  <2>1. i + 1 \in 1..Len(t) /\ Len(a) + i = Len(s) + (i + 1)
    BY <1>2, <1>4, <1>5
  <2> QED BY <1>5, <1>6, <2>1
<1>9. Len(w) = Len(a) + Len(b) + Len(u) /\ Len(a) + Len(b) = Len(s) + Len(t)
  BY <1>2, <1>4, <1>5, <1>6
<1>10. InPieces(w, a, b, u)
  BY <1>6, <1>7, <1>8, <1>9 DEF InPieces
<1>11. Len(s) < Len(w) /\ w[Len(s) + 1] = h
  BY <1>2, <1>3, <1>6
<1> QED BY <1>1, <1>3, <1>4, <1>5, <1>10, <1>11

\* What has been read is how the whole begins; when nothing is left, it is all.
LEMMA PiecesBegin ==
  ASSUME NEW w \in Text, NEW s \in Text, NEW t \in Text, NEW u \in Text,
         InPieces(w, s, t, u)
  PROVE  /\ Begins(s, w)
         /\ t = << >> /\ u = << >> => Len(s) = Len(w)
         /\ Len(w) = Len(s) + Len(t) + Len(u)
<1>1. Len(s) \in Nat /\ Len(t) \in Nat /\ Len(u) \in Nat
  BY DEF Text
<1>2. t = << >> => Len(t) = 0
  OBVIOUS
<1>3. u = << >> => Len(u) = 0
  OBVIOUS
<1> QED BY <1>1, <1>2, <1>3 DEF InPieces, Begins

LEMMA BeginsWhole ==
  ASSUME NEW w \in Text, NEW s \in Text, Begins(s, w), Len(s) = Len(w)
  PROVE  s = w
<1>1. \A i \in 1..Len(s) : s[i] = w[i]
  BY DEF Begins
<1> QED BY <1>1, SeqEqual DEF Text
-----------------------------------------------------------------------------
(* Lines and replies, whole or cut. *)

LEMMA RequestEncoded ==
  ASSUME NEW r \in Request, NEW e, e = EncodeRequest(r)
  PROVE  /\ e \in Text /\ Len(e) >= 1
         /\ r.type = "ping" => e[1] = "PING"
         /\ r.type = "start-phase" => e[1] = "START-PHASE"
         /\ r.type = "end-phase" => e[1] = "END-PHASE"
         /\ r.type = "report" => e[1] = "REPORT"
         /\ r.type = "shutdown" => e[1] = "SHUTDOWN"
<1>1. SP \in Symbol /\ Keywords \subseteq Symbol
  BY WordsAreSymbols DEF Separators
<1>2. ASSUME NEW w \in Symbol, e = <<w>>
      PROVE  e \in Text /\ Len(e) >= 1 /\ e[1] = w
  BY <1>2 DEF Text
<1>3. CASE r.type = "ping"
  BY <1>1, <1>2, <1>3 DEF EncodeRequest, Keywords
<1>4. CASE r.type = "end-phase"
  BY <1>1, <1>2, <1>4 DEF EncodeRequest, Keywords
<1>5. CASE r.type = "shutdown"
  BY <1>1, <1>2, <1>5 DEF EncodeRequest, Keywords
<1>6. CASE r.type = "report"
  <2>1. r.format \in Symbol
    BY <1>1, <1>6 DEF Request, Formats, Keywords
  <2>2. PICK k, f : k = "REPORT" /\ f = r.format
    OBVIOUS
  <2>3. k \in Symbol /\ f \in Symbol
    BY <1>1, <2>1, <2>2 DEF Keywords
  <2>4. e = <<k, SP, f>>
    BY <1>6, <2>2 DEF EncodeRequest
  <2>5. e \in Text /\ Len(e) >= 1 /\ e[1] = k
    BY <1>1, <2>3, <2>4 DEF Text
  <2> QED BY <1>6, <2>2, <2>5
<1>7. CASE r.type = "start-phase"
  <2>1. r.pid \in DOMAIN Decimal /\ r.phase \in Text
    BY <1>7 DEF Request
  <2>2. PICK k, w, x : k = "START-PHASE" /\ w = Decimal[r.pid] /\ x = r.phase
    OBVIOUS
  <2>3. k \in Symbol /\ w \in Symbol /\ x \in Text
    BY <1>1, <2>1, <2>2, WordsAreSymbols DEF Keywords
  <2>4. PICK h : h = <<k, SP, w, SP>>
    OBVIOUS
  <2>5. h \in Text /\ Len(h) = 4 /\ h[1] = k
    BY <1>1, <2>3, <2>4 DEF Text
  <2>6. e = h \o x
    BY <1>7, <2>2, <2>4 DEF EncodeRequest
  <2>7. h \in Text
    BY <2>5
  <2>8. /\ e \in Text /\ Len(e) = Len(h) + Len(x) /\ Len(x) \in Nat
        /\ \A i \in 1..Len(h) : e[i] = h[i]
    BY <2>3, <2>6, <2>7 DEF Text
  <2> QED BY <1>7, <2>2, <2>5, <2>8
<1> QED BY <1>3, <1>4, <1>5, <1>6, <1>7 DEF Request

\* The first word of a line is its first symbol.
LEMMA TokenFirst ==
  ASSUME NEW x \in Text, NEW k, Token1(x) = <<k>>
  PROVE  x # << >> /\ x[1] = k
<1>1. PICK f, t : f = Find(x, SP) /\ t = Before(x, f)
  OBVIOUS
<1>2. t = <<k>> /\ Len(t) = 1 /\ t[1] = k
  BY <1>1 DEF Token1
<1>3. f \in 0..Len(x) /\ Len(x) \in Nat
  BY <1>1, FindFirst DEF Text
<1>4. CASE f = 0
  BY <1>1, <1>2, <1>4 DEF Before
<1>5. CASE f # 0
  <2>1. t = SubSeq(x, 1, f - 1)
    BY <1>1, <1>5 DEF Before
  <2>2. Len(t) = f - 1
    BY <1>3, <1>5, <2>1 DEF Text
  <2>3. t[1] = x[1] /\ Len(x) >= 2
    BY <1>2, <1>3, <2>1, <2>2 DEF Text
  <2> QED BY <1>2, <2>3
<1> QED BY <1>4, <1>5

\* Whatever is taken for a request is one.
LEMMA DecodedType ==
  ASSUME NEW x \in Text, NEW d, d = DecodeRequest(x), d.ok
  PROVE  /\ d.value \in Request /\ x # << >>
         /\ x[1] = "PING" => d.value.type = "ping"
         /\ x[1] = "START-PHASE" => d.value.type = "start-phase"
         /\ x[1] = "END-PHASE" => d.value.type = "end-phase"
         /\ x[1] = "REPORT" => d.value.type = "report"
         /\ x[1] = "SHUTDOWN" => d.value.type = "shutdown"
<1>1. PICK w, args : w = Token1(x) /\ args = Rest(x)
  OBVIOUS
<1>2. CASE w = <<"PING">>
  <2>1. d.value = [type |-> "ping"]
    BY <1>1, <1>2 DEF DecodeRequest, Gives
  <2>2. d.value \in Request /\ d.value.type = "ping"
    BY <2>1 DEF Request
  <2>3. x # << >> /\ x[1] = "PING"
    BY <1>1, <1>2, TokenFirst
  <2> QED BY <2>2, <2>3
<1>3. CASE w = <<"END-PHASE">>
  <2>1. d.value = [type |-> "end-phase"]
    BY <1>1, <1>3 DEF DecodeRequest, Gives
  <2>2. d.value \in Request /\ d.value.type = "end-phase"
    BY <2>1 DEF Request
  <2>3. x # << >> /\ x[1] = "END-PHASE"
    BY <1>1, <1>3, TokenFirst
  <2> QED BY <2>2, <2>3
<1>4. CASE w = <<"SHUTDOWN">>
  <2>1. d.value = [type |-> "shutdown"]
    BY <1>1, <1>4 DEF DecodeRequest, Gives
  <2>2. d.value \in Request /\ d.value.type = "shutdown"
    BY <2>1 DEF Request
  <2>3. x # << >> /\ x[1] = "SHUTDOWN"
    BY <1>1, <1>4, TokenFirst
  <2> QED BY <2>2, <2>3
<1>5. CASE w = <<"START-PHASE">>
  <2>1. d = DecodeStart(args)
    BY <1>1, <1>5 DEF DecodeRequest
  <2>2. PICK pid, y : pid = PidOf(Token1(args)) /\ y = Rest(args)
    OBVIOUS
  <2>3. /\ pid # 0
        /\ d.value = [type |-> "start-phase", pid |-> pid, phase |-> y]
    BY <2>1, <2>2 DEF DecodeStart, Fails, Gives
  <2>4. pid \in DOMAIN Decimal
    BY <2>2, <2>3, WireAssumption DEF PidOf
  <2>5. y \in Text
    BY <1>1, <2>2, RestIsText
  <2>6. d.value \in Request /\ d.value.type = "start-phase"
    BY <2>3, <2>4, <2>5 DEF Request
  <2>7. x # << >> /\ x[1] = "START-PHASE"
    BY <1>1, <1>5, TokenFirst
  <2> QED BY <2>6, <2>7
<1>6. CASE w = <<"REPORT">>
  <2>1. d = DecodeReport(args)
    BY <1>1, <1>6 DEF DecodeRequest
  <2>2. \E f \in Formats : d.value = [type |-> "report", format |-> f]
    BY <2>1 DEF DecodeReport, Fails, Gives, Formats
  <2>3. d.value \in Request /\ d.value.type = "report"
    BY <2>2 DEF Request
  <2>4. x # << >> /\ x[1] = "REPORT"
    BY <1>1, <1>6, TokenFirst
  <2> QED BY <2>3, <2>4
<1> QED BY <1>1, <1>2, <1>3, <1>4, <1>5, <1>6 DEF DecodeRequest, Fails

\* A line that has been cut is never taken for another kind of request.
LEMMA CutLineKeepsType ==
  ASSUME NEW r \in Request, NEW w, w = Append(EncodeRequest(r), NL),
         NEW x \in Text, Len(x) < Len(w), \A i \in 1..Len(x) : x[i] = w[i],
         DecodeRequest(x).ok
  PROVE  DecodeRequest(x).value.type = r.type
<1>1. PICK e : e = EncodeRequest(r)
  OBVIOUS
<1>2. e \in Text /\ Len(e) >= 1
  BY <1>1, RequestEncoded
<1>3. Len(e) \in Nat /\ w[1] = e[1]
  BY <1>1, <1>2, WordsAreSymbols DEF Text, Separators
<1>4. x # << >>
  BY DecodedType
<1>5. Len(x) \in Nat /\ Len(x) >= 1
  BY <1>4 DEF Text
<1>6. x[1] = e[1]
  BY <1>3, <1>5
<1>7. r.type \in {"ping", "start-phase", "end-phase", "report", "shutdown"}
  BY DEF Request
<1> QED BY <1>1, <1>6, <1>7, RequestEncoded, DecodedType

\* A request that makes sense is read as it was sent.
LEMMA RequestDecoded ==
  ASSUME NEW k \in Command, ~Senseless(k)
  PROVE  DecodeRequest(EncodeRequest(k.req)) = Gives(k.req)
<1>1. PICK r : r = k.req
  OBVIOUS
<1>2. r \in Request
  BY <1>1, IpcAssumption
<1>3. Keywords \subseteq Symbol \ {SP} /\ SP \in Symbol
  BY WordsAreSymbols DEF Separators
<1>4. ASSUME NEW w \in {"PING", "END-PHASE", "SHUTDOWN"}
      PROVE  Token1(<<w>>) = <<w>>
  BY <1>3, TokenAlone DEF Keywords
<1>5. CASE r.type = "ping"
  <2>1. r = [type |-> "ping"]
    BY <1>2, <1>5 DEF Request
  <2> QED BY <1>1, <1>4, <2>1 DEF DecodeRequest, EncodeRequest
<1>6. CASE r.type = "end-phase"
  <2>1. r = [type |-> "end-phase"]
    BY <1>2, <1>6 DEF Request
  <2> QED BY <1>1, <1>4, <2>1 DEF DecodeRequest, EncodeRequest
<1>7. CASE r.type = "shutdown"
  <2>1. r = [type |-> "shutdown"]
    BY <1>2, <1>7 DEF Request
  <2> QED BY <1>1, <1>4, <2>1 DEF DecodeRequest, EncodeRequest
<1>8. CASE r.type = "report"
  <2>1. PICK f \in Formats : r = [type |-> "report", format |-> f]
    BY <1>2, <1>8 DEF Request
  <2>2. PICK arg, x : arg = <<f>> /\ x = <<"REPORT", SP>> \o arg
    OBVIOUS
  <2>3. f \in Symbol /\ "REPORT" \in Symbol \ {SP}
    BY <1>3 DEF Keywords, Formats
  <2>4. arg \in Text
    BY <2>2, <2>3 DEF Text
  <2>5. Token1(x) = <<"REPORT">> /\ Rest(x) = arg
    BY <2>2, <2>3, <2>4, TokenOfLine
  <2>6. DecodeRequest(x) = DecodeReport(arg)
    BY <2>5 DEF DecodeRequest
  <2>7. DecodeReport(arg) = Gives(r)
    BY <2>1, <2>2 DEF DecodeReport
  <2>8. x = <<"REPORT", SP, f>>
    <3>1. PICK l : l = <<"REPORT", SP, f>>
      OBVIOUS
    <3>2. l \in Text /\ x \in Text /\ Len(l) = 3 /\ Len(x) = 3
          /\ \A i \in 1..3 : x[i] = l[i]
      BY <1>3, <2>2, <2>3, <3>1 DEF Text
    <3>3. x = l
      BY <3>2, SeqEqual DEF Text
    <3> QED BY <3>1, <3>3
  <2>9. EncodeRequest(r) = x
    BY <2>1, <2>8 DEF EncodeRequest
  <2> QED BY <1>1, <2>6, <2>7, <2>9
<1>9. CASE r.type = "start-phase"
  <2>1. PICK pid \in DOMAIN Decimal, x \in Text :
          r = [type |-> "start-phase", pid |-> pid, phase |-> x]
    BY <1>2, <1>9 DEF Request
  <2>2. pid # 0 /\ x # << >>
    BY <1>1, <2>1 DEF Senseless
  <2>3. PICK w : w = Decimal[pid]
    OBVIOUS
  <2>4. w \in DOMAIN FromChars /\ FromChars[w] = pid
    BY <2>3, WireAssumption
  <2>5. EncodeRequest(r) = <<"START-PHASE", SP, w, SP>> \o x
    BY <2>1, <2>3 DEF EncodeRequest
  <2>6. DecodeRequest(<<"START-PHASE", SP, w, SP>> \o x) = Gives(r)
    BY <2>1, <2>2, <2>4, StartLine
  <2> QED BY <1>1, <2>5, <2>6
<1> QED BY <1>2, <1>5, <1>6, <1>7, <1>8, <1>9 DEF Request

\* A word and a newline.
LEMMA WordWired ==
  ASSUME NEW w \in Keywords, NEW x, x = Append(<<w>>, NL)
  PROVE  /\ x \in Text /\ Len(x) = 2 /\ x[1] = w /\ x[2] = NL
         /\ Trimmed(x) = <<w>>
<1>1. w \in Symbol /\ NL \in Symbol /\ w \notin Separators
  BY WordsAreSymbols DEF Separators
<1>2. PICK v, c : v = <<w>> /\ c = NL /\ x = Append(v, c)
  OBVIOUS
<1>3. v \in Text /\ Len(v) = 1 /\ v[1] = w
  BY <1>1, <1>2 DEF Text
<1>4. x \in Text /\ Len(x) = 2 /\ x[1] = w /\ x[2] = c
  BY <1>1, <1>2, <1>3 DEF Text
<1> DEFINE I == {i \in 1..Len(x) : x[i] \notin {NL, CR}}
<1>5. I = {1}
  BY <1>1, <1>2, <1>4 DEF Separators
<1>6. Max(I) = 1
  BY <1>5, GreatestPosition
<1>7. Trimmed(x) = SubSeq(x, 1, 1)
  BY <1>5, <1>6 DEF Trimmed, SelectLastInSeq
<1>8. SubSeq(x, 1, 1) = v
  <2>1. PICK y : y = SubSeq(x, 1, 1)
    OBVIOUS
  <2>2. y \in Text /\ Len(y) = 1 /\ y[1] = x[1]
    BY <1>4, <2>1 DEF Text
  <2>3. \A i \in 1..Len(y) : y[i] = v[i]
    BY <1>3, <1>4, <2>2
  <2>4. y = v
    BY <1>3, <2>2, <2>3, SeqEqual DEF Text
  <2> QED BY <2>1, <2>4
<1> QED BY <1>2, <1>4, <1>7, <1>8

\* A refusal is short enough for any buffer.
LEMMA RefusalWired ==
  /\ Wired(Svc!Refused) \in Text /\ Len(Wired(Svc!Refused)) = 4
  /\ Svc!Refused \in Response
<1>1. PICK h, x, c : h = <<"ERR", SP>> /\ x = <<"refused">> /\ c = NL
  OBVIOUS
<1>2. "ERR" \in Symbol /\ SP \in Symbol /\ NL \in Symbol /\ "refused" \in Symbol
  BY WordsAreSymbols, IpcAssumption DEF Keywords, Separators, Symbol
<1>3. h \in Text /\ Len(h) = 2 /\ x \in Text /\ Len(x) = 1 /\ x # << >> /\ c \in Symbol
  BY <1>1, <1>2 DEF Text
<1>4. PICK z : z = h \o x
  OBVIOUS
<1>5. z \in Text /\ Len(z) = 3
  <2>1. h \in Text /\ x \in Text
    BY <1>3
  <2>2. z \in Text /\ Len(z) = Len(h) + Len(x)
    BY <1>4, <2>1 DEF Text
  <2> QED BY <1>3, <2>2
<1>6. Wired(Svc!Refused) = Append(z, c)
  BY <1>1, <1>3, <1>4 DEF Wired, EncodeResponse, EncodeError, Svc!Refused
<1>7. Append(z, c) \in Text /\ Len(Append(z, c)) = 4
  <2>1. c \in Symbol /\ z \in Text
    BY <1>3, <1>5
  <2>2. PICK u : u = Append(z, c)
    OBVIOUS
  <2>3. u \in Text /\ Len(u) = Len(z) + 1
    BY <2>1, <2>2 DEF Text
  <2> QED BY <1>5, <2>2, <2>3
<1>8. Svc!Refused \in Response
  BY <1>1, <1>3 DEF Response, Svc!Refused
<1> QED BY <1>6, <1>7, <1>8

LEMMA ReportWired ==
  ASSUME NEW r \in Response, r.type = "report", NEW w, w = Wired(r)
  PROVE  w \in Text /\ Len(w) >= 6 /\ Header(w, r.severity) /\ r.severity \in 0..3
<1>1. PICK sev \in 0..3, b \in Text :
        r = [type |-> "report", severity |-> sev, body |-> b]
  BY DEF Response
<1>2. PICK x : x = ReportHeader(sev) \o b
  OBVIOUS
<1>3. x \in Text /\ Len(x) = 5 + Len(b) /\ Header(x, sev)
  BY <1>2, ReportEncoded
<1>4. w = Append(x, NL)
  BY <1>1, <1>2 DEF Wired, EncodeResponse, ReportHeader
<1>5. PICK c \in Symbol : c = NL
  BY WordsAreSymbols DEF Separators
<1>6. /\ w \in Text /\ Len(b) \in Nat /\ Len(w) = Len(x) + 1
      /\ \A i \in 1..Len(x) : w[i] = x[i]
  BY <1>3, <1>4, <1>5 DEF Text
<1>7. Header(w, sev)
  BY <1>3, <1>6 DEF Header
<1> QED BY <1>1, <1>3, <1>6, <1>7

\* Whatever is answered is a line, or several.
LEMMA ResponseWired ==
  ASSUME NEW r \in Response, r.type = "error" => r = Svc!Refused
  PROVE  Wired(r) \in Text /\ Len(Wired(r)) >= 1
<1>1. CASE r.type = "report"
  BY <1>1, ReportWired
<1>2. CASE r.type = "error"
  BY <1>2, RefusalWired
<1>3. CASE r.type = "pong"
  <2>1. PICK w, x : w \in Keywords /\ w = "PONG" /\ x = Append(<<w>>, NL)
    BY DEF Keywords
  <2>2. Wired(r) = x
    BY <1>3, <2>1 DEF Wired, EncodeResponse
  <2>3. x \in Text /\ Len(x) = 2
    BY <2>1, WordWired
  <2> QED BY <2>2, <2>3
<1>4. CASE r.type = "ok"
  <2>1. PICK w, x : w \in Keywords /\ w = "OK" /\ x = Append(<<w>>, NL)
    BY DEF Keywords
  <2>2. Wired(r) = x
    BY <1>4, <2>1 DEF Wired, EncodeResponse
  <2>3. x \in Text /\ Len(x) = 2
    BY <2>1, WordWired
  <2> QED BY <2>2, <2>3
<1> QED BY <1>1, <1>2, <1>3, <1>4 DEF Response

\* A reply is taken for what it is, cut or not, if at least five symbols of it
\* are read.
LEMMA ReplyDecoded ==
  ASSUME NEW r \in Response, NEW type, Suits(type, r),
         NEW raw \in Text, Begins(raw, Wired(r)),
         Len(raw) = Len(Wired(r)) \/ Len(raw) >= 5
  PROVE  /\ DecodeReply(type, raw).type = r.type
         /\ r.type = "report" => DecodeReply(type, raw).severity = r.severity
<1>1. PICK w : w = Wired(r)
  OBVIOUS
<1>2. w \in Text /\ Len(w) \in Nat /\ Len(raw) \in Nat
  BY <1>1, ResponseWired DEF Suits, Text
<1>3. /\ Len(raw) <= Len(w) /\ \A i \in 1..Len(raw) : raw[i] = w[i]
      /\ Len(w) < 5 => raw = w
  <2>1. Begins(raw, w) /\ (Len(w) < 5 => Len(raw) = Len(w))
    BY <1>1, <1>2 DEF Begins
  <2> QED BY <1>2, <2>1, BeginsWhole DEF Begins
<1>4. CASE r.type = "report"
  <2>1. type = "report"
    BY <1>4 DEF Suits
  <2>2. Len(w) >= 6 /\ Header(w, r.severity) /\ r.severity \in 0..3
    BY <1>1, <1>4, ReportWired
  <2>3. Len(raw) >= 5
    BY <1>1, <1>2, <2>2
  <2>4. Header(raw, r.severity)
    BY <1>2, <1>3, <2>2, <2>3 DEF Header
  <2>5. DecodeReply("report", raw) =
          [type |-> "report", severity |-> r.severity,
           body |-> SubSeq(raw, 6, Len(raw))]
    BY <2>2, <2>3, <2>4, HeaderDecoded
  <2> QED BY <1>4, <2>1, <2>5
<1>5. CASE r.type = "error"
  <2>1. r = Svc!Refused /\ Len(w) = 4
    BY <1>1, <1>5, RefusalWired DEF Suits
  <2>2. PICK x : x = <<"refused">>
    OBVIOUS
  <2>3. x \in Text
    BY <2>2, IpcAssumption DEF Text, Symbol
  <2>4. w = Append(EncodeError(x), NL)
    BY <1>1, <2>1, <2>2 DEF Wired, EncodeResponse, Svc!Refused
  <2>5. raw = w
    BY <1>3, <2>1
  <2> QED BY <1>5, <2>3, <2>4, <2>5, ErrorDecoded
<1>6. ASSUME NEW k \in {"PONG", "OK"}, w = Append(<<k>>, NL)
      PROVE  raw # << >> /\ ~IsError(raw) /\ Trimmed(raw) = <<k>>
  <2>1. Len(w) = 2 /\ w[1] = k /\ Trimmed(w) = <<k>>
    <3>1. k \in Keywords
      BY DEF Keywords
    <3> QED BY <1>6, <3>1, WordWired
  <2>2. raw = w
    BY <1>3, <2>1
  <2>3. raw # << >> /\ raw[1] # "ERR"
    BY <2>1, <2>2
  <2> QED BY <2>1, <2>2, <2>3, ErrorBegins
<1>7. CASE r.type = "pong"
  <2>1. w = Append(<<"PONG">>, NL)
    BY <1>1, <1>7 DEF Wired, EncodeResponse
  <2>2. raw # << >> /\ ~IsError(raw) /\ Trimmed(raw) = <<"PONG">>
    BY <1>6, <2>1
  <2>3. type = "ping"
    BY <1>7 DEF Suits
  <2> QED BY <1>7, <2>2, <2>3 DEF DecodeReply, Gives
<1>8. CASE r.type = "ok"
  <2>1. w = Append(<<"OK">>, NL)
    BY <1>1, <1>8 DEF Wired, EncodeResponse
  <2>2. raw # << >> /\ ~IsError(raw) /\ Trimmed(raw) = <<"OK">>
    BY <1>6, <2>1
  <2>3. type \notin {"ping", "report"}
    BY <1>8 DEF Suits
  <2> QED BY <1>8, <2>2, <2>3 DEF DecodeReply, Gives
<1> QED BY <1>4, <1>5, <1>7, <1>8 DEF Response
-----------------------------------------------------------------------------
(* The handlers. *)

Sessions == [active : BOOLEAN, phase : Text, found : Seq(1..3)]

LEMMA MaxFoundType ==
  ASSUME NEW s \in Sessions
  PROVE  Svc!MaxFound(s) \in 0..3
<1> DEFINE all == {s.found[i] : i \in DOMAIN s.found} \cup {0}
<1>1. all \subseteq 0..3 /\ all # {}
  <2>1. s.found \in Seq(1..3)
    BY DEF Sessions
  <2>2. \A i \in DOMAIN s.found : s.found[i] \in 1..3
    BY <2>1
  <2> QED BY <2>2
<1>2. Svc!MaxFound(s) = CHOOSE m \in all : \A v \in all : v <= m
  BY DEF Svc!MaxFound
<1> HIDE DEF all
<1>3. \E m \in all : \A v \in all : v <= m
  <2>1. Max(all) \in all /\ \A v \in all : Max(all) >= v
    BY <1>1, GreatestPosition
  <2>2. \A v \in all : v <= Max(all)
    BY <1>1, <2>1
  <2> QED BY <2>1, <2>2
<1>4. Svc!MaxFound(s) \in all
  BY <1>2, <1>3
<1> QED BY <1>1, <1>4

LEMMA LinesType ==
  ASSUME NEW s \in Sessions
  PROVE  Svc!Lines(s) \in Text /\ Len(Svc!Lines(s)) = Len(s.found)
<1>1. PICK n \in Nat : n = Len(s.found) /\ DOMAIN s.found = 1..n
  <2>1. s.found \in Seq(1..3)
    BY DEF Sessions
  <2> QED BY <2>1
<1>2. PICK f \in Symbol : f = "finding"
  BY IpcAssumption DEF Symbol
<1>3. Svc!Lines(s) = [i \in 1..n |-> f]
  BY <1>1, <1>2 DEF Svc!Lines
<1>4. [i \in 1..n |-> f] \in Text /\ Len([i \in 1..n |-> f]) = n
  BY DEF Text
<1> QED BY <1>1, <1>3, <1>4

\* A handler answers what is asked, and leaves a session.
LEMMA HandledType ==
  ASSUME NEW req \in Request, NEW s \in Sessions, NEW r \in Svc!Handled(req, s)
  PROVE  /\ r.response \in Response /\ r.response # Svc!Nothing
         /\ Suits(req.type, r.response)
         /\ req.type = "shutdown" => r.response.type = "ok"
         /\ r.session \in Sessions
<1>1. Svc!Refused \in Response /\ Svc!Refused # Svc!Nothing
      /\ Svc!Refused.type = "error" /\ \A t : Suits(t, Svc!Refused)
  BY RefusalWired DEF Svc!Refused, Svc!Nothing, Suits
<1>2. Svc!Idle \in Sessions
  <2>1. << >> \in Text /\ << >> \in Seq(1..3)
    BY DEF Text
  <2> QED BY <2>1 DEF Svc!Idle, Sessions
<1>3. CASE r = Svc!Did(Svc!Refused, s) \/ r = Svc!Did(Svc!Refused, Svc!Idle)
  <2>1. r.response = Svc!Refused /\ r.session \in Sessions
    BY <1>2, <1>3 DEF Svc!Did
  <2>2. req.type # "shutdown"
    <3>1. ASSUME req.type = "shutdown" PROVE FALSE
      <4>1. r.response.type = "ok"
        BY <3>1 DEF Svc!Handled, Svc!Did
      <4> QED BY <1>1, <2>1, <4>1
    <3> QED BY <3>1
  <2> QED BY <1>1, <2>1, <2>2
<1>4. CASE req.type = "ping"
  <2>1. r.response = [type |-> "pong"] /\ r.session = s
    BY <1>4 DEF Svc!Handled, Svc!Did
  <2> QED BY <1>4, <2>1 DEF Response, Svc!Nothing, Suits
<1>5. CASE req.type = "shutdown"
  <2>1. r.response = [type |-> "ok"] /\ r.session = s
    BY <1>5 DEF Svc!Handled, Svc!Did
  <2> QED BY <1>5, <2>1 DEF Response, Svc!Nothing, Suits
<1>6. CASE req.type = "end-phase"
  <2>1. r.response = [type |-> "ok"] /\ r.session = [s EXCEPT !.active = FALSE]
    BY <1>6 DEF Svc!Handled, Svc!Did
  <2>2. r.session \in Sessions
    BY <2>1 DEF Sessions
  <2> QED BY <1>6, <2>1, <2>2 DEF Response, Svc!Nothing, Suits
<1>7. CASE req.type = "start-phase" /\ ~(r = Svc!Did(Svc!Refused, s)
                                         \/ r = Svc!Did(Svc!Refused, Svc!Idle))
  <2>1. /\ r.response = [type |-> "ok"]
        /\ r.session = [active |-> TRUE, phase |-> req.phase, found |-> << >>]
    <3>1. r = Svc!Did([type |-> "ok"],
                      [active |-> TRUE, phase |-> req.phase, found |-> << >>])
      BY <1>7 DEF Svc!Handled
    <3> QED BY <3>1 DEF Svc!Did
  <2>2. r.session \in Sessions
    <3>1. req.phase \in Text /\ << >> \in Seq(1..3)
      BY <1>7 DEF Request
    <3> QED BY <2>1, <3>1 DEF Sessions
  <2> QED BY <1>7, <2>1, <2>2 DEF Response, Svc!Nothing, Suits
<1>8. CASE req.type = "report" /\ r # Svc!Did(Svc!Refused, s)
  <2>1. PICK sev, b : sev = Svc!MaxFound(s) /\ b = Svc!Lines(s)
    OBVIOUS
  <2>2. sev \in 0..3 /\ b \in Text
    BY <2>1, MaxFoundType, LinesType
  <2>3. /\ r.response = [type |-> "report", severity |-> sev, body |-> b]
        /\ r.session = s
    BY <1>8, <2>1 DEF Svc!Handled, Svc!Did
  <2> QED BY <1>8, <2>2, <2>3 DEF Response, Svc!Nothing, Suits
<1> QED BY <1>3, <1>4, <1>5, <1>6, <1>7, <1>8 DEF Request
-----------------------------------------------------------------------------
(* Steps that are no business of a client's. *)

SameClient(c) ==
  /\ cmd'[c] = cmd[c] /\ exit'[c] = exit[c] /\ at'[c] = at[c]
  /\ up'[c] = up[c] /\ down'[c] = down[c] /\ hungup'[c] = hungup[c]
  /\ got'[c] = got[c] /\ outcome'[c] = outcome[c]

\* What holds of a client goes on to hold when only others are concerned.
LEMMA Bystander ==
  ASSUME NEW c \in Client, Course(c), SameClient(c),
         Queued(c)' <=> Queued(c), Alive' => Alive,
         \/ conn # c /\ conn' # c
         \/ UNCHANGED <<pc, conn, line, out>>
  PROVE  Course(c)'
<1>0. Served(c)' <=> Served(c)
  BY DEF Served
<1>1. Life(c)'
  BY <1>0 DEF Course, Life, SameClient
<1>2. Fresh(c)'
  BY DEF Course, Fresh, Unanswered, SameClient
<1>3. InQueue(c)'
  BY DEF Course, InQueue, Asking, Unanswered, Sent, SameClient
<1>4. Read(c)'
  BY DEF Course, Read, Asking, Unanswered, Sent, SameClient
<1>5. Heard(c)'
  BY DEF Course, Heard, AsSent, Unanswered, Sent, SameClient
<1>6. Replied(c)'
  BY DEF Course, Replied, SameClient
<1>7. Left(c)'
  BY DEF Course, Left, Unanswered, SameClient
<1>8. Settled(c)'
  BY DEF Course, Settled, Reply, SameClient
<1>9. Followed(c)'
  BY <1>0 DEF Course, Followed, SameClient
<1>10. Suits(cmd[c].req.type, outcome[c])'
  BY DEF Course, SameClient
<1> QED BY <1>1, <1>2, <1>3, <1>4, <1>5, <1>6, <1>7, <1>8, <1>9, <1>10 DEF Course
-----------------------------------------------------------------------------
(* The types, part by part: a step disturbs one or two of them. *)

ClientsOK ==
  /\ cmd \in [Client -> Command \cup {Svc!NoCommand}]
  /\ exit \in [Client -> {"none", "ok", "failed", "usage", "killed"}]
  /\ at \in [Client -> {"idle", "start", "connected", "waiting", "closed"}]
  /\ got \in [Client -> Text]
  /\ \A c \in Client : Len(got[c]) < ReadLimit + Chunk

SocketsOK ==
  /\ up \in [Client -> Text] /\ down \in [Client -> Text]
  /\ hungup \in [Client -> BOOLEAN]
  /\ \A c \in Client : Len(down[c]) <= SockCap

QueueOK ==
  /\ queue \in Seq(Client) /\ Len(queue) <= Backlog
  /\ \A i, j \in DOMAIN queue : queue[i] = queue[j] => i = j
  /\ conn \notin ToSet(queue)

ConnOK ==
  /\ pc \in {"loop", "read", "handle", "write", "exited", "killed"}
  /\ pc \in {"read", "handle", "write"} => conn \in Client
  /\ pc = "loop" => conn = NoClient

ServerOK ==
  /\ line \in Text /\ Len(line) <= MaxLine
  /\ out \in Text
  /\ leaving \in BOOLEAN
  /\ session \in Sessions
  /\ outcome \in [Client -> Response \cup {Svc!Nothing}]

Typed == ClientsOK /\ SocketsOK /\ QueueOK /\ ConnOK /\ ServerOK

LEMMA TypeParts == TypeOK <=> Typed
<1>1. TypeOK => Typed
  BY Zenon DEF TypeOK, Typed, ClientsOK, SocketsOK, QueueOK, ConnOK, ServerOK, Sessions
<1>2. Typed => TypeOK
  BY Zenon DEF TypeOK, Typed, ClientsOK, SocketsOK, QueueOK, ConnOK, ServerOK, Sessions
<1> QED BY <1>1, <1>2

LEMMA TypePartsNext == TypeOK' <=> Typed'
BY TypeParts, PTL

LEMMA LeaveType ==
  ASSUME ClientsOK, NEW c \in Client, Leave(c, "ok") \/ Leave(c, "failed")
           \/ Leave(c, "usage") \/ Leave(c, "killed"), UNCHANGED <<cmd, got>>
  PROVE  ClientsOK'
BY DEF ClientsOK, Leave

\* A piece of a text, and what is left of it.
LEMMA PieceType ==
  ASSUME NEW t \in Text, NEW s \in Text, NEW n \in 1..Len(t)
  PROVE  /\ s \o SubSeq(t, 1, n) \in Text
         /\ Len(s \o SubSeq(t, 1, n)) = Len(s) + n
         /\ SubSeq(t, n + 1, Len(t)) \in Text
         /\ Len(SubSeq(t, n + 1, Len(t))) = Len(t) - n
<1>1. PICK x, a, b : /\ x = SubSeq(t, 1, n) /\ a = s \o x
                     /\ b = SubSeq(t, n + 1, Len(t))
  OBVIOUS
<1>2. Len(t) \in Nat
  BY DEF Text
<1>3. x \in Text /\ Len(x) = n
  BY <1>1, <1>2 DEF Text
<1>4. a \in Text /\ Len(a) = Len(s) + n
  <2>1. x \in Text /\ a = s \o x
    BY <1>1, <1>3
  <2>2. a \in Text /\ Len(a) = Len(s) + Len(x)
    BY <2>1 DEF Text
  <2> QED BY <1>3, <2>2
<1>5. b \in Text /\ Len(b) = Len(t) - n
  BY <1>1, <1>2 DEF Text
<1> QED BY <1>1, <1>4, <1>5

\* Who waits in the queue, after one comes and after the first is served.
LEMMA Queueing ==
  ASSUME NEW q \in Seq(Client),
         \A i, j \in DOMAIN q : q[i] = q[j] => i = j
  PROVE  /\ \A c \in Client : c \notin ToSet(q) =>
              /\ Append(q, c) \in Seq(Client) /\ Len(Append(q, c)) = Len(q) + 1
              /\ ToSet(Append(q, c)) = ToSet(q) \cup {c}
              /\ \A i, j \in DOMAIN Append(q, c) :
                   Append(q, c)[i] = Append(q, c)[j] => i = j
         /\ q # << >> =>
              /\ Head(q) \in Client /\ Tail(q) \in Seq(Client)
              /\ Len(Tail(q)) = Len(q) - 1 /\ Head(q) \in ToSet(q)
              /\ ToSet(Tail(q)) = ToSet(q) \ {Head(q)}
              /\ \A i, j \in DOMAIN Tail(q) : Tail(q)[i] = Tail(q)[j] => i = j
<1>1. Len(q) \in Nat /\ DOMAIN q = 1..Len(q) /\ \A i \in 1..Len(q) : q[i] \in Client
  OBVIOUS
<1>2. ToSet(q) = {q[i] : i \in 1..Len(q)}
  BY <1>1 DEF ToSet
<1>3. ASSUME NEW c \in Client, c \notin ToSet(q)
      PROVE  /\ Append(q, c) \in Seq(Client) /\ Len(Append(q, c)) = Len(q) + 1
             /\ ToSet(Append(q, c)) = ToSet(q) \cup {c}
             /\ \A i, j \in DOMAIN Append(q, c) :
                   Append(q, c)[i] = Append(q, c)[j] => i = j
  <2>1. PICK a : a = Append(q, c)
    OBVIOUS
  <2>2. /\ a \in Seq(Client) /\ Len(a) = Len(q) + 1 /\ DOMAIN a = 1..Len(q) + 1
        /\ a[Len(q) + 1] = c /\ \A i \in 1..Len(q) : a[i] = q[i]
    BY <1>1, <2>1
  <2>3. ToSet(a) = {a[i] : i \in 1..Len(q) + 1}
    BY <2>2 DEF ToSet
  <2>4. ToSet(a) \subseteq ToSet(q) \cup {c}
    BY <1>1, <1>2, <2>2, <2>3
  <2>5. ToSet(q) \cup {c} \subseteq ToSet(a)
    <3>1. c \in ToSet(a)
      BY <1>1, <2>2, <2>3
    <3>2. ASSUME NEW i \in 1..Len(q) PROVE q[i] \in ToSet(a)
      <4>1. i \in 1..Len(q) + 1 /\ a[i] = q[i]
        BY <1>1, <2>2
      <4> QED BY <2>3, <4>1
    <3> QED BY <1>2, <3>1, <3>2
  <2>6. ASSUME NEW i \in DOMAIN a, NEW j \in DOMAIN a, a[i] = a[j] PROVE i = j
    <3>1. \A k \in 1..Len(q) : a[k] \in ToSet(q)
      BY <1>2, <2>2
    <3> QED BY <1>1, <1>3, <2>2, <2>6, <3>1
  <2> QED BY <2>1, <2>2, <2>4, <2>5, <2>6
<1>4. ASSUME q # << >>
      PROVE  /\ Head(q) \in Client /\ Tail(q) \in Seq(Client)
             /\ Len(Tail(q)) = Len(q) - 1 /\ Head(q) \in ToSet(q)
             /\ ToSet(Tail(q)) = ToSet(q) \ {Head(q)}
             /\ \A i, j \in DOMAIN Tail(q) : Tail(q)[i] = Tail(q)[j] => i = j
  <2>1. PICK a, h : a = Tail(q) /\ h = Head(q)
    OBVIOUS
  <2>2. /\ Len(q) >= 1 /\ h = q[1] /\ a \in Seq(Client) /\ Len(a) = Len(q) - 1
        /\ DOMAIN a = 1..Len(q) - 1
        /\ \A i \in 1..Len(q) - 1 : a[i] = q[i + 1]
    BY <1>1, <1>4, <2>1
  <2>3. ToSet(a) = {a[i] : i \in 1..Len(q) - 1}
    BY <2>2 DEF ToSet
  <2>4. ASSUME NEW x \in ToSet(a) PROVE x \in ToSet(q) \ {h}
    <3>1. PICK i \in 1..Len(q) - 1 : x = a[i]
      BY <2>3
    <3>2. i + 1 \in 1..Len(q) /\ x = q[i + 1] /\ 1 \in 1..Len(q) /\ i + 1 # 1
      BY <1>1, <2>2, <3>1
    <3> QED BY <1>1, <1>2, <2>2, <3>2
  <2>5. ASSUME NEW x \in ToSet(q) \ {h} PROVE x \in ToSet(a)
    <3>1. PICK i \in 1..Len(q) : x = q[i]
      BY <1>2
    <3>2. i # 1
      BY <2>2, <2>5, <3>1
    <3>3. i - 1 \in 1..Len(q) - 1 /\ a[i - 1] = x
      BY <1>1, <2>2, <3>1, <3>2
    <3> QED BY <2>3, <3>3
  <2>6. ASSUME NEW i \in DOMAIN a, NEW j \in DOMAIN a, a[i] = a[j] PROVE i = j
    <3>1. i + 1 \in 1..Len(q) /\ j + 1 \in 1..Len(q) /\ q[i + 1] = q[j + 1]
      BY <1>1, <2>2, <2>6
    <3> QED BY <1>1, <2>2, <3>1
  <2>7. h \in Client /\ h \in ToSet(q)
    BY <1>1, <1>2, <2>2
  <2> QED BY <2>1, <2>2, <2>4, <2>5, <2>6, <2>7
<1> QED BY <1>3, <1>4
-----------------------------------------------------------------------------
(* The steps of a client. *)

LEMMA OthersGoOn ==
  ASSUME NEW c \in Client, \A d \in Client : Course(d), Course(c)',
         \A d \in Client \ {c} : SameClient(d) /\ (Queued(d)' <=> Queued(d)),
         UNCHANGED serverVars
  PROVE  \A d \in Client : Course(d)'
<1> SUFFICES ASSUME NEW d \in Client \ {c} PROVE Course(d)'
  OBVIOUS
<1>1. (Alive' => Alive) /\ UNCHANGED <<pc, conn, line, out>>
  BY DEF serverVars, Alive
<1> QED BY <1>1, Bystander

LEMMA ClientKeeps ==
  ASSUME IpcInv, NEW c \in Client, Typed', Course(c)', Told(c) => Told(c)',
         \A d \in Client \ {c} : SameClient(d) /\ (Queued(d)' <=> Queued(d)),
         UNCHANGED serverVars
  PROVE  IpcInv'
<1>1. \A d \in Client : Course(d)'
  BY OthersGoOn DEF IpcInv
<1>2. ToldToLeave'
  <2>1. \A d \in Client \ {c} : Told(d)' <=> Told(d)
    BY DEF Told, SameClient
  <2> QED BY <2>1 DEF IpcInv, ToldToLeave, serverVars
<1> QED BY <1>1, <1>2, TypePartsNext DEF IpcInv

LEMMA InvokeKeeps ==
  ASSUME IpcInv, NEW c \in Client, NEW k \in Command, Invoke(c, k)
  PROVE  IpcInv'
<1>1. Typed /\ \A d \in Client : Course(d)
  BY TypeParts DEF IpcInv
<1>2. /\ at[c] = "idle"
      /\ cmd' = [cmd EXCEPT ![c] = k] /\ at' = [at EXCEPT ![c] = "start"]
      /\ UNCHANGED <<exit, got, up, down, hungup, queue, serverVars>>
  BY DEF Invoke, socketVars
<1>3. Typed'
  <2>1. ClientsOK'
    BY <1>1, <1>2 DEF Typed, ClientsOK
  <2> QED BY <1>1, <1>2, <2>1
          DEF Typed, SocketsOK, QueueOK, ConnOK, ServerOK, serverVars
<1>4. /\ cmd'[c] = k /\ at'[c] = "start"
      /\ \A d \in Client \ {c} : cmd'[d] = cmd[d] /\ at'[d] = at[d]
  BY <1>1, <1>2 DEF Typed, ClientsOK
<1>5. Life(c) /\ Fresh(c) /\ Suits(cmd[c].req.type, outcome[c])
  BY <1>1 DEF Course
<1>6. /\ Fresh(c)' /\ ~Queued(c)' /\ conn' # c /\ ~hungup'[c]
      /\ exit'[c] = "none"
  BY <1>2, <1>4, <1>5 DEF Life, Fresh, Unanswered, serverVars, Queued
<1>7. Suits(cmd[c].req.type, outcome[c])'
  BY <1>4, <1>6 DEF Suits, Fresh, Unanswered, Svc!Nothing
<1>8. Course(c)'
  BY <1>4, <1>6, <1>7 DEF Course, Life, InQueue, Read, Heard, Replied, Left,
                          Settled, Followed, Served
<1>9. ~Told(c)
  BY <1>2, <1>5 DEF Life, Told, Svc!NoCommand
<1>10. \A d \in Client \ {c} : SameClient(d) /\ (Queued(d)' <=> Queued(d))
  BY <1>2, <1>4 DEF SameClient, Queued, serverVars
<1>11. UNCHANGED serverVars
  BY <1>2
<1> QED BY <1>3, <1>8, <1>9, <1>10, <1>11, ClientKeeps

\* How a client that has connected nowhere ends.
LEMMA NeverConnectedKeeps ==
  ASSUME IpcInv, NEW c \in Client, Usage(c) \/ ConnectRefused(c)
  PROVE  IpcInv'
<1>1. Typed /\ \A d \in Client : Course(d)
  BY TypeParts DEF IpcInv
<1>2. PICK how \in {"usage", "failed"} :
      /\ at[c] = "start" /\ Leave(c, how) /\ (how = "failed" => ~Alive)
      /\ UNCHANGED <<cmd, got, up, down, hungup, queue, serverVars>>
  BY DEF Usage, ConnectRefused, socketVars
<1>3. Typed'
  <2>1. ClientsOK'
    BY <1>1, <1>2, LeaveType DEF Typed
  <2> QED BY <1>1, <1>2, <2>1
          DEF Typed, SocketsOK, QueueOK, ConnOK, ServerOK, serverVars
<1>4. /\ exit'[c] = how /\ at'[c] = "closed"
      /\ \A d \in Client \ {c} : exit'[d] = exit[d] /\ at'[d] = at[d]
  BY <1>1, <1>2 DEF Leave, Typed, ClientsOK
<1>5. Course(c)'
  <2>1. /\ Life(c) /\ Fresh(c) /\ Suits(cmd[c].req.type, outcome[c])
    BY <1>1 DEF Course
  <2>2. /\ ~Queued(c)' /\ conn' # c /\ cmd'[c] \in Command
        /\ Suits(cmd[c].req.type, outcome[c])'
        /\ outcome'[c] = Svc!Nothing
    BY <1>2, <2>1 DEF Life, Fresh, Unanswered, serverVars, Queued
  <2>3. Alive' <=> Alive
    BY <1>2 DEF Alive, serverVars
  <2>4. Settled(c)'
    BY <1>2, <1>4, <2>2, <2>3 DEF Settled
  <2> QED BY <1>4, <2>2, <2>4 DEF Course, Life, Fresh, InQueue, Read, Heard,
                                  Replied, Left, Followed, Served
<1>6. \A d \in Client \ {c} : SameClient(d) /\ (Queued(d)' <=> Queued(d))
  BY <1>2, <1>4 DEF SameClient, Queued, serverVars
<1>7. UNCHANGED serverVars /\ (Told(c) => Told(c)')
  BY <1>2 DEF Told, serverVars
<1> QED BY <1>3, <1>5, <1>6, <1>7, ClientKeeps

LEMMA ConnectKeeps ==
  ASSUME IpcInv, NEW c \in Client, Connect(c)
  PROVE  IpcInv'
<1>1. Typed /\ \A d \in Client : Course(d)
  BY TypeParts DEF IpcInv
<1>2. /\ at[c] = "start" /\ ~Senseless(cmd[c])
      /\ Len(queue) < Backlog
      /\ at' = [at EXCEPT ![c] = "connected"]
      /\ queue' = Append(queue, c)
      /\ UNCHANGED <<cmd, exit, got, up, down, hungup, serverVars>>
  BY DEF Connect
<1>3. Life(c) /\ Fresh(c) /\ Suits(cmd[c].req.type, outcome[c])
  BY <1>1 DEF Course
<1>4. c \notin ToSet(queue) /\ conn # c
  BY <1>2, <1>3 DEF Fresh, Queued
<1>5. /\ queue' \in Seq(Client) /\ Len(queue') = Len(queue) + 1
      /\ ToSet(queue') = ToSet(queue) \cup {c}
      /\ \A i, j \in DOMAIN queue' : queue'[i] = queue'[j] => i = j
  BY <1>1, <1>2, <1>4, Queueing DEF Typed, QueueOK
<1>6. /\ at'[c] = "connected"
      /\ \A d \in Client \ {c} : at'[d] = at[d]
  BY <1>1, <1>2 DEF Typed, ClientsOK
<1>7. Typed'
  <2>1. ClientsOK'
    BY <1>1, <1>2 DEF Typed, ClientsOK
  <2>2. QueueOK'
    <3>1. Len(queue') <= Backlog
      BY <1>1, <1>2, <1>5, IpcAssumption DEF Typed, QueueOK
    <3> QED BY <1>1, <1>2, <1>4, <1>5, <3>1 DEF Typed, QueueOK, serverVars
  <2> QED BY <1>1, <1>2, <2>1, <2>2
          DEF Typed, SocketsOK, ConnOK, ServerOK, serverVars
<1>8. Course(c)'
  <2>1. /\ conn' # c /\ cmd'[c] = cmd[c] /\ exit'[c] = "none" /\ ~hungup'[c]
        /\ Unanswered(c)' /\ up'[c] = << >> /\ cmd[c] \in Command
        /\ Suits(cmd[c].req.type, outcome[c])'
    BY <1>2, <1>3 DEF Life, Fresh, Unanswered, serverVars
  <2>2. Queued(c)'
    BY <1>5 DEF Queued
  <2>3. Life(c)' /\ Fresh(c)' /\ Followed(c)' /\ Left(c)' /\ Settled(c)'
    BY <1>2, <1>6, <2>1, <2>2 DEF Life, Fresh, Followed, Left, Settled, Served
  <2>4. InQueue(c)'
    BY <1>6, <2>1 DEF InQueue, Asking
  <2> QED BY <2>1, <2>3, <2>4 DEF Course, Read, Heard, Replied
<1>9. \A d \in Client \ {c} : SameClient(d) /\ (Queued(d)' <=> Queued(d))
  BY <1>2, <1>5, <1>6 DEF SameClient, Queued, serverVars
<1>10. UNCHANGED serverVars /\ (Told(c) => Told(c)')
  BY <1>2 DEF Told, serverVars
<1> QED BY <1>7, <1>8, <1>9, <1>10, ClientKeeps

\* A signal, from outside or from a socket that has been closed.
LEMMA KilledKeeps ==
  ASSUME IpcInv, NEW c \in Client, at[c] \in {"connected", "waiting"},
         Leave(c, "killed"),
         UNCHANGED <<cmd, got, up, down, hungup, queue, serverVars>>
  PROVE  IpcInv'
<1>1. Typed /\ \A d \in Client : Course(d)
  BY TypeParts DEF IpcInv
<1>2. Typed'
  <2>1. ClientsOK'
    BY <1>1, LeaveType DEF Typed
  <2> QED BY <1>1, <2>1
          DEF Typed, SocketsOK, QueueOK, ConnOK, ServerOK, serverVars
<1>3. /\ exit'[c] = "killed" /\ at'[c] = "closed"
      /\ \A d \in Client \ {c} : exit'[d] = exit[d] /\ at'[d] = at[d]
  BY <1>1 DEF Leave, Typed, ClientsOK
<1>4. Course(c)
  BY <1>1
<1>5. /\ (Queued(c)' <=> Queued(c)) /\ (Served(c)' <=> Served(c))
      /\ (Unanswered(c)' <=> Unanswered(c))
  BY DEF Queued, Served, Unanswered, serverVars
<1>6. Life(c)'
  BY <1>3, <1>4, <1>5 DEF Course, Life
<1>7. InQueue(c)'
  BY <1>3, <1>4, <1>5 DEF Course, InQueue, Asking, Sent
<1>8. Read(c)'
  BY <1>3, <1>4, <1>5 DEF Course, Read, Asking, Sent, serverVars
<1>9. Heard(c)'
  BY <1>3, <1>4, <1>5 DEF Course, Heard, AsSent, Sent, serverVars
<1>10. Replied(c)'
  BY <1>3, <1>4 DEF Course, Replied, serverVars
<1>11. Suits(cmd[c].req.type, outcome[c])'
  BY <1>4 DEF Course, serverVars
<1>12. Course(c)'
  BY <1>3, <1>6, <1>7, <1>8, <1>9, <1>10, <1>11
     DEF Course, Fresh, Left, Settled, Followed
<1>13. \A d \in Client \ {c} : SameClient(d) /\ (Queued(d)' <=> Queued(d))
  BY <1>3 DEF SameClient, Queued, serverVars
<1>14. UNCHANGED serverVars /\ (Told(c) => Told(c)')
  BY DEF Told, serverVars
<1> QED BY <1>2, <1>12, <1>13, <1>14, ClientKeeps

\* Its line is in the socket, all of it.
LEMMA LineSentKeeps ==
  ASSUME IpcInv, NEW c \in Client, WriteLine(c), ~hungup[c]
  PROVE  IpcInv'
<1>1. Typed /\ \A d \in Client : Course(d)
  BY TypeParts DEF IpcInv
<1>2. /\ at[c] = "connected"
      /\ at' = [at EXCEPT ![c] = "waiting"]
      /\ up' = [up EXCEPT ![c] = Sent(c)]
      /\ UNCHANGED <<cmd, exit, got, down, hungup, queue, serverVars>>
  BY DEF WriteLine, Sent
<1>3. Course(c)
  BY <1>1
<1>4. exit[c] = "none" /\ cmd[c] \in Command
  BY <1>2, <1>3 DEF Course, Life
<1>5. PICK w : w = Sent(c) /\ w = Sent(c)'
  BY <1>2 DEF Sent
<1>6. w \in Text
  <2>1. PICK e, nl : e = EncodeRequest(cmd[c].req) /\ nl = NL
    OBVIOUS
  <2>2. e \in Text /\ nl \in Symbol
    BY <1>4, <2>1, IpcAssumption, RequestEncoded, WordsAreSymbols DEF Separators
  <2>3. Append(e, nl) \in Text
    BY <2>2 DEF Text
  <2> QED BY <1>5, <2>1, <2>3 DEF Sent
<1>7. /\ at'[c] = "waiting" /\ up'[c] = w
      /\ \A d \in Client \ {c} : at'[d] = at[d] /\ up'[d] = up[d]
  BY <1>1, <1>2, <1>5 DEF Typed, ClientsOK, SocketsOK
<1>8. Typed'
  <2>1. ClientsOK'
    BY <1>1, <1>2 DEF Typed, ClientsOK
  <2>2. SocketsOK'
    BY <1>1, <1>2, <1>5, <1>6 DEF Typed, SocketsOK
  <2> QED BY <1>1, <1>2, <2>1, <2>2
          DEF Typed, QueueOK, ConnOK, ServerOK, serverVars
<1>9. /\ (Queued(c)' <=> Queued(c)) /\ (Served(c)' <=> Served(c))
      /\ (Unanswered(c)' <=> Unanswered(c)) /\ exit'[c] = "none"
      /\ hungup'[c] = FALSE /\ line' = line /\ pc' = pc /\ conn' = conn
  BY <1>1, <1>2, <1>4
     DEF Queued, Served, Unanswered, serverVars, Typed, SocketsOK
<1>10. InPieces(w, << >>, w, << >>)
  BY <1>6, PiecesStart
<1>11. ASSUME Unanswered(c) PROVE Asking(c, << >>)'
  <2>1. \A i \in 1..Len(<< >>) : << >>[i] # NL
    OBVIOUS
  <2> QED BY <1>5, <1>7, <1>9, <1>10, <1>11, <2>1 DEF Asking
<1>12. Life(c)'
  BY <1>2, <1>3, <1>7, <1>9 DEF Course, Life
<1>13. InQueue(c)'
  BY <1>3, <1>9, <1>11 DEF Course, InQueue, Asking
<1>14. Read(c)'
  <2>1. CASE conn = c /\ pc = "read"
    <3>1. line = << >> /\ Unanswered(c)
      BY <1>2, <1>3, <1>4, <2>1 DEF Course, Read, Asking
    <3> QED BY <1>9, <1>11, <3>1 DEF Read
  <2>2. CASE ~(conn = c /\ pc = "read")
    BY <1>9, <2>2 DEF Read
  <2> QED BY <2>1, <2>2
<1>15. Heard(c)' /\ Replied(c)'
  BY <1>2, <1>3, <1>4, <1>9 DEF Course, Heard, Replied
<1>16. Followed(c)'
  BY <1>2, <1>3, <1>9 DEF Course, Followed
<1>17. Suits(cmd[c].req.type, outcome[c])'
  BY <1>2, <1>3 DEF Course, serverVars
<1>18. Course(c)'
  BY <1>7, <1>9, <1>12, <1>13, <1>14, <1>15, <1>16, <1>17
     DEF Course, Fresh, Left, Settled
<1>19. \A d \in Client \ {c} : SameClient(d) /\ (Queued(d)' <=> Queued(d))
  BY <1>2, <1>7 DEF SameClient, Queued, serverVars
<1>20. UNCHANGED serverVars /\ (Told(c) => Told(c)')
  BY <1>2 DEF Told, serverVars
<1> QED BY <1>8, <1>18, <1>19, <1>20, ClientKeeps

\* Who finds something to read has been answered.
LEMMA ReadChunkKeeps ==
  ASSUME IpcInv, NEW c \in Client, ReadChunk(c)
  PROVE  IpcInv'
<1>1. Typed /\ \A d \in Client : Course(d)
  BY TypeParts DEF IpcInv
<1>2. PICK n : n = Smaller(Chunk, Len(down[c]))
  OBVIOUS
<1>3. PICK s, t : /\ s = got[c] \o SubSeq(down[c], 1, n)
                  /\ t = SubSeq(down[c], n + 1, Len(down[c]))
  OBVIOUS
<1>4. /\ at[c] = "waiting" /\ Len(got[c]) < ReadLimit /\ n > 0
      /\ got' = [got EXCEPT ![c] = s] /\ down' = [down EXCEPT ![c] = t]
      /\ UNCHANGED <<cmd, exit, at, up, hungup, queue, serverVars>>
  BY <1>2, <1>3 DEF ReadChunk
<1>5. down[c] \in Text /\ got[c] \in Text /\ Len(got[c]) \in Nat /\ Len(down[c]) \in Nat
  BY <1>1 DEF Typed, ClientsOK, SocketsOK, Text
<1>6. n \in 1..Len(down[c]) /\ n <= Chunk
  BY <1>2, <1>4, <1>5, IpcAssumption DEF Smaller
<1>7. s \in Text /\ Len(s) = Len(got[c]) + n /\ t \in Text
      /\ Len(t) = Len(down[c]) - n
  BY <1>3, <1>5, <1>6, PieceType
<1>8. /\ got'[c] = s /\ down'[c] = t
      /\ \A d \in Client \ {c} : got'[d] = got[d] /\ down'[d] = down[d]
  BY <1>1, <1>4 DEF Typed, ClientsOK, SocketsOK
<1>9. Typed'
  <2>1. Len(s) < ReadLimit + Chunk /\ Len(t) <= SockCap
    BY <1>1, <1>4, <1>5, <1>6, <1>7, IpcAssumption DEF Typed, SocketsOK
  <2>2. ClientsOK'
    BY <1>1, <1>4, <1>7, <1>8, <2>1 DEF Typed, ClientsOK
  <2>3. SocketsOK'
    BY <1>1, <1>4, <1>7, <1>8, <2>1 DEF Typed, SocketsOK
  <2> QED BY <1>1, <1>4, <2>2, <2>3
          DEF Typed, QueueOK, ConnOK, ServerOK, serverVars
<1>10. Course(c)
  BY <1>1
<1>11. ~Unanswered(c)
  <2>1. down[c] # << >>
    BY <1>5, <1>6
  <2> QED BY <2>1 DEF Unanswered
<1>12. /\ ~Queued(c) /\ ~(conn = c /\ pc \in {"read", "handle"})
       /\ exit[c] = "none"
  BY <1>4, <1>10, <1>11 DEF Course, InQueue, Read, Heard, Asking, Life
<1>13. /\ ~Queued(c)' /\ (Served(c)' <=> Served(c)) /\ exit'[c] = "none"
       /\ at'[c] = "waiting" /\ conn' = conn /\ pc' = pc /\ out' = out
       /\ outcome'[c] = outcome[c] /\ hungup'[c] = hungup[c]
       /\ cmd'[c] = cmd[c]
  BY <1>4, <1>12 DEF Queued, Served, serverVars
<1>14. ASSUME NEW u \in Text, outcome[c] # Svc!Nothing,
              InPieces(Wired(outcome[c]), got[c], down[c], u)
       PROVE  InPieces(Wired(outcome[c]), s, t, u)
  <2>1. outcome[c] \in Response /\ (outcome[c].type = "error"
                                     => outcome[c] = Svc!Refused)
    BY <1>1, <1>10, <1>14 DEF Typed, ServerOK, Course, Suits
  <2>2. Wired(outcome[c]) \in Text
    BY <2>1, ResponseWired
  <2> QED BY <1>3, <1>5, <1>6, <1>14, <2>2, PiecesRead
<1>15. Life(c)'
  BY <1>4, <1>10, <1>13 DEF Course, Life
<1>16. Replied(c)'
  <2>1. out \in Text
    BY <1>1 DEF Typed, ServerOK
  <2> QED BY <1>8, <1>10, <1>13, <1>14, <2>1 DEF Course, Replied
<1>17. Left(c)'
  <2>1. << >> \in Text
    BY DEF Text
  <2> QED BY <1>4, <1>8, <1>10, <1>11, <1>13, <1>14, <2>1 DEF Course, Left
<1>18. Followed(c)'
  BY <1>4, <1>10, <1>12, <1>13 DEF Course, Followed
<1>19. Suits(cmd[c].req.type, outcome[c])'
  BY <1>10, <1>13 DEF Course
<1>20. Course(c)'
  BY <1>12, <1>13, <1>15, <1>16, <1>17, <1>18, <1>19
     DEF Course, Fresh, InQueue, Read, Heard, Settled
<1>21. \A d \in Client \ {c} : SameClient(d) /\ (Queued(d)' <=> Queued(d))
  BY <1>4, <1>8 DEF SameClient, Queued, serverVars
<1>22. UNCHANGED serverVars /\ (Told(c) => Told(c)')
  BY <1>4 DEF Told, serverVars
<1> QED BY <1>9, <1>20, <1>21, <1>22, ClientKeeps

\* Who ends by itself has read its reply, as far as it reads, or nobody is
\* left to answer.
LEMMA FinishKeeps ==
  ASSUME IpcInv, NEW c \in Client, Finish(c)
  PROVE  IpcInv'
<1>1. Typed /\ \A d \in Client : Course(d)
  BY TypeParts DEF IpcInv
<1>2. PICK how : how = ExitCode(cmd[c], Reply(c))
  OBVIOUS
<1>3. /\ at[c] = "waiting" /\ how \in {"ok", "failed"}
      /\ Len(got[c]) >= ReadLimit \/ (hungup[c] /\ down[c] = << >>)
      /\ Leave(c, how)
      /\ UNCHANGED <<cmd, got, up, down, hungup, queue, serverVars>>
  BY <1>2 DEF Finish, ExitCode, socketVars
<1>4. /\ exit'[c] = how /\ at'[c] = "closed"
      /\ \A d \in Client \ {c} : exit'[d] = exit[d] /\ at'[d] = at[d]
  BY <1>1, <1>3 DEF Leave, Typed, ClientsOK
<1>5. Typed'
  <2>1. ClientsOK'
    BY <1>1, <1>3, LeaveType DEF Typed
  <2> QED BY <1>1, <1>3, <2>1
          DEF Typed, SocketsOK, QueueOK, ConnOK, ServerOK, serverVars
<1>6. Course(c)
  BY <1>1
<1>7. /\ (Queued(c)' <=> Queued(c)) /\ (Served(c)' <=> Served(c))
      /\ (Unanswered(c)' <=> Unanswered(c)) /\ (Alive' <=> Alive)
      /\ conn' = conn /\ pc' = pc /\ out' = out /\ outcome'[c] = outcome[c]
      /\ hungup'[c] = hungup[c] /\ got'[c] = got[c] /\ cmd'[c] = cmd[c]
      /\ down'[c] = down[c] /\ Reply(c)' = Reply(c)
  BY <1>3 DEF Queued, Served, Unanswered, Alive, Reply, serverVars
<1>8. got[c] \in Text /\ down[c] \in Text /\ out \in Text /\ Len(got[c]) \in Nat
  BY <1>1 DEF Typed, ClientsOK, SocketsOK, ServerOK, Text
<1>9. Unanswered(c) => ~(Len(got[c]) >= ReadLimit)
  <2>1. Unanswered(c) => Len(got[c]) = 0
    BY DEF Unanswered
  <2> QED BY <2>1, IpcAssumption
<1>10. /\ ~Queued(c) /\ ~(conn = c /\ pc \in {"read", "handle"})
  <2>1. hungup[c] \/ ~Unanswered(c)
    BY <1>3, <1>9
  <2> QED BY <1>6, <2>1 DEF Course, InQueue, Read, Heard, Asking
<1>11. Life(c)' /\ Suits(cmd[c].req.type, outcome[c])'
  BY <1>3, <1>4, <1>6, <1>7 DEF Course, Life
<1>12. ASSUME outcome[c] # Svc!Nothing
       PROVE  /\ Wired(outcome[c]) \in Text
              /\ outcome[c] \in Response /\ (outcome[c].type = "error"
                                              => outcome[c] = Svc!Refused)
  <2>1. outcome[c] \in Response /\ (outcome[c].type = "error"
                                     => outcome[c] = Svc!Refused)
    BY <1>1, <1>6, <1>12 DEF Typed, ServerOK, Course, Suits
  <2> QED BY <2>1, ResponseWired
<1>13. ASSUME hungup[c], outcome[c] = Svc!Nothing
       PROVE  Course(c)'
  <2>1. Unanswered(c) /\ ~Alive
    BY <1>3, <1>6, <1>13 DEF Course, Left
  <2>2. Reply(c).type = "error"
    BY <2>1 DEF Reply, DecodeReply, Unanswered
  <2>3. how = "failed"
    BY <1>2, <2>2 DEF ExitCode
  <2>4. Settled(c)' /\ ~(conn = c /\ pc = "write")
    BY <1>4, <1>6, <1>7, <1>13, <2>1, <2>3 DEF Settled, Course, Replied
  <2> QED BY <1>4, <1>7, <1>10, <1>11, <2>4
          DEF Course, Fresh, InQueue, Read, Heard, Replied, Left, Followed
<1>14. ASSUME outcome[c] # Svc!Nothing
       PROVE  Course(c)'
  <2>1. PICK u \in {<< >>, out} :
          /\ InPieces(Wired(outcome[c]), got[c], down[c], u)
          /\ hungup[c] => u = << >>
    BY <1>3, <1>6, <1>10, <1>14
       DEF Course, Followed, Served, Replied, Left, Unanswered
  <2>2. u \in Text
    <3>1. << >> \in Text
      BY DEF Text
    <3> QED BY <1>8, <2>1, <3>1
  <2>3. /\ Begins(got[c], Wired(outcome[c]))
        /\ Len(got[c]) = Len(Wired(outcome[c])) \/ Len(got[c]) >= ReadLimit
    BY <1>3, <1>8, <1>12, <1>14, <2>1, <2>2, PiecesBegin
  <2>4. Settled(c)'
    BY <1>2, <1>4, <1>7, <1>14, <2>3 DEF Settled
  <2>5. Replied(c)'
    BY <1>3, <1>4, <1>6, <1>7 DEF Course, Replied
  <2> QED BY <1>4, <1>7, <1>10, <1>11, <2>4, <2>5
          DEF Course, Fresh, InQueue, Read, Heard, Left, Followed
<1>15. ~hungup[c] => outcome[c] # Svc!Nothing
  BY <1>3, <1>6, <1>9, <1>10 DEF Course, Followed, Served, Replied
<1>16. \A d \in Client \ {c} : SameClient(d) /\ (Queued(d)' <=> Queued(d))
  BY <1>3, <1>4 DEF SameClient, Queued, serverVars
<1>17. UNCHANGED serverVars /\ (Told(c) => Told(c)')
  BY <1>3 DEF Told, serverVars
<1>18. Course(c)'
  BY <1>13, <1>14, <1>15
<1> QED BY <1>5, <1>16, <1>17, <1>18, ClientKeeps

\* Every step of a client.
LEMMA ClientStepKeeps ==
  ASSUME IpcInv, NEW c \in Client,
         ClientStep(c) \/ Kill(c) \/ \E k \in Command : Invoke(c, k)
  PROVE  IpcInv'
<1>1. CASE \E k \in Command : Invoke(c, k)
  BY <1>1, InvokeKeeps
<1>2. CASE Usage(c) \/ ConnectRefused(c)
  BY <1>2, NeverConnectedKeeps
<1>3. CASE Connect(c)
  BY <1>3, ConnectKeeps
<1>4. CASE WriteLine(c)
  <2>1. CASE hungup[c]
    <3>1. /\ at[c] \in {"connected", "waiting"} /\ Leave(c, "killed")
          /\ UNCHANGED <<cmd, got, up, down, hungup, queue, serverVars>>
      BY <1>4, <2>1 DEF WriteLine
    <3> QED BY <3>1, KilledKeeps
  <2> QED BY <1>4, <2>1, LineSentKeeps
<1>5. CASE ReadChunk(c)
  BY <1>5, ReadChunkKeeps
<1>6. CASE Finish(c)
  BY <1>6, FinishKeeps
<1>7. CASE Kill(c)
  <2>1. /\ at[c] \in {"connected", "waiting"} /\ Leave(c, "killed")
        /\ UNCHANGED <<cmd, got, up, down, hungup, queue, serverVars>>
    BY <1>7 DEF Kill, socketVars
  <2> QED BY <2>1, KilledKeeps
<1> QED BY <1>1, <1>2, <1>3, <1>4, <1>5, <1>6, <1>7 DEF ClientStep
-----------------------------------------------------------------------------
(* The steps of the daemon. *)

\* A step that concerns no client, or none at all.
LEMMA NobodyKeeps ==
  ASSUME IpcInv, Typed', UNCHANGED <<clientVars, socketVars, pc, conn, line, out,
                                     leaving, outcome>>
  PROVE  IpcInv'
<1>1. ASSUME NEW c \in Client PROVE Course(c)'
  <2>1. Course(c)
    BY DEF IpcInv
  <2>2. SameClient(c) /\ (Queued(c)' <=> Queued(c)) /\ (Alive' => Alive)
    BY DEF SameClient, Queued, Alive, clientVars, socketVars
  <2>3. UNCHANGED <<pc, conn, line, out>>
    OBVIOUS
  <2> QED BY <2>1, <2>2, <2>3, Bystander
<1>2. ToldToLeave'
  BY DEF IpcInv, ToldToLeave, Told, clientVars
<1> QED BY <1>1, <1>2, TypePartsNext DEF IpcInv

LEMMA ObserveKeeps ==
  ASSUME IpcInv, NEW sev \in 1..3, Observe(sev)
  PROVE  IpcInv'
<1>1. Typed
  BY TypeParts DEF IpcInv
<1>2. /\ session' = [session EXCEPT !.found = Append(session.found, sev)]
      /\ UNCHANGED <<clientVars, socketVars, pc, conn, line, out, leaving,
                     outcome>>
  BY DEF Observe, Svc!Found
<1>3. session' \in Sessions
  <2>1. session \in Sessions /\ session.found \in Seq(1..3)
    BY <1>1 DEF Typed, ServerOK, Sessions
  <2>2. Append(session.found, sev) \in Seq(1..3)
    BY <2>1
  <2> QED BY <1>2, <2>1, <2>2 DEF Sessions
<1>4. Typed'
  BY <1>1, <1>2, <1>3 DEF Typed, ClientsOK, SocketsOK, QueueOK, ConnOK, ServerOK,
                          clientVars, socketVars
<1> QED BY <1>2, <1>4, NobodyKeeps

LEMMA AcceptKeeps ==
  ASSUME IpcInv, Accept
  PROVE  IpcInv'
<1>1. Typed /\ ToldToLeave /\ \A d \in Client : Course(d)
  BY TypeParts DEF IpcInv
<1>2. PICK c : c = Head(queue)
  OBVIOUS
<1>3. /\ pc = "loop" /\ queue # << >> /\ conn' = c /\ queue' = Tail(queue)
      /\ line' = << >> /\ pc' = "read"
      /\ UNCHANGED <<cmd, exit, at, got, up, down, hungup, out, leaving,
                     session, outcome>>
  BY <1>2 DEF Accept, clientVars
<1>4. conn = NoClient /\ conn \notin Client
  BY <1>1, <1>3, IpcAssumption DEF Typed, ConnOK
<1>5. /\ c \in Client /\ queue' \in Seq(Client) /\ Len(queue') = Len(queue) - 1
      /\ c \in ToSet(queue) /\ ToSet(queue') = ToSet(queue) \ {c}
      /\ \A i, j \in DOMAIN queue' : queue'[i] = queue'[j] => i = j
  BY <1>1, <1>2, <1>3, Queueing DEF Typed, QueueOK
<1>6. Typed'
  <2>1. QueueOK'
    <3>1. Len(queue') <= Backlog
      BY <1>1, <1>5, IpcAssumption DEF Typed, QueueOK
    <3> QED BY <1>3, <1>5, <3>1 DEF QueueOK
  <2>2. ServerOK'
    <3>1. line' \in Text /\ Len(line') <= MaxLine
      <4>1. << >> \in Text /\ Len(<< >>) = 0
        BY DEF Text
      <4> QED BY <1>3, <4>1, IpcAssumption
    <3> QED BY <1>1, <1>3, <3>1 DEF Typed, ServerOK
  <2>3. ConnOK'
    BY <1>3, <1>5 DEF ConnOK
  <2>4. ClientsOK' /\ SocketsOK'
    BY <1>1, <1>3 DEF Typed, ClientsOK, SocketsOK
  <2> QED BY <2>1, <2>2, <2>3, <2>4 DEF Typed
<1>7. Alive /\ Alive'
  BY <1>3 DEF Alive
<1>8. Course(c)'
  <2>1. Queued(c) /\ ~Queued(c)' /\ Served(c)' /\ Course(c)
    BY <1>1, <1>3, <1>5 DEF Queued, Served
  <2>2. Asking(c, << >>)
    BY <2>1 DEF Course, InQueue
  <2>3. at[c] \notin {"idle", "start"}
    BY <2>1 DEF Course, Fresh
  <2>4. Asking(c, line)'
    BY <1>3, <2>2 DEF Asking, Unanswered, Sent
  <2>5. Life(c)'
    BY <1>3, <2>1, <2>3 DEF Course, Life
  <2>6. Left(c)' /\ Settled(c)' /\ Suits(cmd[c].req.type, outcome[c])'
    BY <1>3, <1>7, <2>1, <2>2 DEF Course, Left, Settled, Asking, Reply
  <2> QED BY <1>3, <2>1, <2>3, <2>4, <2>5, <2>6
          DEF Course, Fresh, InQueue, Read, Heard, Replied, Followed
<1>9. ASSUME NEW d \in Client \ {c} PROVE Course(d)'
  <2>1. /\ SameClient(d) /\ (Queued(d)' <=> Queued(d)) /\ (Alive' => Alive)
        /\ conn # d /\ conn' # d
    BY <1>3, <1>4, <1>5, <1>7 DEF SameClient, Queued
  <2> QED BY <1>1, <2>1, Bystander
<1>10. ToldToLeave'
  BY <1>1, <1>3 DEF ToldToLeave, Told
<1> QED BY <1>6, <1>8, <1>9, <1>10, TypePartsNext DEF IpcInv

\* A step that concerns the client it serves.
LEMMA ServingKeeps ==
  ASSUME IpcInv, NEW c \in Client, conn = c, conn' \in {c, NoClient},
         Typed', Course(c)', ToldToLeave', Alive' => Alive,
         \A d \in Client \ {c} : SameClient(d) /\ (Queued(d)' <=> Queued(d))
  PROVE  IpcInv'
<1>1. ASSUME NEW d \in Client \ {c} PROVE Course(d)'
  <2>1. Course(d) /\ conn # d /\ conn' # d
    BY IpcAssumption DEF IpcInv
  <2> QED BY <2>1, Bystander
<1> QED BY <1>1, TypePartsNext DEF IpcInv

LEMMA SentType ==
  ASSUME NEW c \in Client, cmd[c] \in Command
  PROVE  /\ Sent(c) \in Text /\ cmd[c].req \in Request
         /\ EncodeRequest(cmd[c].req) \in Text
         /\ Len(Sent(c)) = Len(EncodeRequest(cmd[c].req)) + 1
         /\ Sent(c)[Len(Sent(c))] = NL
         /\ \A i \in 1..Len(EncodeRequest(cmd[c].req)) :
              Sent(c)[i] = EncodeRequest(cmd[c].req)[i]
<1>1. PICK e, nl, w : e = EncodeRequest(cmd[c].req) /\ nl = NL /\ w = Append(e, nl)
  OBVIOUS
<1>2. cmd[c].req \in Request
  BY IpcAssumption
<1>3. e \in Text /\ nl \in Symbol
  BY <1>1, <1>2, RequestEncoded, WordsAreSymbols DEF Separators
<1>4. /\ w \in Text /\ Len(w) = Len(e) + 1 /\ w[Len(w)] = nl
      /\ \A i \in 1..Len(e) : w[i] = e[i]
  BY <1>1, <1>3 DEF Text
<1> QED BY <1>1, <1>2, <1>3, <1>4 DEF Sent

LEMMA ReadSymbolKeeps ==
  ASSUME IpcInv, ReadSymbol
  PROVE  IpcInv'
<1>1. Typed /\ ToldToLeave /\ \A d \in Client : Course(d)
  BY TypeParts DEF IpcInv
<1>2. PICK c, h : c = conn /\ h = Head(up[c])
  OBVIOUS
<1>3. /\ pc = "read" /\ conn' = c /\ c = conn /\ c \in Client
      /\ Len(line) < MaxLine /\ up[c] # << >>
      /\ up' = [up EXCEPT ![c] = Tail(up[c])]
      /\ \/ h = NL /\ pc' = "handle" /\ line' = line
         \/ h # NL /\ pc' = "read" /\ line' = Append(line, h)
      /\ UNCHANGED <<cmd, exit, at, got, down, hungup, queue, out, leaving,
                     session, outcome>>
  BY <1>1, <1>2 DEF ReadSymbol, Typed, ConnOK, clientVars
<1>4. Course(c) /\ Asking(c, line)
  BY <1>1, <1>3 DEF Course, Read
<1>5. PICK w : w = Sent(c)
  OBVIOUS
<1>6. /\ InPieces(w, line, up[c], << >>) /\ Unanswered(c) /\ ~hungup[c]
      /\ at[c] = "waiting" \/ exit[c] = "killed"
      /\ \A i \in 1..Len(line) : line[i] # NL
  BY <1>3, <1>4, <1>5 DEF Asking
<1>7. /\ cmd[c] \in Command /\ w \in Text
  <2>1. cmd[c] \in Command
    BY <1>4, <1>6 DEF Course, Life
  <2> QED BY <1>3, <1>5, <2>1, SentType
<1>8. line \in Text /\ up[c] \in Text /\ << >> \in Text /\ Len(line) \in Nat
  BY <1>1, <1>3 DEF Typed, SocketsOK, ServerOK, Text
<1>9. /\ InPieces(w, Append(line, h), Tail(up[c]), << >>)
      /\ Len(line) < Len(w) /\ w[Len(line) + 1] = h /\ h \in Symbol
      /\ Tail(up[c]) \in Text /\ Append(line, h) \in Text
      /\ Len(Append(line, h)) = Len(line) + 1
  BY <1>2, <1>3, <1>6, <1>7, <1>8, PiecesNext
<1>10. /\ up'[c] = Tail(up[c])
       /\ \A d \in Client \ {c} : up'[d] = up[d]
  BY <1>1, <1>3 DEF Typed, SocketsOK
<1>11. Typed'
  <2>1. line' \in Text /\ Len(line') <= MaxLine
    <3>1. PICK x : x = Append(line, h)
      OBVIOUS
    <3>2. line' = line \/ line' = x
      BY <1>3, <3>1
    <3>3. x \in Text /\ Len(x) = Len(line) + 1
      BY <1>9, <3>1
    <3>4. Len(line) < MaxLine
      BY <1>3
    <3> QED BY <1>8, <3>2, <3>3, <3>4, IpcAssumption
  <2>2. SocketsOK'
    BY <1>1, <1>3, <1>9 DEF Typed, SocketsOK
  <2> QED BY <1>1, <1>3, <2>1, <2>2
          DEF Typed, ClientsOK, QueueOK, ConnOK, ServerOK
<1>12. /\ (Queued(c)' <=> Queued(c)) /\ Served(c)' /\ Served(c) /\ ~Queued(c)
       /\ Unanswered(c)' /\ Sent(c)' = w /\ Alive /\ Alive'
  BY <1>1, <1>3, <1>5, <1>6
     DEF Queued, Served, Unanswered, Sent, Alive, Typed, QueueOK
<1>13. /\ at[c] \notin {"idle", "start"} /\ cmd'[c] \in Command
  BY <1>3, <1>4, <1>6, <1>7 DEF Course, Life
<1>14. Life(c)'
  BY <1>3, <1>4, <1>12 DEF Course, Life
<1>15. ASSUME h = NL PROVE Heard(c)'
  <2>1. line' = line
    BY <1>3, <1>15
  <2>2. AsSent(c)'
    BY <1>5, <1>6, <1>9, <1>12, <1>15, <2>1 DEF AsSent, InPieces
  <2> QED BY <1>3, <1>6, <1>12, <2>2 DEF Heard
<1>16. ASSUME h # NL PROVE Read(c)'
  <2>1. PICK x : x = Append(line, h)
    OBVIOUS
  <2>2. line' = x /\ InPieces(w, x, up'[c], << >>)
    BY <1>3, <1>9, <1>10, <1>16, <2>1
  <2>3. \A i \in 1..Len(x) : x[i] # NL
    <3>1. /\ Len(x) = Len(line) + 1 /\ x[Len(line) + 1] = h
          /\ \A i \in 1..Len(line) : x[i] = line[i]
      BY <1>8, <1>9, <2>1 DEF Text
    <3> QED BY <1>6, <1>8, <1>16, <3>1
  <2> QED BY <1>3, <1>6, <1>12, <2>2, <2>3 DEF Read, Asking
<1>17. Course(c)'
  BY <1>3, <1>4, <1>6, <1>12, <1>13, <1>14, <1>15, <1>16
     DEF Course, Fresh, InQueue, Read, Heard, Replied, Left, Settled, Followed,
         Reply
<1>18. ToldToLeave'
  BY <1>1, <1>3 DEF ToldToLeave, Told
<1>19. \A d \in Client \ {c} : SameClient(d) /\ (Queued(d)' <=> Queued(d))
  BY <1>3, <1>10 DEF SameClient, Queued
<1> QED BY <1>3, <1>11, <1>12, <1>17, <1>18, <1>19, ServingKeeps

LEMMA ReadEndKeeps ==
  ASSUME IpcInv, ReadEnd
  PROVE  IpcInv'
<1>1. Typed /\ ToldToLeave /\ \A d \in Client : Course(d)
  BY TypeParts DEF IpcInv
<1>2. PICK c : c = conn
  OBVIOUS
<1>3. /\ pc = "read" /\ conn' = c /\ c = conn /\ c \in Client
      /\ Len(line) >= MaxLine \/ (up[c] = << >> /\ at[c] # "connected")
      /\ pc' = "handle"
      /\ UNCHANGED <<cmd, exit, at, got, up, down, hungup, queue, line, out,
                     leaving, session, outcome>>
  BY <1>1, <1>2 DEF ReadEnd, Typed, ConnOK, clientVars, socketVars
<1>4. Course(c) /\ Asking(c, line) /\ Unanswered(c) /\ ~hungup[c]
  BY <1>1, <1>3 DEF Course, Read, Asking
<1>5. line \in Text /\ up[c] \in Text /\ << >> \in Text /\ Len(line) \in Nat
      /\ Len(up[c]) \in Nat
  BY <1>1, <1>3 DEF Typed, SocketsOK, ServerOK, Text
<1>6. Typed'
  BY <1>1, <1>3 DEF Typed, ClientsOK, SocketsOK, QueueOK, ConnOK, ServerOK
<1>7. /\ (Queued(c)' <=> Queued(c)) /\ Served(c)' /\ Served(c) /\ ~Queued(c)
      /\ Unanswered(c)' /\ Sent(c)' = Sent(c) /\ Alive /\ Alive'
  BY <1>1, <1>3, <1>4
     DEF Queued, Served, Unanswered, Sent, Alive, Typed, QueueOK
<1>8. Life(c)'
  BY <1>3, <1>4, <1>7 DEF Course, Life
<1>9. Heard(c)'
  <2>1. CASE line = << >> /\ up[c] = << >>
                /\ (at[c] = "connected" \/ exit[c] = "killed")
    <3>1. ~(Len(line) >= MaxLine)
      <4>1. Len(line) = 0
        BY <2>1
      <4> QED BY <4>1, IpcAssumption
    <3> QED BY <1>3, <1>7, <1>4, <2>1, <3>1 DEF Heard
  <2>2. CASE /\ at[c] = "waiting" \/ exit[c] = "killed"
             /\ InPieces(Sent(c), line, up[c], << >>)
             /\ \A i \in 1..Len(line) : line[i] # NL
    <3>1. PICK w : w = Sent(c)
      OBVIOUS
    <3>2. w \in Text /\ w[Len(w)] = NL /\ Len(w) \in Nat /\ Len(w) >= 1
      <4>1. cmd[c] \in Command
        BY <1>4, <2>2 DEF Course, Life
      <4>2. /\ w \in Text /\ w[Len(w)] = NL
            /\ EncodeRequest(cmd[c].req) \in Text
            /\ Len(w) = Len(EncodeRequest(cmd[c].req)) + 1
        BY <1>3, <3>1, <4>1, SentType
      <4>3. Len(EncodeRequest(cmd[c].req)) \in Nat
        BY <4>2 DEF Text
      <4> QED BY <4>2, <4>3
    <3>3. /\ Len(w) = Len(line) + Len(up[c])
          /\ \A i \in 1..Len(line) : w[i] = line[i]
      <4>1. Len(<< >>) = 0
        OBVIOUS
      <4> QED BY <1>5, <2>2, <3>1, <4>1 DEF InPieces
    <3>4. Len(line) < Len(w)
      <4>1. Len(line) # Len(w)
        BY <2>2, <3>2, <3>3
      <4> QED BY <1>5, <3>3, <4>1
    <3>5. up[c] # << >>
      <4>1. Len(up[c]) # 0
        BY <1>5, <3>3, <3>4
      <4> QED BY <4>1
    <3>6. Len(line) >= MaxLine
      BY <1>3, <3>5
    <3>7. AsSent(c)'
      BY <1>3, <1>7, <2>2, <3>1, <3>3, <3>4, <3>6 DEF AsSent
    <3> QED BY <1>3, <1>4, <1>7, <2>2, <3>7 DEF Heard
  <2> QED BY <1>4, <2>1, <2>2 DEF Asking
<1>10. at[c] \notin {"idle", "start"}
  BY <1>3, <1>4 DEF Course, Fresh
<1>11. Course(c)'
  BY <1>3, <1>4, <1>7, <1>8, <1>9, <1>10
     DEF Course, Fresh, InQueue, Read, Replied, Left, Settled, Followed, Reply
<1>12. ToldToLeave'
  BY <1>1, <1>3 DEF ToldToLeave, Told
<1>13. \A d \in Client \ {c} : SameClient(d) /\ (Queued(d)' <=> Queued(d))
  BY <1>3 DEF SameClient, Queued
<1> QED BY <1>3, <1>6, <1>7, <1>11, <1>12, <1>13, ServingKeeps

\* What is read is decoded as what was sent, or as a request of its kind, or
\* refused; who has sent nothing is refused.
LEMMA HandleKeeps ==
  ASSUME IpcInv, Handle
  PROVE  IpcInv'
<1>1. Typed /\ ToldToLeave /\ \A d \in Client : Course(d)
  BY TypeParts DEF IpcInv
<1>2. PICK c, d : c = conn /\ d = DecodeRequest(line)
  OBVIOUS
<1>3. PICK r \in IF d.ok THEN Svc!Handled(d.value, session)
                 ELSE {Svc!Did(Svc!Refused, session)} :
        /\ pc = "handle" /\ pc' = "write" /\ conn' = c /\ c = conn
        /\ c \in Client
        /\ session' = r.session /\ out' = Wired(r.response)
        /\ outcome' = [outcome EXCEPT ![c] = r.response]
        /\ leaving' = (leaving \/ (d.ok /\ d.value.type = "shutdown"))
        /\ UNCHANGED <<cmd, exit, at, got, up, down, hungup, queue, line>>
  BY <1>1, <1>2 DEF Handle, Typed, ConnOK, clientVars, socketVars
<1>4. Course(c) /\ Unanswered(c) /\ ~hungup[c]
      /\ (at[c] = "waiting" \/ exit[c] = "killed")
      /\ ((line = << >> /\ exit[c] = "killed") \/ AsSent(c))
  BY <1>1, <1>3 DEF Course, Heard
<1>5. cmd[c] \in Command /\ at[c] \in {"waiting", "closed"}
      /\ exit[c] \in {"none", "killed"}
  BY <1>1, <1>3, <1>4 DEF Course, Life, Typed, ClientsOK
<1>6. line \in Text /\ session \in Sessions
  BY <1>1 DEF Typed, ServerOK
<1>7. ASSUME d.ok
      PROVE  d.value \in Request /\ d.value.type = cmd[c].req.type
  <2>1. d.value \in Request /\ line # << >>
    BY <1>2, <1>6, <1>7, DecodedType
  <2>2. AsSent(c)
    BY <1>4, <2>1
  <2>3. PICK q, w : q = cmd[c].req /\ w = Append(EncodeRequest(q), NL)
    OBVIOUS
  <2>4. q \in Request
    BY <1>5, <2>3, IpcAssumption
  <2>5. Len(line) < Len(w) /\ \A i \in 1..Len(line) : line[i] = w[i]
    BY <2>2, <2>3 DEF AsSent, Sent
  <2>6. DecodeRequest(line).value.type = q.type
    BY <1>2, <1>6, <1>7, <2>3, <2>4, <2>5, CutLineKeepsType
  <2> QED BY <1>2, <2>1, <2>3, <2>6
<1>8. /\ r.response \in Response /\ r.response # Svc!Nothing
      /\ Suits(cmd[c].req.type, r.response)
      /\ d.ok /\ d.value.type = "shutdown" => r.response.type = "ok"
      /\ r.session \in Sessions
  <2>1. CASE d.ok
    BY <1>3, <1>6, <1>7, <2>1, HandledType
  <2>2. CASE ~d.ok
    <3>1. r.response = Svc!Refused /\ r.session = session
      BY <1>3, <2>2 DEF Svc!Did
    <3>2. Suits(cmd[c].req.type, Svc!Refused) /\ Svc!Refused # Svc!Nothing
      BY DEF Suits, Svc!Refused, Svc!Nothing
    <3> QED BY <1>6, <2>2, <3>1, <3>2, RefusalWired
  <2> QED BY <2>1, <2>2
<1>9. PICK w : w = Wired(r.response)
  OBVIOUS
<1>10. w \in Text
  BY <1>8, <1>9, ResponseWired DEF Suits
<1>11. /\ outcome'[c] = r.response
       /\ \A b \in Client \ {c} : outcome'[b] = outcome[b]
  BY <1>1, <1>3 DEF Typed, ServerOK
<1>12. Typed'
  <2>1. out' \in Text
    BY <1>3, <1>9, <1>10
  <2>2. outcome' \in [Client -> Response \cup {Svc!Nothing}]
    BY <1>1, <1>3, <1>8 DEF Typed, ServerOK
  <2>3. ServerOK'
    BY <1>1, <1>3, <1>8, <2>1, <2>2 DEF Typed, ServerOK
  <2> QED BY <1>1, <1>3, <2>3
          DEF Typed, ClientsOK, SocketsOK, QueueOK, ConnOK
<1>13. /\ (Queued(c)' <=> Queued(c)) /\ Served(c)' /\ Served(c) /\ ~Queued(c)
       /\ Alive /\ Alive'
  BY <1>1, <1>3 DEF Queued, Served, Alive, Typed, QueueOK
<1>14. Life(c)'
  BY <1>3, <1>4, <1>13 DEF Course, Life
<1>15. Replied(c)'
  <2>1. InPieces(w, << >>, << >>, w)
    BY <1>10, PiecesStart
  <2> QED BY <1>3, <1>4, <1>5, <1>8, <1>9, <1>11, <2>1 DEF Replied, Unanswered
<1>16. Suits(cmd[c].req.type, outcome[c])'
  BY <1>3, <1>8, <1>11
<1>17. Course(c)'
  BY <1>3, <1>4, <1>5, <1>13, <1>14, <1>15, <1>16
     DEF Course, Fresh, InQueue, Read, Heard, Left, Settled, Followed
<1>18. ToldToLeave'
  <2>1. CASE d.ok /\ d.value.type = "shutdown"
    <3>1. Told(c)'
      BY <1>3, <1>7, <1>8, <1>11, <2>1 DEF Told
    <3> QED BY <1>3, <3>1 DEF ToldToLeave
  <2>2. ASSUME leaving PROVE ToldToLeave'
    <3>1. PICK b \in Client : Told(b)
      BY <1>1, <2>2 DEF ToldToLeave
    <3>2. b # c
      BY <1>4, <3>1 DEF Told, Unanswered, Svc!Nothing
    <3>3. Told(b)'
      BY <1>3, <1>11, <3>1, <3>2 DEF Told
    <3> QED BY <3>3 DEF ToldToLeave
  <2>3. ASSUME ~leaving' PROVE ToldToLeave'
    BY <2>3 DEF ToldToLeave
  <2>4. leaving' => leaving \/ (d.ok /\ d.value.type = "shutdown")
    BY <1>3
  <2> QED BY <2>1, <2>2, <2>3, <2>4
<1>19. \A b \in Client \ {c} : SameClient(b) /\ (Queued(b)' <=> Queued(b))
  BY <1>3, <1>11 DEF SameClient, Queued
<1> QED BY <1>3, <1>12, <1>13, <1>17, <1>18, <1>19, ServingKeeps

LEMMA WriteSomeKeeps ==
  ASSUME IpcInv, WriteSome
  PROVE  IpcInv'
<1>1. Typed /\ ToldToLeave /\ \A d \in Client : Course(d)
  BY TypeParts DEF IpcInv
<1>2. PICK c : c = conn
  OBVIOUS
<1>3. PICK n : n = Smaller(SockCap - Len(down[c]), Len(out))
  OBVIOUS
<1>4. PICK t, u : /\ t = down[c] \o SubSeq(out, 1, n)
                  /\ u = SubSeq(out, n + 1, Len(out))
  OBVIOUS
<1>5. /\ pc = "write" /\ conn' = c /\ c = conn /\ c \in Client
      /\ at[c] # "closed" /\ n > 0
      /\ down' = [down EXCEPT ![c] = t] /\ out' = u
      /\ UNCHANGED <<cmd, exit, at, got, up, hungup, queue, pc, line, leaving,
                     session, outcome>>
  BY <1>1, <1>2, <1>3, <1>4 DEF WriteSome, Typed, ConnOK, clientVars
<1>6. down[c] \in Text /\ got[c] \in Text /\ out \in Text
      /\ Len(down[c]) \in Nat /\ Len(out) \in Nat
  BY <1>1, <1>5 DEF Typed, ClientsOK, SocketsOK, ServerOK, Text
<1>7. n \in 1..Len(out) /\ n <= SockCap - Len(down[c])
  <2>1. PICK a, b : a = SockCap - Len(down[c]) /\ b = Len(out)
    OBVIOUS
  <2>2. a \in Int /\ b \in Nat
    BY <1>6, <2>1, IpcAssumption
  <2>3. n > 0 /\ n = Smaller(a, b)
    BY <1>3, <1>5, <2>1
  <2>4. n \in 1..b /\ n <= a
    BY <2>2, <2>3 DEF Smaller
  <2> QED BY <2>1, <2>4
<1>8. t \in Text /\ Len(t) = Len(down[c]) + n /\ u \in Text
  BY <1>4, <1>6, <1>7, PieceType
<1>9. /\ down'[c] = t
      /\ \A d \in Client \ {c} : down'[d] = down[d]
  BY <1>1, <1>5 DEF Typed, SocketsOK
<1>10. Typed'
  <2>1. Len(t) <= SockCap
    BY <1>6, <1>7, <1>8, IpcAssumption
  <2>2. SocketsOK'
    BY <1>1, <1>5, <1>8, <1>9, <2>1 DEF Typed, SocketsOK
  <2>3. ServerOK'
    BY <1>1, <1>5, <1>8 DEF Typed, ServerOK
  <2> QED BY <1>1, <1>5, <2>2, <2>3
          DEF Typed, ClientsOK, QueueOK, ConnOK
<1>11. Course(c)
  BY <1>1, <1>5
<1>12. /\ outcome[c] # Svc!Nothing /\ ~hungup[c] /\ at[c] = "waiting"
       /\ InPieces(Wired(outcome[c]), got[c], down[c], out)
       /\ exit[c] = "none"
  BY <1>5, <1>11 DEF Course, Replied, Life
<1>13. /\ (Queued(c)' <=> Queued(c)) /\ Served(c)' /\ Served(c) /\ ~Queued(c)
       /\ (Alive' <=> Alive)
  BY <1>1, <1>5 DEF Queued, Served, Alive, Typed, QueueOK
<1>14. Replied(c)'
  <2>1. outcome[c] \in Response /\ (outcome[c].type = "error"
                                     => outcome[c] = Svc!Refused)
    BY <1>1, <1>5, <1>11, <1>12 DEF Typed, ServerOK, Course, Suits
  <2>2. PICK w : w = Wired(outcome[c])
    OBVIOUS
  <2>3. w \in Text
    BY <2>1, <2>2, ResponseWired
  <2>4. InPieces(w, got[c], t, u)
    BY <1>4, <1>6, <1>7, <1>12, <2>2, <2>3, PiecesWritten
  <2> QED BY <1>5, <1>9, <1>12, <2>2, <2>4 DEF Replied
<1>15. Life(c)' /\ Suits(cmd[c].req.type, outcome[c])'
  BY <1>5, <1>11, <1>13 DEF Course, Life
<1>16. Course(c)'
  BY <1>5, <1>12, <1>13, <1>14, <1>15
     DEF Course, Fresh, InQueue, Read, Heard, Left, Settled, Followed
<1>17. ToldToLeave'
  BY <1>1, <1>5 DEF ToldToLeave, Told
<1>18. \A d \in Client \ {c} : SameClient(d) /\ (Queued(d)' <=> Queued(d))
  BY <1>5, <1>9 DEF SameClient, Queued
<1> QED BY <1>5, <1>10, <1>13, <1>16, <1>17, <1>18, ServingKeeps

LEMMA CloseClientKeeps ==
  ASSUME IpcInv, CloseClient
  PROVE  IpcInv'
<1>1. Typed /\ ToldToLeave /\ \A d \in Client : Course(d)
  BY TypeParts DEF IpcInv
<1>2. PICK c : c = conn
  OBVIOUS
<1>3. /\ pc = "write" /\ pc' = "loop" /\ conn' = NoClient /\ c = conn
      /\ c \in Client /\ out = << >>
      /\ hungup' = [d \in Client |-> hungup[d] \/ d = c]
      /\ UNCHANGED <<cmd, exit, at, got, up, down, queue, line, out, leaving,
                     session, outcome>>
  BY <1>1, <1>2 DEF CloseClient, HangUp, Typed, ConnOK, clientVars
<1>4. /\ hungup'[c] = TRUE
      /\ \A d \in Client \ {c} : hungup'[d] = hungup[d]
  BY <1>1, <1>3 DEF Typed, SocketsOK
<1>5. c # NoClient /\ NoClient \notin ToSet(queue)
  <2>1. ToSet(queue) \subseteq Client
    BY <1>1 DEF Typed, QueueOK, ToSet
  <2> QED BY <1>3, <2>1, IpcAssumption
<1>6. Typed'
  <2>1. QueueOK'
    BY <1>1, <1>3, <1>5 DEF Typed, QueueOK
  <2>2. SocketsOK'
    BY <1>1, <1>3 DEF Typed, SocketsOK
  <2> QED BY <1>1, <1>3, <2>1, <2>2
          DEF Typed, ClientsOK, ConnOK, ServerOK
<1>7. Course(c)
  BY <1>1, <1>3
<1>8. /\ outcome[c] # Svc!Nothing /\ at[c] \in {"waiting", "closed"}
      /\ InPieces(Wired(outcome[c]), got[c], down[c], << >>)
  BY <1>3, <1>7 DEF Course, Replied
<1>9. /\ ~Queued(c)' /\ ~Served(c)' /\ Served(c) /\ Alive /\ Alive'
  BY <1>1, <1>3, <1>5 DEF Queued, Served, Alive, Typed, QueueOK
<1>10. Life(c)'
  BY <1>3, <1>7, <1>9 DEF Course, Life
<1>11. Left(c)'
  BY <1>3, <1>8 DEF Left
<1>12. Settled(c)'
  <2>1. Reply(c)' = Reply(c)
    BY <1>3 DEF Reply
  <2> QED BY <1>3, <1>7, <1>9, <2>1 DEF Course, Settled
<1>13. Suits(cmd[c].req.type, outcome[c])'
  BY <1>3, <1>7 DEF Course
<1>14. Course(c)'
  BY <1>3, <1>4, <1>5, <1>8, <1>9, <1>10, <1>11, <1>12, <1>13
     DEF Course, Fresh, InQueue, Read, Heard, Replied, Followed
<1>15. ToldToLeave'
  BY <1>1, <1>3 DEF ToldToLeave, Told
<1>16. \A d \in Client \ {c} : SameClient(d) /\ (Queued(d)' <=> Queued(d))
  BY <1>3, <1>4 DEF SameClient, Queued
<1> QED BY <1>3, <1>6, <1>9, <1>14, <1>15, <1>16, ServingKeeps

\* The daemon goes, and closes the connections S it still had: the one it
\* serves and all that wait.
LEMMA GoneKeeps ==
  ASSUME IpcInv, NEW S, HangUp(S), ToSet(queue) \subseteq S, queue' = << >>,
         pc' \in {"exited", "killed"}, pc \in {"loop", "write"},
         S \subseteq ToSet(queue) \cup {conn},
         conn \in Client => conn \in S /\ at[conn] = "closed",
         UNCHANGED <<clientVars, up, down, conn, line, out, leaving, session,
                     outcome>>
  PROVE  IpcInv'
<1>1. Typed /\ ToldToLeave /\ \A d \in Client : Course(d)
  BY TypeParts DEF IpcInv
<1>2. /\ hungup' = [d \in Client |-> hungup[d] \/ d \in S]
      /\ UNCHANGED <<cmd, exit, at, got>>
  BY DEF HangUp, clientVars
<1>3. ToSet(queue') = {} /\ queue' \in Seq(Client) /\ Len(queue') = 0
  BY DEF ToSet
<1>4. Typed'
  <2>1. QueueOK'
    <3>1. \A i, j \in DOMAIN queue' : queue'[i] = queue'[j] => i = j
      BY <1>3
    <3>2. Len(queue') <= Backlog
      BY <1>3, IpcAssumption
    <3> QED BY <1>3, <3>1, <3>2 DEF QueueOK
  <2>2. SocketsOK'
    BY <1>1, <1>2 DEF Typed, SocketsOK
  <2> QED BY <1>1, <1>2, <2>1, <2>2
          DEF Typed, ClientsOK, ConnOK, ServerOK
<1>5. ~Alive' /\ Alive
  BY DEF Alive
<1>6. ASSUME NEW d \in Client PROVE Course(d)'
  <2>1. Course(d)
    BY <1>1
  <2>2. /\ ~Queued(d)' /\ ~Served(d)'
        /\ ~(conn' = d /\ pc' \in {"read", "handle", "write"})
        /\ Reply(d)' = Reply(d)
    BY <1>2, <1>3 DEF Queued, Served, Reply
  <2>3. Life(d)'
    BY <1>2, <2>1, <2>2 DEF Course, Life
  <2>4. Fresh(d)'
    <3>1. ASSUME at[d] \in {"idle", "start"}
          PROVE  /\ Unanswered(d)' /\ up'[d] = << >> /\ ~hungup'[d] /\ conn' # d
      <4>1. Unanswered(d) /\ up[d] = << >> /\ ~hungup[d] /\ ~Queued(d) /\ conn # d
        BY <2>1, <3>1 DEF Course, Fresh
      <4>2. d \notin S
        BY <4>1 DEF Queued
      <4> QED BY <1>2, <4>1, <4>2 DEF Unanswered
    <3> QED BY <1>2, <2>2, <3>1 DEF Fresh
  <2>5. Left(d)'
    <3>1. ASSUME at[d] \in {"connected", "waiting"}, hungup'[d]
          PROVE  \/ Unanswered(d)'
                 \/ /\ outcome'[d] # Svc!Nothing /\ at'[d] = "waiting"
                    /\ InPieces(Wired(outcome[d]), got[d], down[d], << >>)'
      <4>1. CASE hungup[d]
        BY <1>2, <2>1, <3>1, <4>1 DEF Course, Left, Unanswered
      <4>2. CASE ~hungup[d]
        <5>1. d \in S
          BY <1>2, <3>1, <4>2
        <5>2. Queued(d)
          BY <3>1, <5>1 DEF Queued
        <5> QED BY <1>2, <2>1, <5>2 DEF Course, InQueue, Asking, Unanswered
      <4> QED BY <4>1, <4>2
    <3> QED BY <1>2, <1>5, <3>1 DEF Left
  <2>6. Settled(d)'
    BY <1>2, <1>5, <2>1, <2>2 DEF Course, Settled
  <2>7. Followed(d)'
    <3>1. ASSUME at[d] \in {"connected", "waiting"} PROVE hungup'[d]
      <4>1. Queued(d) \/ Served(d) \/ hungup[d]
        BY <2>1, <3>1 DEF Course, Followed
      <4>2. Served(d) => d \in S
        BY DEF Served
      <4> QED BY <1>2, <4>1, <4>2 DEF Queued
    <3> QED BY <1>2, <3>1 DEF Followed
  <2>8. Suits(cmd[d].req.type, outcome[d])'
    BY <1>2, <2>1 DEF Course
  <2> QED BY <2>2, <2>3, <2>4, <2>5, <2>6, <2>7, <2>8
          DEF Course, InQueue, Read, Heard, Replied
<1>7. ToldToLeave'
  BY <1>1, <1>2 DEF ToldToLeave, Told
<1> QED BY <1>4, <1>6, <1>7, TypePartsNext DEF IpcInv

LEMMA DaemonStepKeeps ==
  ASSUME IpcInv, DaemonStep
  PROVE  IpcInv'
<1>1. Typed
  BY TypeParts DEF IpcInv
<1>2. CASE WriteToNobody
  <2>1. /\ conn \in Client /\ at[conn] = "closed" /\ pc = "write"
        /\ HangUp({conn} \cup ToSet(queue)) /\ queue' = << >> /\ pc' = "killed"
        /\ UNCHANGED <<clientVars, up, down, conn, line, out, leaving, session,
                       outcome>>
    BY <1>1, <1>2 DEF WriteToNobody, Typed, ConnOK
  <2> QED BY <2>1, GoneKeeps
<1>3. CASE LeaveLoop
  <2>1. /\ conn \notin Client /\ pc = "loop" /\ HangUp(ToSet(queue))
        /\ queue' = << >> /\ pc' = "exited"
        /\ UNCHANGED <<clientVars, up, down, conn, line, out, leaving, session,
                       outcome>>
    BY <1>1, <1>3, IpcAssumption DEF LeaveLoop, Typed, ConnOK
  <2> QED BY <2>1, GoneKeeps
<1> QED BY <1>2, <1>3, AcceptKeeps, ReadSymbolKeeps, ReadEndKeeps, HandleKeeps,
           WriteSomeKeeps, CloseClientKeeps DEF DaemonStep
-----------------------------------------------------------------------------
(* The invariant, and what follows from it. *)

LEMMA IpcInit == Init => IpcInv
<1> SUFFICES ASSUME Init PROVE IpcInv
  OBVIOUS
<1>1. Typed
  <2>1. /\ << >> \in Text /\ Len(<< >>) = 0
        /\ << >> \in Seq(Client) /\ << >> \in Seq(1..3)
    BY DEF Text
  <2>2. ClientsOK /\ SocketsOK
    BY <2>1, IpcAssumption DEF Init, ClientsOK, SocketsOK
  <2>3. QueueOK
    <3>1. ToSet(<< >>) = {} /\ \A i, j \in DOMAIN << >> : << >>[i] = << >>[j] => i = j
      BY DEF ToSet
    <3> QED BY <2>1, <3>1, IpcAssumption DEF Init, QueueOK
  <2>4. session \in Sessions
    BY <2>1 DEF Init, Sessions, Svc!Idle
  <2>5. ServerOK
    <3>1. line \in Text /\ out \in Text /\ Len(line) <= MaxLine
      BY <2>1, IpcAssumption DEF Init
    <3>2. outcome \in [Client -> Response \cup {Svc!Nothing}] /\ leaving \in BOOLEAN
      BY DEF Init
    <3> QED BY <2>4, <3>1, <3>2 DEF ServerOK
  <2>6. ConnOK
    BY DEF Init, ConnOK
  <2> QED BY <2>2, <2>3, <2>5, <2>6 DEF Typed
<1>2. ASSUME NEW c \in Client PROVE Course(c)
  <2>1. ToSet(queue) = {}
    BY DEF Init, ToSet
  <2>2. Suits(cmd[c].req.type, outcome[c])
    BY DEF Init, Suits, Svc!Nothing
  <2> QED BY <2>1, <2>2, IpcAssumption
          DEF Init, Course, Life, Fresh, InQueue, Read, Heard, Replied, Left,
              Settled, Followed, Queued, Served, Unanswered
<1>3. ToldToLeave
  BY DEF Init, ToldToLeave
<1> QED BY <1>1, <1>2, <1>3, TypeParts DEF IpcInv

LEMMA IpcStep == IpcInv /\ [Next]_vars => IpcInv'
<1> SUFFICES ASSUME IpcInv, [Next]_vars PROVE IpcInv'
  OBVIOUS
<1>1. CASE DaemonStep
  BY <1>1, DaemonStepKeeps
<1>2. CASE \E sev \in 1..3 : Observe(sev)
  BY <1>2, ObserveKeeps
<1>3. ASSUME NEW c \in Client,
             ClientStep(c) \/ Kill(c) \/ \E k \in Command : Invoke(c, k)
      PROVE  IpcInv'
  BY <1>3, ClientStepKeeps
<1>4. CASE UNCHANGED vars
  <2>1. Typed
    BY TypeParts DEF IpcInv
  <2>2. Typed'
    BY <1>4, <2>1 DEF Typed, ClientsOK, SocketsOK, QueueOK, ConnOK, ServerOK,
                      vars, clientVars, socketVars, serverVars
  <2> QED BY <1>4, <2>2, NobodyKeeps DEF vars, serverVars
<1> QED BY <1>1, <1>2, <1>3, <1>4 DEF Next

LEMMA IpcAlways == Spec => []IpcInv
BY IpcInit, IpcStep, PTL DEF Spec

\* Every variable has its type; no connection is queued twice or while it is
\* served, and no buffer is fuller than its owner lets it get
\* (ipcserver.cpp:74-121, io.cpp:12-91).
THEOREM IpcTypeCorrect == Spec => []TypeOK
<1>1. IpcInv => TypeOK
  BY DEF IpcInv
<1> QED BY <1>1, IpcAlways, PTL

\* The exit status of a report command with a gate says whether the highest
\* severity stays below the gate, however the reply was cut
\* (proto.cpp:241-264, ctl/main.cpp:65-78).
THEOREM GateCorrect == Spec => []GateHolds
<1>1. IpcInv => GateHolds
  <2> SUFFICES ASSUME IpcInv, NEW c \in Client, exit[c] \in {"ok", "failed"},
                      outcome[c].type = "report", cmd[c].fail_on # 0
               PROVE  exit[c] = "ok" <=> outcome[c].severity < cmd[c].fail_on
    BY DEF GateHolds
  <2>1. Typed /\ Course(c)
    BY TypeParts DEF IpcInv
  <2>2. PICK r, k : r = outcome[c] /\ k = cmd[c]
    OBVIOUS
  <2>3. /\ r # Svc!Nothing /\ Begins(got[c], Wired(r))
        /\ Len(got[c]) = Len(Wired(r)) \/ Len(got[c]) >= ReadLimit
        /\ exit[c] = ExitCode(k, Reply(c))
        /\ Suits(k.req.type, r)
    BY <2>1, <2>2 DEF Course, Settled, Svc!Nothing
  <2>4. /\ r \in Response /\ got[c] \in Text /\ Len(got[c]) \in Nat
    BY <2>1, <2>2, <2>3 DEF Typed, ClientsOK, ServerOK, Text
  <2>5. Len(got[c]) = Len(Wired(r)) \/ Len(got[c]) >= 5
    BY <2>3, <2>4, IpcAssumption
  <2>6. Reply(c).type = "report" /\ Reply(c).severity = r.severity
    BY <2>2, <2>3, <2>4, <2>5, ReplyDecoded DEF Reply
  <2>7. r.severity \in 0..3 /\ k.fail_on \in 0..3
    <3>1. k \in Command \cup {Svc!NoCommand}
      BY <2>1, <2>2 DEF Typed, ClientsOK
    <3>2. k.fail_on \in 0..3
      BY <3>1, IpcAssumption DEF Svc!NoCommand
    <3> QED BY <2>2, <2>4, <3>2 DEF Response
  <2> QED BY <2>2, <2>3, <2>6, <2>7 DEF ExitCode, GateTrips
<1> QED BY <1>1, IpcAlways, PTL

\* A report that fits into what the client reads is printed whole, in whatever
\* pieces it has come (io.cpp:39-62, proto.cpp:266-299, ctl/main.cpp:73-77).
THEOREM ReportWholeCorrect == Spec => []ReportWhole
<1>1. IpcInv => ReportWhole
  <2> SUFFICES ASSUME IpcInv, NEW c \in Client, exit[c] = "ok",
                      outcome[c].type = "report",
                      Len(Wired(outcome[c])) <= ReadLimit
               PROVE  got[c] = Wired(outcome[c])
    BY DEF ReportWhole
  <2>1. Typed /\ Course(c)
    BY TypeParts DEF IpcInv
  <2>2. PICK r, w : r = outcome[c] /\ w = Wired(r)
    OBVIOUS
  <2>3. /\ r # Svc!Nothing /\ Begins(got[c], w)
        /\ Len(got[c]) = Len(w) \/ Len(got[c]) >= ReadLimit
    BY <2>1, <2>2 DEF Course, Settled
  <2>4. r \in Response /\ got[c] \in Text /\ Len(got[c]) \in Nat
    BY <2>1, <2>2, <2>3 DEF Typed, ClientsOK, ServerOK, Text
  <2>5. w \in Text /\ Len(w) \in Nat
    BY <2>2, <2>4, ReportWired DEF Text
  <2>6. Len(got[c]) = Len(w)
    BY <2>2, <2>3, <2>4, <2>5, IpcAssumption DEF Begins
  <2> QED BY <2>2, <2>3, <2>4, <2>5, <2>6, BeginsWhole
<1> QED BY <1>1, IpcAlways, PTL
-----------------------------------------------------------------------------
(* The daemon and its clients are the service. *)

\* Every command that is sent is one line, and readLine takes all of it.
CommandsFit ==
  \A k \in Command :
    ~Senseless(k) => /\ Len(EncodeRequest(k.req)) <= MaxLine
                     /\ \A i \in 1..Len(EncodeRequest(k.req)) :
                          EncodeRequest(k.req)[i] # NL

\* Every reply fits into what a client reads.
RepliesFit ==
  \A c \in Client :
    outcome[c] # Svc!Nothing => Len(Wired(outcome[c])) <= ReadLimit

ServiceStep ==
  [Svc!ServiceNext]_<<cmd, exit, outcome, session, Alive>>

\* A line of a command that fits is all of the command.
LEMMA WholeLine ==
  ASSUME CommandsFit, NEW c \in Client, cmd[c] \in Command,
         ~Senseless(cmd[c]), line \in Text, AsSent(c)
  PROVE  DecodeRequest(line) = Gives(cmd[c].req)
<1>1. PICK e, w : e = EncodeRequest(cmd[c].req) /\ w = Sent(c)
  OBVIOUS
<1>2. /\ e \in Text /\ Len(w) = Len(e) + 1 /\ \A i \in 1..Len(e) : w[i] = e[i]
      /\ Len(e) \in Nat /\ Len(line) \in Nat
  BY <1>1, SentType DEF Text
<1>3. Len(e) <= MaxLine /\ \A i \in 1..Len(e) : e[i] # NL
  BY <1>1 DEF CommandsFit
<1>4. /\ Len(line) < Len(w)
      /\ \A i \in 1..Len(line) : line[i] = w[i]
      /\ w[Len(line) + 1] = NL \/ Len(line) >= MaxLine
  BY <1>1 DEF AsSent
<1>5. Len(line) = Len(e)
  <2>1. ~(Len(line) < Len(e))
    <3>1. ASSUME Len(line) < Len(e) PROVE FALSE
      <4>1. Len(line) + 1 \in 1..Len(e)
        BY <1>2, <3>1
      <4>2. w[Len(line) + 1] # NL
        BY <1>2, <1>3, <4>1
      <4> QED BY <1>2, <1>3, <1>4, <3>1, <4>2, IpcAssumption
    <3> QED BY <3>1
  <2> QED BY <1>2, <1>4, <2>1
<1>6. line = e
  <2>1. \A i \in 1..Len(line) : line[i] = e[i]
    BY <1>2, <1>4, <1>5
  <2> QED BY <1>2, <1>5, <2>1, SeqEqual DEF Text
<1> QED BY <1>1, <1>6, RequestDecoded

\* How an invocation that ends by itself ends in the service.
LEMMA FinishServed ==
  ASSUME IpcInv, IpcInv', NEW c \in Client, Finish(c)
  PROVE  ServiceStep
<1>1. Typed /\ Typed' /\ Course(c) /\ Course(c)'
  BY TypeParts, TypePartsNext DEF IpcInv
<1>2. PICK how \in {"ok", "failed"} :
        /\ how = ExitCode(cmd[c], Reply(c))
        /\ at[c] = "waiting" /\ exit' = [exit EXCEPT ![c] = how]
        /\ UNCHANGED <<cmd, got, outcome, session, Alive>>
  BY DEF Finish, Leave, ExitCode, socketVars, serverVars, Alive
<1>3. exit[c] = "none" /\ cmd[c] \in Command /\ exit'[c] = how
  BY <1>1, <1>2 DEF Course, Life, Typed, ClientsOK
<1>4. cmd[c] # Svc!NoCommand /\ cmd[c].fail_on \in 0..3
  BY <1>3, IpcAssumption DEF Svc!NoCommand, Request
<1>5. CASE outcome[c] = Svc!Nothing
  <2>1. ~Alive /\ how = "failed"
    BY <1>1, <1>2, <1>3, <1>5 DEF Course, Settled
  <2>2. Svc!Fail(c)
    BY <1>2, <1>3, <1>4, <2>1 DEF Svc!Fail
  <2> QED BY <2>2 DEF ServiceStep, Svc!ServiceNext
<1>6. CASE outcome[c] # Svc!Nothing
  <2>1. PICK r : r = outcome[c]
    OBVIOUS
  <2>2. /\ Begins(got[c], Wired(r)) /\ Suits(cmd[c].req.type, r)
        /\ Len(got[c]) = Len(Wired(r)) \/ Len(got[c]) >= ReadLimit
        /\ r \in Response /\ got[c] \in Text /\ Len(got[c]) \in Nat
    BY <1>1, <1>2, <1>3, <1>6, <2>1
       DEF Course, Settled, Typed, ClientsOK, ServerOK, Text
  <2>3. Len(got[c]) = Len(Wired(r)) \/ Len(got[c]) >= 5
    BY <2>2, IpcAssumption
  <2>4. Reply(c).type = r.type
    BY <2>2, <2>3, ReplyDecoded DEF Reply
  <2>5. r.type \in {"pong", "ok", "error", "report"}
    BY <2>2 DEF Response
  <2>6. CASE how = "ok"
    <3>1. r.type \notin {"none", "error"}
      BY <1>2, <2>4, <2>5, <2>6 DEF ExitCode
    <3>2. Svc!Succeed(c)
      BY <1>2, <1>3, <2>1, <2>6, <3>1 DEF Svc!Succeed
    <3> QED BY <3>2 DEF ServiceStep, Svc!ServiceNext
  <2>7. CASE how = "failed"
    <3>1. r.type = "error" \/ cmd[c].fail_on # 0
      BY <1>2, <2>4, <2>7 DEF ExitCode, GateTrips
    <3>2. Svc!Fail(c)
      BY <1>2, <1>3, <1>4, <2>1, <2>7, <3>1 DEF Svc!Fail
    <3> QED BY <3>2 DEF ServiceStep, Svc!ServiceNext
  <2> QED BY <2>6, <2>7
<1> QED BY <1>5, <1>6

LEMMA ClientServed ==
  ASSUME IpcInv, IpcInv', NEW c \in Client,
         ClientStep(c) \/ Kill(c) \/ \E k \in Command : Invoke(c, k)
  PROVE  ServiceStep
<1>1. Course(c) /\ Typed
  BY TypeParts DEF IpcInv
<1>2. CASE \E k \in Command : Invoke(c, k)
  <2>1. PICK k \in Command : Invoke(c, k)
    BY <1>2
  <2>2. Svc!Invoke(c, k)
    BY <1>1, <2>1 DEF Invoke, Svc!Invoke, Course, Life, serverVars, Alive
  <2> QED BY <2>2 DEF ServiceStep, Svc!ServiceNext
<1>3. CASE Usage(c)
  <2>1. Svc!Usage(c)
    BY <1>1, <1>3 DEF Usage, Leave, Svc!Usage, Course, Life, Fresh, Unanswered,
                      serverVars, Alive
  <2> QED BY <2>1 DEF ServiceStep, Svc!ServiceNext
<1>4. CASE ConnectRefused(c)
  <2>1. cmd[c] # Svc!NoCommand /\ exit[c] = "none"
    BY <1>1, <1>4, IpcAssumption
       DEF ConnectRefused, Course, Life, Svc!NoCommand, Request
  <2>2. Svc!Fail(c)
    BY <1>4, <2>1 DEF ConnectRefused, Leave, Svc!Fail, serverVars, Alive
  <2> QED BY <2>2 DEF ServiceStep, Svc!ServiceNext
<1>5. CASE Connect(c)
  BY <1>5 DEF Connect, ServiceStep, serverVars, Alive
<1>6. ASSUME at[c] \in {"connected", "waiting"}, Leave(c, "killed"),
             UNCHANGED <<cmd, serverVars>>
      PROVE  ServiceStep
  <2>1. Svc!Kill(c)
    BY <1>1, <1>6 DEF Leave, Svc!Kill, Course, Life, serverVars, Alive
  <2> QED BY <2>1 DEF ServiceStep, Svc!ServiceNext
<1>7. CASE WriteLine(c)
  <2>1. CASE hungup[c]
    BY <1>6, <1>7, <2>1 DEF WriteLine
  <2>2. CASE ~hungup[c]
    BY <1>7, <2>2 DEF WriteLine, ServiceStep, serverVars, Alive
  <2> QED BY <2>1, <2>2
<1>8. CASE ReadChunk(c)
  BY <1>8 DEF ReadChunk, ServiceStep, serverVars, Alive
<1>9. CASE Kill(c)
  BY <1>6, <1>9 DEF Kill
<1> QED BY <1>2, <1>3, <1>4, <1>5, <1>7, <1>8, <1>9, FinishServed DEF ClientStep

\* Nobody but a client that was killed leaves the daemon with a reply that fits.
LEMMA OnlyKilledLeave ==
  ASSUME IpcInv, RepliesFit, WriteToNobody
  PROVE  conn \in Client /\ exit[conn] = "killed"
<1>1. Typed /\ \A d \in Client : Course(d)
  BY TypeParts DEF IpcInv
<1>2. PICK c \in Client : c = conn
  BY <1>1 DEF WriteToNobody, Typed, ConnOK
<1>3. pc = "write" /\ at[c] = "closed" /\ out # << >>
  BY <1>2 DEF WriteToNobody
<1>4. PICK w : w = Wired(outcome[c])
  OBVIOUS
<1>5. /\ outcome[c] # Svc!Nothing /\ exit[c] \notin {"none", "usage"}
      /\ InPieces(w, got[c], down[c], out)
      /\ exit[c] \in {"ok", "failed"} => Len(got[c]) >= ReadLimit
  BY <1>1, <1>2, <1>3, <1>4 DEF Course, Replied, Life
<1>6. ~(exit[c] \in {"ok", "failed"})
  <2>1. Len(w) <= ReadLimit
    BY <1>4, <1>5 DEF RepliesFit
  <2>2. Len(w) = Len(got[c]) + Len(down[c]) + Len(out)
    BY <1>5 DEF InPieces
  <2>3. /\ Len(got[c]) \in Nat /\ Len(down[c]) \in Nat /\ Len(out) \in Nat
        /\ Len(out) # 0
    BY <1>1, <1>3 DEF Typed, ClientsOK, SocketsOK, ServerOK, Text
  <2>4. PICK a, b, e : a = Len(got[c]) /\ b = Len(down[c]) /\ e = Len(out)
    OBVIOUS
  <2>5. a \in Nat /\ b \in Nat /\ e \in Nat /\ e # 0 /\ ReadLimit \in Nat
        /\ a + b + e <= ReadLimit
    BY <2>1, <2>2, <2>3, <2>4, IpcAssumption
  <2>6. ~(a >= ReadLimit)
    BY <2>5
  <2> QED BY <1>5, <2>4, <2>6
<1> QED BY <1>1, <1>2, <1>5, <1>6 DEF Typed, ClientsOK

\* The daemon stops when it is told to, or when a client has been killed.
LEMMA StopServed ==
  ASSUME IpcInv, RepliesFit, WriteToNobody \/ LeaveLoop
  PROVE  ServiceStep
<1>1. Typed /\ ToldToLeave /\ \A d \in Client : Course(d)
  BY TypeParts DEF IpcInv
<1>2. Alive /\ ~Alive' /\ UNCHANGED <<cmd, exit, outcome, session>>
  BY DEF WriteToNobody, LeaveLoop, Alive, clientVars
<1>3. CASE LeaveLoop
  <2>1. PICK c \in Client : Told(c)
    BY <1>1, <1>3 DEF LeaveLoop, ToldToLeave
  <2>2. cmd[c].req.type = "shutdown" /\ outcome[c] # Svc!Nothing
    BY <2>1 DEF Told, Svc!Nothing
  <2>3. Svc!Stop
    BY <1>2, <2>2 DEF Svc!Stop
  <2> QED BY <2>3 DEF ServiceStep, Svc!ServiceNext
<1>4. CASE WriteToNobody
  <2>1. PICK c \in Client : c = conn /\ exit[c] = "killed"
    BY <1>4, OnlyKilledLeave
  <2>2. Svc!Stop
    BY <1>2, <2>1 DEF Svc!Stop
  <2> QED BY <2>2 DEF ServiceStep, Svc!ServiceNext
<1> QED BY <1>3, <1>4

\* A command is carried out, or a client that has gone without one turned away.
LEMMA HandleServed ==
  ASSUME CommandsFit, IpcInv, Handle
  PROVE  ServiceStep
<1>1. Typed /\ \A d \in Client : Course(d)
  BY TypeParts DEF IpcInv
<1>2. PICK c, d : c = conn /\ d = DecodeRequest(line)
  OBVIOUS
<1>3. PICK r \in IF d.ok THEN Svc!Handled(d.value, session)
                 ELSE {Svc!Did(Svc!Refused, session)} :
        /\ pc = "handle" /\ c = conn /\ c \in Client
        /\ session' = r.session
        /\ outcome' = [outcome EXCEPT ![c] = r.response]
        /\ pc' = "write" /\ UNCHANGED <<cmd, exit>>
  BY <1>1, <1>2 DEF Handle, Typed, ConnOK, clientVars
<1>4. Course(c) /\ Unanswered(c)
      /\ (at[c] = "waiting" \/ exit[c] = "killed")
      /\ ((line = << >> /\ exit[c] = "killed") \/ AsSent(c))
  BY <1>1, <1>3 DEF Course, Heard
<1>5. /\ cmd[c] \in Command /\ cmd[c] # Svc!NoCommand /\ ~Senseless(cmd[c])
      /\ exit[c] \in {"none", "killed"} /\ outcome[c] = Svc!Nothing
  <2>1. cmd[c] \in Command /\ exit[c] \in {"none", "killed"} /\ ~Senseless(cmd[c])
    BY <1>3, <1>4 DEF Course, Life, Served
  <2> QED BY <1>4, <2>1, IpcAssumption DEF Unanswered, Svc!NoCommand, Request
<1>6. Alive /\ Alive'
  BY <1>3 DEF Alive
<1>7. line \in Text
  BY <1>1 DEF Typed, ServerOK
<1>8. CASE AsSent(c)
  <2>1. d = Gives(cmd[c].req)
    BY <1>2, <1>3, <1>5, <1>7, <1>8, WholeLine
  <2>2. r \in Svc!Handled(cmd[c].req, session)
    BY <1>3, <2>1 DEF Gives
  <2>3. Svc!Carry(c)
    BY <1>3, <1>5, <1>6, <2>2 DEF Svc!Carry
  <2> QED BY <1>3, <2>3 DEF ServiceStep, Svc!ServiceNext
<1>9. CASE line = << >> /\ exit[c] = "killed"
  <2>1. ~d.ok
    BY <1>2, <1>7, <1>9, DecodedType
  <2>2. r.response = Svc!Refused /\ r.session = session
    BY <1>3, <2>1 DEF Svc!Did
  <2>3. Svc!Turn(c)
    BY <1>3, <1>5, <1>6, <1>9, <2>2 DEF Svc!Turn
  <2> QED BY <1>3, <2>3 DEF ServiceStep, Svc!ServiceNext
<1> QED BY <1>4, <1>8, <1>9

LEMMA NextServed ==
  ASSUME CommandsFit
  PROVE  IpcInv /\ IpcInv' /\ RepliesFit /\ [Next]_vars => ServiceStep
<1> SUFFICES ASSUME IpcInv, IpcInv', RepliesFit, [Next]_vars
             PROVE  ServiceStep
  OBVIOUS
<1>1. CASE UNCHANGED vars
  BY <1>1 DEF vars, clientVars, serverVars, ServiceStep, Alive
<1>2. CASE \E sev \in 1..3 : Observe(sev)
  <2>1. PICK sev \in 1..3 : Observe(sev)
    BY <1>2
  <2>2. Svc!Note
    BY <2>1 DEF Observe, Svc!Note, clientVars, Alive
  <2> QED BY <2>2 DEF ServiceStep, Svc!ServiceNext
<1>3. ASSUME NEW c \in Client,
             ClientStep(c) \/ Kill(c) \/ \E k \in Command : Invoke(c, k)
      PROVE  ServiceStep
  BY <1>3, ClientServed
<1>4. CASE Accept \/ ReadSymbol \/ ReadEnd \/ WriteSome \/ CloseClient
  <2>1. UNCHANGED <<cmd, exit, outcome, session>>
    BY <1>4 DEF Accept, ReadSymbol, ReadEnd, WriteSome, CloseClient, clientVars
  <2>2. Alive' = Alive
    BY <1>4 DEF Accept, ReadSymbol, ReadEnd, WriteSome, CloseClient, Alive
  <2> QED BY <2>1, <2>2 DEF ServiceStep
<1> QED BY <1>1, <1>2, <1>3, <1>4, HandleServed, StopServed DEF Next, DaemonStep

LEMMA InitServed == Init => Svc!ServiceInit
BY DEF Init, Svc!ServiceInit, Alive

\* Whatever happens on the socket, the daemon and its clients are the service,
\* as long as every command that is sent fits into a line and every reply into
\* what a client reads (proto.cpp:92-299, proto.h:116-132, io.cpp:12-91,
\* ipcserver.cpp:74-121, ctl/main.cpp:13-93).
THEOREM ServiceCorrect ==
  ASSUME CommandsFit
  PROVE  Spec /\ []RepliesFit => ServiceImplemented
<1>1. IpcInv /\ IpcInv' /\ RepliesFit /\ [Next]_vars
      => [Svc!ServiceNext]_<<cmd, exit, outcome, session, Alive>>
  BY NextServed DEF ServiceStep
<1>2. Spec /\ []RepliesFit
      => Svc!ServiceInit
         /\ [][Svc!ServiceNext]_<<cmd, exit, outcome, session, Alive>>
  BY <1>1, InitServed, IpcAlways, PTL DEF Spec
<1> QED BY <1>2 DEF ServiceImplemented, Svc!ServiceSpec
-----------------------------------------------------------------------------
(* When replies fit. *)

Short ==
  /\ Len(session.found) <= MaxFindings
  /\ \A c \in Client :
       outcome[c].type = "report" => Len(outcome[c].body) <= MaxFindings

LEMMA ShortStep ==
  ASSUME IpcInv, Short, [Next]_vars
  PROVE  Short'
<1>1. Typed
  BY TypeParts DEF IpcInv
<1>2. session \in Sessions /\ session.found \in Seq(1..3)
      /\ Len(session.found) \in Nat /\ MaxFindings \in Nat
  BY <1>1, IpcAssumption DEF Typed, ServerOK, Sessions
<1>3. CASE UNCHANGED <<session, outcome>>
  BY <1>3 DEF Short
<1>4. CASE \E sev \in 1..3 : Observe(sev)
  <2>1. PICK sev \in 1..3 : Observe(sev)
    BY <1>4
  <2>2. PICK f : f = Append(session.found, sev)
    OBVIOUS
  <2>3. Len(f) = Len(session.found) + 1
    BY <1>2, <2>2
  <2>4. /\ session' = [session EXCEPT !.found = f] /\ outcome' = outcome
        /\ Len(session.found) < MaxFindings
    BY <2>1, <2>2 DEF Observe, Svc!Found
  <2>5. session'.found = f
    BY <1>2, <2>4 DEF Sessions
  <2>6. Len(session'.found) <= MaxFindings
    BY <1>2, <2>3, <2>4, <2>5
  <2> QED BY <2>4, <2>6 DEF Short
<1>5. CASE Handle
  <2>1. PICK d : d = DecodeRequest(line)
    OBVIOUS
  <2>2. PICK r \in IF d.ok THEN Svc!Handled(d.value, session)
                   ELSE {Svc!Did(Svc!Refused, session)} :
          /\ session' = r.session
          /\ outcome' = [outcome EXCEPT ![conn] = r.response]
    BY <1>5, <2>1 DEF Handle
  <2>3. /\ Len(r.session.found) <= MaxFindings
        /\ r.response.type = "report" => Len(r.response.body) <= MaxFindings
    <3>1. Len(Svc!Idle.found) <= MaxFindings
      BY <1>2 DEF Svc!Idle
    <3>2. Svc!Refused.type = "error"
      BY DEF Svc!Refused
    <3>3. CASE \/ r = Svc!Did(Svc!Refused, session)
               \/ r = Svc!Did(Svc!Refused, Svc!Idle)
      BY <3>1, <3>2, <3>3 DEF Svc!Did, Short
    <3>4. CASE ~(\/ r = Svc!Did(Svc!Refused, session)
                 \/ r = Svc!Did(Svc!Refused, Svc!Idle))
      <4>1. PICK q : q = d.value
        OBVIOUS
      <4>2. q \in Request /\ r \in Svc!Handled(q, session)
        <5>1. d.ok
          BY <2>2, <3>4
        <5>2. line \in Text
          BY <1>1 DEF Typed, ServerOK
        <5> QED BY <2>1, <2>2, <4>1, <5>1, <5>2, DecodedType
      <4>3. CASE q.type \in {"ping", "shutdown"}
        <5>1. r.session = session /\ r.response.type \in {"pong", "ok"}
          BY <4>2, <4>3 DEF Svc!Handled, Svc!Did
        <5> QED BY <5>1 DEF Short
      <4>4. CASE q.type = "end-phase"
        <5>1. r.session = [session EXCEPT !.active = FALSE]
              /\ r.response.type = "ok"
          BY <4>2, <4>4 DEF Svc!Handled, Svc!Did
        <5>2. r.session.found = session.found
          BY <1>2, <5>1 DEF Sessions
        <5> QED BY <5>1, <5>2 DEF Short
      <4>5. CASE q.type = "start-phase"
        <5>1. r = Svc!Did([type |-> "ok"],
                          [active |-> TRUE, phase |-> q.phase, found |-> << >>])
          BY <3>4, <4>2, <4>5 DEF Svc!Handled
        <5>2. r.response.type = "ok" /\ r.session.found = << >>
          BY <5>1 DEF Svc!Did
        <5> QED BY <1>2, <5>2
      <4>6. CASE q.type = "report"
        <5>1. PICK b : b = Svc!Lines(session)
          OBVIOUS
        <5>2. r.session = session /\ r.response.body = b
          BY <3>4, <4>2, <4>6, <5>1 DEF Svc!Handled, Svc!Did
        <5>3. Len(b) = Len(session.found)
          BY <1>2, <5>1, LinesType
        <5> QED BY <5>2, <5>3 DEF Short
      <4> QED BY <4>2, <4>3, <4>4, <4>5, <4>6 DEF Request
    <3> QED BY <3>3, <3>4
  <2>4. ASSUME NEW c \in Client, outcome'[c].type = "report"
        PROVE  Len(outcome'[c].body) <= MaxFindings
    <3>1. outcome'[c] = outcome[c] \/ outcome'[c] = r.response
      BY <1>1, <2>2 DEF Typed, ServerOK
    <3> QED BY <2>3, <2>4, <3>1 DEF Short
  <2> QED BY <2>2, <2>3, <2>4 DEF Short
<1>6. ASSUME NEW c \in Client,
             ClientStep(c) \/ Kill(c) \/ \E k \in Command : Invoke(c, k)
      PROVE  UNCHANGED <<session, outcome>>
  BY <1>6 DEF ClientStep, Kill, Invoke, Usage, Connect, ConnectRefused,
              WriteLine, ReadChunk, Finish, serverVars
<1>7. CASE Accept \/ ReadSymbol \/ ReadEnd \/ WriteSome \/ WriteToNobody
           \/ CloseClient \/ LeaveLoop
  <2>1. UNCHANGED <<session, outcome>>
    BY <1>7 DEF Accept, ReadSymbol, ReadEnd, WriteSome, WriteToNobody,
                CloseClient, LeaveLoop
  <2> QED BY <1>3, <2>1
<1>8. CASE UNCHANGED vars
  BY <1>3, <1>8 DEF vars, serverVars
<1> QED BY <1>3, <1>4, <1>5, <1>6, <1>7, <1>8 DEF Next, DaemonStep

\* A phase with few findings has a report that fits.
LEMMA ShortFits ==
  ASSUME IpcInv, Short, MaxFindings + 6 <= ReadLimit
  PROVE  RepliesFit
<1> SUFFICES ASSUME NEW c \in Client, outcome[c] # Svc!Nothing
             PROVE  Len(Wired(outcome[c])) <= ReadLimit
  BY DEF RepliesFit
<1>1. PICK r, w : r = outcome[c] /\ w = Wired(r)
  OBVIOUS
<1>2. r \in Response /\ (r.type = "error" => r = Svc!Refused)
  BY <1>1, TypeParts DEF IpcInv, Typed, ServerOK, Course, Suits
<1>3. CASE r.type = "report"
  <2>1. PICK sev \in 0..3, b \in Text :
          r = [type |-> "report", severity |-> sev, body |-> b]
    BY <1>2, <1>3 DEF Response
  <2>2. PICK x : x = ReportHeader(sev) \o b
    OBVIOUS
  <2>3. x \in Text /\ Len(x) = 5 + Len(b)
    BY <2>2, ReportEncoded
  <2>4. w = Append(x, NL)
    BY <1>1, <2>1, <2>2 DEF Wired, EncodeResponse, ReportHeader
  <2>5. PICK nl \in Symbol : nl = NL
    BY WordsAreSymbols DEF Separators
  <2>6. Len(w) = Len(x) + 1 /\ Len(b) \in Nat
    BY <2>3, <2>4, <2>5 DEF Text
  <2>7. Len(b) <= MaxFindings
    <3>1. outcome[c].type = "report" /\ r.body = b
      BY <1>1, <1>3, <2>1
    <3>2. Len(outcome[c].body) <= MaxFindings
      BY <3>1 DEF Short
    <3> QED BY <1>1, <3>1, <3>2
  <2>8. PICK n, m, l : n = Len(b) /\ m = Len(x) /\ l = Len(w)
    OBVIOUS
  <2>9. PICK f, g : f = MaxFindings /\ g = ReadLimit
    OBVIOUS
  <2>10. f \in Nat /\ g \in Nat /\ f + 6 <= g
    BY <2>9, IpcAssumption
  <2>11. n \in Nat /\ m = 5 + n /\ l = m + 1 /\ n <= f
    BY <2>3, <2>6, <2>7, <2>8, <2>9
  <2>12. l <= g
    BY <2>10, <2>11
  <2>13. Wired(outcome[c]) = w
    BY <1>1
  <2> QED BY <2>8, <2>9, <2>12, <2>13
<1>4. CASE r.type = "error"
  <2>1. Wired(outcome[c]) = Wired(Svc!Refused)
    BY <1>1, <1>2, <1>4
  <2>2. PICK l : l = Len(Wired(outcome[c]))
    OBVIOUS
  <2>3. l = 4
    BY <2>1, <2>2, RefusalWired
  <2> QED BY <2>2, <2>3, IpcAssumption
<1>5. ASSUME NEW k \in {"PONG", "OK"}, w = Append(<<k>>, NL)
      PROVE  Len(w) <= ReadLimit
  <2>1. k \in Keywords
    BY DEF Keywords
  <2>2. Len(w) = 2
    BY <1>5, <2>1, WordWired
  <2> QED BY <2>2, IpcAssumption
<1>6. CASE r.type = "pong"
  <2>1. w = Append(<<"PONG">>, NL)
    BY <1>1, <1>6 DEF Wired, EncodeResponse
  <2> QED BY <1>1, <1>5, <2>1
<1>7. CASE r.type = "ok"
  <2>1. w = Append(<<"OK">>, NL)
    BY <1>1, <1>7 DEF Wired, EncodeResponse
  <2> QED BY <1>1, <1>5, <2>1
<1> QED BY <1>2, <1>3, <1>4, <1>6, <1>7 DEF Response

LEMMA FitAlways ==
  ASSUME MaxFindings + 6 <= ReadLimit
  PROVE  Spec => []RepliesFit
<1>1. Init => Short
  <2>1. ASSUME Init PROVE Short
    <3>1. Len(session.found) <= MaxFindings
      BY <2>1, IpcAssumption DEF Init, Svc!Idle
    <3>2. \A c \in Client : outcome[c].type # "report"
      BY <2>1 DEF Init, Svc!Nothing
    <3> QED BY <3>1, <3>2 DEF Short
  <2> QED BY <2>1
<1>2. IpcInv /\ Short /\ [Next]_vars => Short'
  BY ShortStep
<1>3. IpcInv /\ Short => RepliesFit
  BY ShortFits
<1> QED BY <1>1, <1>2, <1>3, IpcAlways, PTL DEF Spec

\* So it is the service for every phase whose findings fit into what a client
\* reads: whatever the limits, the pieces and the order of things on the socket
\* (proto.cpp:92-299, io.cpp:12-91, ipcserver.cpp:74-121, ctl/main.cpp:13-93).
THEOREM FewFindingsServed ==
  ASSUME CommandsFit, MaxFindings + 6 <= ReadLimit
  PROVE  Spec => ServiceImplemented
BY ServiceCorrect, FitAlways, PTL

\* Nobody has been killed while the daemon lives, and it has ended because it
\* was told to.
Quiet ==
  /\ \A c \in Client : exit[c] = "killed" => ~Alive
  /\ ~Alive => leaving

LEMMA QuietStep ==
  ASSUME ~Kills, IpcInv, RepliesFit, Quiet, [Next]_vars
  PROVE  Quiet'
<1>1. Typed /\ \A c \in Client : Course(c)
  BY TypeParts DEF IpcInv
<1>2. ASSUME NEW c \in Client, \E k \in Command : Invoke(c, k)
      PROVE  UNCHANGED <<exit, pc, leaving>>
  BY <1>2 DEF Invoke, serverVars
<1>3. ASSUME NEW c \in Client, Connect(c) \/ ReadChunk(c)
      PROVE  UNCHANGED <<exit, pc, leaving>>
  BY <1>3 DEF Connect, ReadChunk, serverVars
<1>4. ASSUME NEW c \in Client, Usage(c) \/ ConnectRefused(c) \/ Finish(c)
      PROVE  /\ UNCHANGED <<pc, leaving>>
             /\ \A d \in Client : exit'[d] = "killed" => exit[d] = "killed"
  <2>1. PICK how \in {"usage", "ok", "failed"} : exit' = [exit EXCEPT ![c] = how]
    BY <1>4 DEF Usage, ConnectRefused, Finish, ExitCode, Leave
  <2>2. UNCHANGED <<pc, leaving>>
    BY <1>4 DEF Usage, ConnectRefused, Finish, serverVars
  <2> QED BY <1>1, <2>1, <2>2 DEF Typed, ClientsOK
<1>5. ASSUME NEW c \in Client, WriteLine(c)
      PROVE  /\ UNCHANGED <<pc, leaving>>
             /\ exit' = exit \/ ~Alive
  BY <1>1, <1>5 DEF WriteLine, Leave, Course, Left, serverVars
<1>6. ASSUME NEW c \in Client PROVE ~Kill(c)
  BY DEF Kill
<1>7. CASE \/ \E sev \in 1..3 : Observe(sev)
           \/ Accept \/ ReadSymbol \/ ReadEnd \/ Handle \/ WriteSome \/ CloseClient
  <2>1. Alive /\ Alive' /\ exit' = exit
    BY <1>7 DEF Observe, Accept, ReadSymbol, ReadEnd, Handle, WriteSome,
                CloseClient, Alive, clientVars
  <2> QED BY <2>1 DEF Quiet
<1>8. CASE WriteToNobody
  <2>1. Alive
    BY <1>8 DEF WriteToNobody, Alive
  <2>2. conn \in Client /\ exit[conn] = "killed"
    BY <1>8, OnlyKilledLeave
  <2> QED BY <2>1, <2>2 DEF Quiet
<1>9. CASE LeaveLoop
  BY <1>9 DEF LeaveLoop, Quiet, Alive
<1>10. ASSUME UNCHANGED <<pc, leaving>>,
              \A d \in Client : exit'[d] = "killed" => exit[d] = "killed" \/ ~Alive
       PROVE  Quiet'
  BY <1>10 DEF Quiet, Alive
<1>11. CASE UNCHANGED vars
  BY <1>10, <1>11 DEF vars, clientVars, serverVars
<1> QED BY <1>2, <1>3, <1>4, <1>5, <1>6, <1>7, <1>8, <1>9, <1>10, <1>11
        DEF Next, ClientStep, DaemonStep

\* Only shutdown stops the daemon, as long as every reply fits into what a
\* client reads and no client is killed (io.cpp:12-37, ipcserver.cpp:74-121).
THEOREM ShutdownStops ==
  ASSUME ~Kills
  PROVE  Spec /\ []RepliesFit => []OnlyShutdownStops
<1>1. Init => Quiet
  BY DEF Init, Quiet, Alive
<1>2. IpcInv /\ RepliesFit /\ Quiet /\ [Next]_vars => Quiet'
  BY QuietStep
<1>3. IpcInv /\ Quiet => OnlyShutdownStops
  BY DEF IpcInv, Quiet, ToldToLeave, Told, OnlyShutdownStops
<1> QED BY <1>1, <1>2, <1>3, IpcAlways, PTL DEF Spec
=============================================================================
