---------------------------- MODULE WireProperties ----------------------------
(***************************************************************************)
(* What the two ends of the socket may rely on about the lines they        *)
(* exchange, whatever text a phase name, a reason or a report is: a        *)
(* behaviour builds one text, symbol by symbol.                            *)
(***************************************************************************)
EXTENDS Wire

CONSTANT Symbols  \* what texts are made of

ASSUME SymbolsAssumption == Symbols \subseteq Symbol

VARIABLE text

GrowText == \E s \in Symbols : text' = Append(text, s)

TextSpec == text = << >> /\ [][GrowText]_text
-----------------------------------------------------------------------------
Types == {"ping", "start-phase", "end-phase", "report", "shutdown"}

\* The daemon starts the phase the client was told to start: all of its name,
\* whatever spaces or keywords it contains, up to a newline, which ends the
\* line (encode and decodeRequest, proto.cpp:97-99, 177-215).
RequestSurvives ==
  \A pid \in DOMAIN Decimal \ {0} :
    LET name == Received(Append(text, NL))
        req  == [type |-> "start-phase", pid |-> pid, phase |-> text]
    IN  DecodeRequest(Received(Append(EncodeRequest(req), NL))) =
          IF name = << >> THEN Fails ELSE Gives([req EXCEPT !.phase = name])

\* Whatever line the daemon accepts, the client could have sent the request it
\* takes it for: encode and decodeRequest agree on what a request is
\* (proto.cpp:92-115, 177-215).
AcceptedIsSendable ==
  LET d == DecodeRequest(text)
  IN  d.ok => DecodeRequest(EncodeRequest(d.value)) = d

\* A report reaches the client as a report, with its severity and its body,
\* and a refusal as a refusal, with the first line of its reason: a body that
\* looks like an error or a header is not taken for one
\* (encode, decodeError, decodeResponse and sendCommand, proto.cpp:117-152,
\* 225-264, proto.h:116-132).
ReplySurvives ==
  LET Line(r) == Append(EncodeResponse(r), NL)
      reason  == Stripped(Received(Append(text, NL)))
  IN  /\ \A sev \in 0..3 :
           LET sent == [type |-> "report", severity |-> sev, body |-> text]
           IN  DecodeReply("report", Line(sent)) =
                 [sent EXCEPT !.body = Append(text, NL)]
      /\ \A type \in Types :
           DecodeReply(type, Line([type |-> "error", reason |-> text])) =
             [type |-> "error",
              reason |-> IF reason = << >> THEN <<"request", SP, "rejected">>
                         ELSE reason]

\* A report that arrives cut short, wherever it is cut, passes for malformed
\* or shows its true severity: the gate never sees a lower one
\* (decodeResponse, proto.cpp:241-264; readAll's result is ignored,
\* proto.cpp:296).
CutReportKeepsSeverity ==
  \A sev \in 0..3 :
    LET whole == EncodeResponse([type |-> "report", severity |-> sev,
                                 body |-> text])
    IN  \A n \in 0..Len(whole) :
          LET r == DecodeReply("report", SubSeq(whole, 1, n))
          IN  r.type = "error" \/ r.severity = sev
=============================================================================
