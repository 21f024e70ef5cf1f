------------------------------ MODULE PhaseLog ------------------------------
(***************************************************************************)
(* What a client of the daemon may rely on, whatever the processes do and  *)
(* however events and requests interleave: a phase is a log that grows one *)
(* record at a time while it is open and only then, that is thrown away    *)
(* only when it is closed, and a report is a copy of a closed log.         *)
(***************************************************************************)
EXTENDS Sequences

CONSTANT Record

VARIABLES
  open,   \* a phase is under way
  log,    \* its findings, oldest first
  answer  \* the findings in the last report

logVars == <<open, log, answer>>

LogInit == open = FALSE /\ log = << >> /\ answer = << >>

\* start-phase throws the last phase away before it opens the next one.
Discard == ~open /\ log' = << >> /\ UNCHANGED <<open, answer>>

Open == ~open /\ log = << >> /\ open' = TRUE /\ UNCHANGED <<log, answer>>

\* That is, log' = Append(log, r) for an r in Record.
Grow ==
  /\ open
  /\ log' # << >>
  /\ log'[Len(log')] \in Record
  /\ log' = Append(log, log'[Len(log')])
  /\ UNCHANGED <<open, answer>>

Close == open /\ open' = FALSE /\ UNCHANGED <<log, answer>>

Answer == ~open /\ answer' = log /\ UNCHANGED <<open, log>>

LogNext == Discard \/ Open \/ Grow \/ Close \/ Answer

LogSpec == LogInit /\ [][LogNext]_logVars
=============================================================================
