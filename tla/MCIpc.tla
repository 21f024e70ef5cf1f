------------------------------- MODULE MCIpc -------------------------------
(***************************************************************************)
(* The values the .cfg files give the constants of Ipc.                    *)
(***************************************************************************)
EXTENDS Ipc, TLC

CONSTANTS c1, c2, c3

MCDecimal   == 0 :> "0" @@ 7 :> "7"
MCFromChars == "0" :> 0 @@ "7" :> 7

Run(r)          == [req |-> r, fail_on |-> 0]
StartPhase(pid) == Run([type |-> "start-phase", pid |-> pid,
                        phase |-> <<"npm", " ", "ci">>])
EndPhase        == Run([type |-> "end-phase"])
Ping            == Run([type |-> "ping"])
Shutdown        == Run([type |-> "shutdown"])
Report          == Run([type |-> "report", format |-> "markdown"])
Gate(sev)       == [req |-> [type |-> "report", format |-> "json"],
                    fail_on |-> sev]

OnePhase   == {StartPhase(7), EndPhase, Gate(2), Shutdown}
Everything == {StartPhase(7), StartPhase(0), EndPhase, Report, Ping, Shutdown}
PhaseOnly  == {StartPhase(7), EndPhase, Report}

Clients == Permutations(Client)
=============================================================================
