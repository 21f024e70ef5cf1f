----------------------------- MODULE MCStartup -----------------------------
(***************************************************************************)
(* The values the .cfg files give the constants of Startup.                *)
(***************************************************************************)
EXTENDS Startup, TLC

CONSTANTS d1, d2, h1, h2, a1, a2, c1, c2

\* Two hosts that share an address.
MCResolve == h1 :> {a1, a2} @@ h2 :> {a2}
=============================================================================
