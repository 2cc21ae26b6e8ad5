------------------------------ MODULE MCAccounts -------------------------------
(* Two people and one address, each with a password the other does not know. *)
EXTENDS Accounts

\* The two numbers of the environment that are used here; the other four are
\* parsed alike and serve the database, Redis and the WebSocket.
TwoVars == {"JWT_EXPIRY_HOURS", "SERVER_PORT"}

\* Zero hours or any free port; no hours and no port.
ZeroOrLess == {0, -1}
=============================================================================
