---------------------------- MODULE SaslExchange ----------------------------
(***************************************************************************)
(* What GSSAPI authentication over a connection promises its client: its   *)
(* tokens are sent while GSSAPI is the mechanism chosen last on this very  *)
(* connection, the challenge once, and the final one only behind it.       *)
(***************************************************************************)
CONSTANTS
  Connections,
  Mechanisms     \* names a handshake may carry

VARIABLES
  mechanism,     \* connection -> the mechanism chosen last, "" before any
  tokens         \* connection -> the GSSAPI tokens its client has been sent

vars == <<mechanism, tokens>>

Init ==
  /\ mechanism = [c \in Connections |-> ""]
  /\ tokens = [c \in Connections |-> {}]

Choose(c, m) ==
  /\ mechanism' = [mechanism EXCEPT ![c] = m]
  /\ UNCHANGED tokens

Grant(c, token) ==
  /\ tokens' = [tokens EXCEPT ![c] = @ \cup {token}]
  /\ UNCHANGED mechanism

Challenge(c) ==
  /\ mechanism[c] = "GSSAPI" /\ "challenge" \notin tokens[c]
  /\ Grant(c, "challenge")

Finish(c) ==
  /\ mechanism[c] = "GSSAPI" /\ "challenge" \in tokens[c]
  /\ Grant(c, "final")

(* The client comes back over a new connection.                            *)
Reconnect(c) ==
  /\ mechanism' = [mechanism EXCEPT ![c] = ""]
  /\ tokens' = [tokens EXCEPT ![c] = {}]

Next ==
  \E c \in Connections :
    \/ \E m \in Mechanisms : Choose(c, m)
    \/ Challenge(c) \/ Finish(c) \/ Reconnect(c)

Spec == Init /\ [][Next]_vars

=============================================================================
