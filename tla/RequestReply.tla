---------------------------- MODULE RequestReply ----------------------------
(***************************************************************************)
(* What one connection of the server promises its client, with no buffer,  *)
(* no frame and no socket in sight: requests are handled exactly once, in  *)
(* the order they were written, and every reply is the reply to the        *)
(* request it is correlated with.  Replies may be lost only once the       *)
(* client has hung up.                                                     *)
(***************************************************************************)
EXTENDS Naturals, Sequences

CONSTANTS
  Kinds,     \* what a request can be
  Replying   \* the kinds that are answered with bytes

VARIABLES
  sent,      \* the kinds of the requests written so far, in order
  handled,   \* how many of them have been handled
  replies,   \* the replies written: [corr: Nat, kind: Kinds]
  gone       \* the client has hung up

vars == <<sent, handled, replies, gone>>

Init ==
  /\ sent = <<>>
  /\ handled = 0
  /\ replies = <<>>
  /\ gone = FALSE

Send(kind) ==
  /\ ~gone
  /\ sent' = Append(sent, kind)
  /\ UNCHANGED <<handled, replies, gone>>

Handle ==
  /\ handled < Len(sent)
  /\ handled' = handled + 1
  /\ LET kind == sent[handled + 1] IN
       IF kind \in Replying
       THEN \/ replies' = Append(replies, [corr |-> handled + 1, kind |-> kind])
            \/ gone /\ UNCHANGED replies
       ELSE UNCHANGED replies
  /\ UNCHANGED <<sent, gone>>

HangUp ==
  /\ ~gone
  /\ gone' = TRUE
  /\ UNCHANGED <<sent, handled, replies>>

Next ==
  \/ \E kind \in Kinds : Send(kind)
  \/ Handle
  \/ HangUp

Spec == Init /\ [][Next]_vars

=============================================================================
