----------------------------- MODULE DrainOnce -----------------------------
(***************************************************************************)
(* What the looter promises about draining: a drain destroys its donor, so  *)
(* every permission is spent by the one request it allows, whatever becomes *)
(* of that request, and no two unanswered requests share a donor or a       *)
(* stone.  How permissions are kept, and what a restart does to them, is    *)
(* ManaDrain's business.                                                    *)
(***************************************************************************)
CONSTANTS Characters, Donors, Stones, NoRequest

Requests == Characters \X Donors \X Stones

VARIABLES
  may,    \* who may still drain what
  ready,  \* the request about to be sent
  sent    \* the requests nothing has answered

vars == <<may, ready, sent>>

Init == may = {} /\ ready = NoRequest /\ sent = {}

\* No unanswered request names the donor, or the stone.
DonorFree(d) == \A r \in sent : r[2] # d
StoneFree(s) == \A r \in sent : r[3] # s

\* An item collected for its mana.
Collect(c, d) ==
  /\ DonorFree(d)
  /\ may' = may \cup {<<c, d>>}
  /\ UNCHANGED <<ready, sent>>

\* Permissions are lost: the item was, or the record of it.
Revoke ==
  /\ may' \in SUBSET may
  /\ UNCHANGED <<ready, sent>>

Reserve(c, d, s) ==
  /\ ready = NoRequest
  /\ <<c, d>> \in may /\ DonorFree(d) /\ StoneFree(s)
  /\ may' = may \ {<<c, d>>}
  /\ ready' = <<c, d, s>>
  /\ UNCHANGED sent

Send ==
  /\ ready # NoRequest
  /\ sent' = sent \cup {ready}
  /\ ready' = NoRequest
  /\ UNCHANGED may

\* The client did not take the request: the permission may be given back.
NotSent ==
  /\ ready # NoRequest
  /\ may' \in {may, may \cup {<<ready[1], ready[2]>>}}
  /\ ready' = NoRequest
  /\ UNCHANGED sent

Answer ==
  /\ \E r \in sent : sent' = sent \ {r}
  /\ UNCHANGED <<may, ready>>

Next ==
  \/ \E c \in Characters, d \in Donors : Collect(c, d)
  \/ Revoke
  \/ \E c \in Characters, d \in Donors, s \in Stones : Reserve(c, d, s)
  \/ Send
  \/ NotSent
  \/ Answer

Spec == Init /\ [][Next]_vars

=============================================================================
