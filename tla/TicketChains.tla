---------------------------- MODULE TicketChains ----------------------------
(* What the authorization server promises of refresh tokens, seen from        *)
(* outside: a family is opened once, is held by one token at a time, passes   *)
(* from a token to a new one, and once it has ended nobody holds it again.    *)
CONSTANTS
  Families,   \* the families there may be
  Tickets     \* the refresh tokens there may be

VARIABLES
  opened,     \* the families a code was redeemed for
  holders     \* family -> the refresh tokens that may still be used

chains == <<opened, holders>>

Init ==
  /\ opened = {}
  /\ holders = [f \in Families |-> {}]

(* A code is redeemed: the family begins with one token.                      *)
Open(f) ==
  /\ f \notin opened
  /\ opened' = opened \cup {f}
  /\ \E t \in Tickets : holders' = [holders EXCEPT ![f] = {t}]

(* The holder is exchanged for a token that did not hold the family.          *)
Turn(f) ==
  /\ \E old, new \in Tickets :
        /\ holders[f] = {old}
        /\ new # old
        /\ holders' = [holders EXCEPT ![f] = {new}]
  /\ UNCHANGED opened

(* The family is revoked.                                                     *)
End(f) ==
  /\ holders' = [holders EXCEPT ![f] = {}]
  /\ UNCHANGED opened

Next == \E f \in Families : Open(f) \/ Turn(f) \/ End(f)

Spec == Init /\ [][Next]_chains
=============================================================================
