------------------------------ MODULE Channel ------------------------------
(***************************************************************************)
(* What the interception network promises each directed edge (spec 4.2):  *)
(* a FIFO queue of intercepted messages; delivery takes messages from its  *)
(* head, and every message taken is remembered in taking order.           *)
(***************************************************************************)
EXTENDS Sequences

CONSTANTS Edges, Msg

VARIABLES
  chan,     \* edge -> messages queued and not yet taken
  taken     \* edge -> messages taken for delivery, in order

vars == <<chan, taken>>

Init ==
  /\ chan = [e \in Edges |-> <<>>]
  /\ taken = [e \in Edges |-> <<>>]

Send(e, m) ==
  /\ chan' = [chan EXCEPT ![e] = Append(@, m)]
  /\ UNCHANGED taken

Take(e) ==
  /\ chan[e] # <<>>
  /\ taken' = [taken EXCEPT ![e] = Append(@, Head(chan[e]))]
  /\ chan' = [chan EXCEPT ![e] = Tail(@)]

Next == \E e \in Edges : Take(e) \/ \E m \in Msg : Send(e, m)

Spec == Init /\ [][Next]_vars
=============================================================================
