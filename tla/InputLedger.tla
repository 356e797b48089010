---------------------------- MODULE InputLedger ----------------------------
(***************************************************************************)
(* What a session promises about the inputs clients give it.  An input is  *)
(* refused, handed to a turn at once, or accepted; accepted inputs wait in *)
(* one line and are handed to turns from its front, each once.  A turn     *)
(* whose start cannot be written is refused after it was handed over.      *)
(***************************************************************************)
EXTENDS Sequences

CONSTANT Inputs

VARIABLES
    place,    \* where each input is
    waiting   \* the accepted inputs that no turn has, in order

ledgerVars == <<place, waiting>>

LedgerInit ==
    /\ place = [i \in Inputs |-> "offered"]
    /\ waiting = <<>>

Refuse(i) ==
    /\ place[i] \in {"offered", "handed"}
    /\ place' = [place EXCEPT ![i] = "refused"]
    /\ UNCHANGED waiting

HandOver(i) ==
    /\ place[i] = "offered"
    /\ place' = [place EXCEPT ![i] = "handed"]
    /\ UNCHANGED waiting

Accept(i) ==
    /\ place[i] = "offered"
    /\ place' = [place EXCEPT ![i] = "waiting"]
    /\ waiting' = Append(waiting, i)

HandOverFirst(i) ==
    /\ waiting # <<>>
    /\ i = Head(waiting)
    /\ place' = [place EXCEPT ![i] = "handed"]
    /\ waiting' = Tail(waiting)

LedgerNext ==
    \E i \in Inputs : Refuse(i) \/ HandOver(i) \/ Accept(i) \/ HandOverFirst(i)

LedgerSpec == LedgerInit /\ [][LedgerNext]_ledgerVars

=============================================================================
