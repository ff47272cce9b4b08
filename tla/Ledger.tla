------------------------------- MODULE Ledger -------------------------------
(* What a payout operation promises its roster, whatever the operators do   *)
(* and in whatever order: amounts may be revised until they are committed,   *)
(* may be reopened while no money has moved, and are fixed for ever once     *)
(* any has; a person is paid exactly what is owed and never twice at a time; *)
(* an operation that has paid somebody is not discarded.  Payouts is shown   *)
(* to implement it.                                                          *)
EXTENDS Naturals

CONSTANTS People, Unpaid

VARIABLES phase, owed, given
ledgerVars == <<phase, owed, given>>

Nothing == [p \in People |-> 0]
Nobody  == [p \in People |-> Unpaid]

Init == phase = "none" /\ owed = Nothing /\ given = Nobody

Create == /\ phase = "none" /\ phase' = "open"
          /\ owed' \in [People -> Nat] /\ UNCHANGED given
Revise == /\ phase = "open"
          /\ owed' \in [People -> Nat] /\ UNCHANGED <<phase, given>>
Commit == phase = "open" /\ phase' = "committed" /\ UNCHANGED <<owed, given>>
Reopen == phase = "committed" /\ phase' = "open" /\ UNCHANGED <<owed, given>>

Pay(p) ==
  /\ phase \in {"committed", "settling"} /\ phase' = "settling"
  /\ given[p] = Unpaid
  /\ given' = [given EXCEPT ![p] = owed[p]]
  /\ UNCHANGED owed

Revert(p) ==
  /\ phase = "settling"
  /\ given[p] # Unpaid
  /\ given' = [given EXCEPT ![p] = Unpaid]
  /\ UNCHANGED <<phase, owed>>

Discard == /\ phase \notin {"none", "gone"} /\ phase' = "gone"
           /\ given = Nobody
           /\ owed' = Nothing /\ UNCHANGED given

Next == \/ Create \/ Revise \/ Commit \/ Reopen \/ Discard
        \/ \E p \in People : Pay(p) \/ Revert(p)

Spec == Init /\ [][Next]_ledgerVars
=============================================================================
