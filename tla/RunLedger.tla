------------------------------ MODULE RunLedger ------------------------------
(***************************************************************************)
(* What the test-run history of pg-stress promises its readers, whoever    *)
(* calls it and whatever is lost on the way: a list of closed runs that    *)
(* only ever grows, and at most one open run.  An open run is closed       *)
(* either by a stop, which records a snapshot, or by the start of the next *)
(* run, which records none.                                                *)
(***************************************************************************)
EXTENDS Naturals, Sequences

CONSTANTS
    Snapshots,   \* what a database snapshot can be
    NoSnapshot   \* the empty db_after column

VARIABLES
    history,     \* the closed runs, oldest first
    open         \* <<>>, or the first snapshot of the open run

ledgerVars == <<history, open>>

LedgerInit ==
    /\ history = <<>>
    /\ open = <<>>

ClosedAs(status, after) ==
    Append(history, [status |-> status, before |-> open[1], after |-> after])

\* A run starts; the one that was open, if any, is closed without a snapshot.
Open ==
    /\ open' \in [{1} -> Snapshots]
    /\ history' = IF open = <<>> THEN history
                                 ELSE ClosedAs("stopped", NoSnapshot)

\* The open run is stopped and closed with a snapshot.
Close ==
    /\ open # <<>>
    /\ open' = <<>>
    /\ \E i \in DOMAIN history' :
          /\ history'[i].after \in Snapshots
          /\ history' = ClosedAs("completed", history'[i].after)

LedgerNext == Open \/ Close

LedgerSpec == LedgerInit /\ [][LedgerNext]_ledgerVars
=============================================================================
