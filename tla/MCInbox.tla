-------------------------------- MODULE MCInbox --------------------------------
(* Values for the constants of Inbox in the runs of TLC. *)
EXTENDS Inbox, TLC

CONSTANTS m1, m2, m3, t1, t2

\* A contact who writes, asks to stop and asks to go on.
Commands == m1 :> "text" @@ m2 :> "stop" @@ m3 :> "start"

InboxSymmetry == Permutations(Txn)
================================================================================
