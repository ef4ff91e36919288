------------------------------ MODULE Inventory ------------------------------
(***************************************************************************)
(* Staff maintenance of the assets table.  UpdateAsset reads the row,      *)
(* lays the patch over what it read and writes the whole row back: two     *)
(* statements on a pooled connection, with no transaction around them and  *)
(* no lock held in between.  A patch that does not mention                 *)
(* physical_status still writes the value that was read.  RetireAsset is   *)
(* the patch that sets RETIRED.                                            *)
(***************************************************************************)
EXTENDS RentalState

CONSTANTS
  Patch,    \* physical_status a patch may set; None: the patch leaves it out
  NewUnit   \* physical_status a new asset may be created with

ASSUME PatchAssumption ==
  /\ Patch \subseteq PhysicalStatus \cup {None}
  /\ NewUnit \subseteq PhysicalStatus

CreateAsset(a, s) ==
  /\ physical[a] = "NONE"
  /\ physical' = [physical EXCEPT ![a] = s]
  /\ UNCHANGED <<status, window, lines, origin, moved, custody, holder, tx>>

\* GetAsset, and the row image the patch makes of it.
BeginUpdateAsset(t, a, p) ==
  /\ tx[t] = Idle
  /\ physical[a] # "NONE"
  /\ Start(t, [Idle EXCEPT !.op = "patch", !.pc = "commit", !.asset = a,
               !.value = IF p = None THEN physical[a] ELSE p])
  /\ UNCHANGED <<tables, holder>>

\* The UPDATE waits for whoever has locked the asset row.
CommitUpdateAsset(t) ==
  /\ tx[t].pc = "commit" /\ tx[t].op = "patch"
  /\ Free(tx[t].asset)
  /\ physical' = [physical EXCEPT ![tx[t].asset] = tx[t].value]
  /\ Finish(t)
  /\ UNCHANGED <<status, window, lines, origin, moved, custody>>

InventoryNext ==
  \/ \E a \in Asset, s \in NewUnit : CreateAsset(a, s)
  \/ \E t \in Txn :
       \/ \E a \in Asset, p \in Patch : BeginUpdateAsset(t, a, p)
       \/ CommitUpdateAsset(t)
=============================================================================
