------------------------------- MODULE Tables -------------------------------
(***************************************************************************)
(* The Worker's flags and its community overlay beside each other.  The    *)
(* two write different tables and share no state, so a behaviour of both   *)
(* is one of each: in a behaviour of this module one of the two is served  *)
(* and the other stays as it is.                                           *)
(***************************************************************************)
EXTENDS Flags, OverlayTags

VARIABLE surface   \* the one that is served

tablesVars == <<vars, tagVars, surface>>

TablesInit == surface \in {"flags", "tags"} /\ Init /\ TagInit

TablesNext ==
  /\ UNCHANGED surface
  /\ \/ surface = "flags" /\ Next /\ UNCHANGED tagVars
     \/ surface = "tags" /\ TagNext /\ UNCHANGED vars

TablesSpec == TablesInit /\ [][TablesNext]_tablesVars

\* The rows and counters of both surfaces have their types: among them that
\* the flag counter stays a natural number no greater than the flags raised.
TablesTyped == TypeOK /\ TagTypeOK
=============================================================================
