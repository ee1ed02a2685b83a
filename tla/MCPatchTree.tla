---------------------------- MODULE MCPatchTree ----------------------------
(* The real blocks; a run chooses the patchers and how many places drifted. *)
EXTENDS PatchTree

\* One drifted place, none where dspark_pp_patch.py shares files with another.
OneApart == [k \in Kits |-> IF k # {"dspark"} /\ "dspark" \in k THEN 0 ELSE 1]

None == [k \in Kits |-> 0]

\* For --revert: upstream's tree after a run of dspark_pp_patch.py that ended
\* well.
AppliedInit ==
  /\ tree = [s \in Sites |-> "ours"]
  /\ kit \in Kits
  /\ tool = "dspark"
  /\ reverse = FALSE
  /\ skipA6 = FALSE
  /\ block = 1
  /\ missed = FALSE
  /\ outcome = "done"

AppliedSpec == AppliedInit /\ [][Next]_vars
=============================================================================
