------------------------------- MODULE MCVfs -------------------------------
(***************************************************************************)
(* Four nodes and two descriptors, looked at from two sides: trees in      *)
(* which one descriptor is open and nothing is written, and one file in    *)
(* the root directory, unlinked and created again, under all the traffic   *)
(* of two descriptors.  States outside both are checked but not continued. *)
(* "long" is a name of more than 31 characters, stored as "lon".           *)
(***************************************************************************)
EXTENDS Vfs

MCTruncate(name) == IF name = "long" THEN "lon" ELSE name

Abs(segs) == [abs |-> TRUE, segs |-> segs]
Rel(segs) == [abs |-> FALSE, segs |-> segs]

MCPaths ==
  {Abs(<<>>), Abs(<<"a">>), Abs(<<"long">>), Abs(<<"lon">>), Abs(<<"a", "b">>),
   Rel(<<".", "b">>), Rel(<<"..">>)}
MCFlags == {{}, {"CREAT"}, {"CREAT", "TRUNC"}, {"APPEND"}}
MCSeeks == {-1, 1}

Trees ==
  /\ heap = 0 /\ ~open_files[1].used
  /\ open_files[0].offset = 0 /\ ~open_files[0].append
Traffic ==
  /\ cwd_node = Root /\ Cardinality(Used) <= 2
  /\ \A i \in Used \ {Root} : nodes[i].type = "file" /\ nodes[i].name # "lon"
OneSide == Trees \/ Traffic
=============================================================================
