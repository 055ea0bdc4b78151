---------------------------- MODULE MCConsecutive ----------------------------
(***************************************************************************)
(* One direct source, scraped four times by one worker.                    *)
(***************************************************************************)
EXTENDS ConsecutiveFetches

OldAndNew == {[input |-> 1, output |-> 1], [input |-> 2, output |-> 1]}

OneSource == {Sources}

Direct == [s \in Sources |-> [m \in Models |-> NoProvider]]

AnyOrder == [s \in Sources |-> 1]
=============================================================================
