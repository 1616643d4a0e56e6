-------------------------- MODULE MCSpigetVersions --------------------------
(* Instances of SpigetVersions for TLC. *)
EXTENDS SpigetVersions

(* Two of the three versions have the same name. *)
Names == <<"1.0", "1.1", "1.0">>

(* Texts that are shorter and longer than the column names. *)
Texts == << [name |-> 3, date |-> 10, identifier |-> 6, url |-> 40],
            [name |-> 15, date |-> 0, identifier |-> 18, url |-> 41],
            [name |-> 3, date |-> 13, identifier |-> 19, url |-> 40] >>

AllSpecs ==
    {[kind |-> "latest"]}
    \cup [kind : {"name"}, name : {"1.0"}]
    \cup [kind : {"identifier"}, identifier : {1, NotANumber}]
    \cup [kind : {"list"}, limit : {2}]
=============================================================================
