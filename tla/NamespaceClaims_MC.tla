------------------------- MODULE NamespaceClaims_MC -------------------------
(***************************************************************************)
(* One namespace with two tables that map to one slot.                     *)
(***************************************************************************)
EXTENDS NamespaceClaims

CONSTANTS f1, st1, st2

nt == <<"n", "t">>
nT == <<"n", "T">>

MCTableId   == {nt, nT}
MCNamespace == {<<"n">>}
MCRootNs    == <<"n">>
MCChildren  == [ns \in MCNamespace |-> <<>>]
MCSlot      == {"p__n.t"}
MCRank      == [s \in MCSlot |-> 1]
MCSlotOf    == [id \in MCTableId |-> "p__n.t"]
MCTypeOf    == [s \in MCSlot |-> s]

MCArgs ==
    { [op |-> "sync", drop |-> TRUE, recreate |-> TRUE, dry |-> FALSE] }

MCInitRemote ==
    { [id \in MCTableId |->
         IF id = nt THEN [flat |-> f1, nested |-> n] ELSE Absent] :
        n \in {NoStruct, st1} }

MCInitCatalog ==
    { [s \in MCSlot |-> r] :
        r \in {NoRel,
               [server |-> "this", id |-> nT, flat |-> f1, nested |-> FALSE]} }
=============================================================================
