-------------------------- MODULE NamespaceSync_MC --------------------------
(***************************************************************************)
(* A root namespace n with a child k.  Two tables of n map to one slot, one *)
(* of k to another; a third slot belongs to a table outside of the root.   *)
(***************************************************************************)
EXTENDS NamespaceSync

CONSTANTS f1, f2

nt == <<"n", "t">>
nT == <<"n", "T">>
ku == <<"n", "k", "u">>
xt == <<"t">>

MCTableId   == {nt, nT, ku, xt}
MCNamespace == {<<"n">>, <<"n", "k">>}
MCRootNs    == <<"n">>
MCChildren  == [ns \in MCNamespace |-> IF ns = <<"n">> THEN << <<"n", "k">> >> ELSE <<>>]
MCSlot      == {"p.t", "p__n.t", "p__n__k.u"}
MCRank      == [s \in MCSlot |-> CASE s = "p.t" -> 1 [] s = "p__n.t" -> 2 [] OTHER -> 3]
MCSlotOf    == [id \in MCTableId |->
                  IF id = xt THEN "p.t" ELSE IF id = ku THEN "p__n__k.u" ELSE "p__n.t"]
MCTypeOf    == [s \in MCSlot |-> s]

On(server, id, f) == [server |-> server, id |-> id, flat |-> f, nested |-> FALSE]

MCArgs ==
    { [op |-> "sync", drop |-> d, recreate |-> r, dry |-> FALSE] : d, r \in BOOLEAN }
    \union { [op |-> "sync", drop |-> TRUE, recreate |-> TRUE, dry |-> TRUE] }
    \union { [op |-> "attach", drop |-> FALSE, recreate |-> FALSE, dry |-> b] : b \in BOOLEAN }

MCOtherRels == {OtherRel, On("this", ku, f1)}

MCInitRemote ==
    { [id \in MCTableId |-> IF id \in S THEN [flat |-> f1, nested |-> NoStruct] ELSE Absent] :
        S \in {{nt}, {nt, nT}, {nt, ku}} }

MCInitCatalog ==
    { [s \in MCSlot |-> CASE s = "p.t" -> a [] s = "p__n.t" -> b [] OTHER -> c] :
        a \in {On("this", xt, f1), On("this", ku, f2), On("this", BadId, f1)},
        b \in {NoRel, OtherRel, On("this", nt, f1), On("other", nt, f1), On("this", nT, f2)},
        c \in {NoRel, On("this", ku, f1), On("this", NoId, f1)} }
=============================================================================
