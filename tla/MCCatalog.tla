----------------------------- MODULE MCCatalog ------------------------------
(***************************************************************************)
(* An instance of Catalog for TLC.  Documents 2 and 3 have the title "a",  *)
(* document 1 the title "a_3".  Tag 1 is the share's, tag 2 its done tag,  *)
(* tag 3 a topic that may be renamed to the name of the done folder.       *)
(***************************************************************************)
EXTENDS Catalog, TLC

MCShare == [include |-> {<<11>>}, exclude |-> {}, done |-> {<<12>>},
            enabled |-> TRUE, folder |-> <<20>>]
MCUnnamed == <<>>
MCUnsorted == <<21>>
MCNames == <<(<<11>>), (<<12>>), (<<13>>)>>
MCBaseName == <<(<<31, 3>>), (<<31>>), (<<31>>)>>
MCLower == [n \in {<<11>>, <<12>>, <<13>>, <<20>>} |-> n]
MCRenames == <<{MCUnnamed, <<11>>}, {MCUnnamed}, {<<20>>}>>
MCStray == (1 :> {1}) @@ (2 :> {3})
MCInitial == (1 :> {1, 3}) @@ (2 :> {1})
MCAdded == <<1, 1, 2>>
MCNewTags == {{1}, {1, 3}, {}}
=============================================================================
