------------------------------ MODULE MCSearch ------------------------------
(* Two queries with a different number of hits. *)
EXTENDS Search
MCHits == [w \in Words |-> IF w = "a" THEN 1 ELSE 2]

\* Bound: a second word, or lists that are late, only while there is neither a layer
\* nor an edit mode, and with the switch of the account menu off.  What the layers
\* ask of the search is whether there is one; which answers crossed matters only to
\* what is shown and said of them.
Bounded ==
    \/ /\ {query, debounced, lastData} \cup cache \cup failed \subseteq {"a", Blank}
       /\ lists = "loaded" /\ first = Nothing
    \/ ~LayerUp /\ ~arranging /\ ~showBeta
MCSearchNext == SearchNext /\ Bounded'
MCSearchSpec ==
    /\ SearchInit /\ [][MCSearchNext]_searchVars
    /\ WF_searchVars(Debounce) /\ WF_searchVars(Answered \/ FetchFails)
=============================================================================
