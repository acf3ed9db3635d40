------------------------------ MODULE TreeMerge ------------------------------
(***************************************************************************)
(* The three-way merge of trees behind every merge, squash and rebase:     *)
(* threeWayMergeTrees of git_service.go. A tree maps a name to what is     *)
(* there: {e} for an entry e (hash and mode), {} for nothing, as           *)
(* treeEntryState has it. Only root trees are merged: a name may be that   *)
(* of a whole directory, and its entry changes with anything below it.     *)
(* Module PullRequests takes a commit to be the set of its changes and a   *)
(* merge to be their union; the theorems here are what that rests on.      *)
(***************************************************************************)
EXTENDS TLAPS

CONSTANTS Names, Entries

There == {{}} \union {{e} : e \in Entries}
Trees == [Names -> There]

\* Both sides changed a name, and differently: ErrMergeConflict.
Conflicting(ancestor, base, head) ==
  \E n \in Names :
    base[n] # ancestor[n] /\ head[n] # ancestor[n] /\ base[n] # head[n]

\* What the loop appends for a name: the side that changed, else what was there.
Pick(a, b, h) == IF h # a THEN h ELSE b

\* Names deleted by both sides. The branch for two changed sides appends
\* head.entry without looking at head.exists: one zero TreeEntry (no name, no
\* mode, no hash) for each of them.
Deleted(ancestor, base, head) ==
  {n \in Names : ancestor[n] # {} /\ base[n] = {} /\ head[n] = {}}

\* The merged tree under its proper names, and the names that left a zero entry.
threeWayMergeTrees(ancestor, base, head) ==
  [tree |-> [n \in Names |-> Pick(ancestor[n], base[n], head[n])],
   zero |-> Deleted(ancestor, base, head)]

-----------------------------------------------------------------------------
\* Under its proper names the result of a merge is a tree, and it gains a zero
\* entry only for a name that both sides deleted.
LEMMA MergeIsTree ==
  ASSUME NEW ancestor \in Trees, NEW base \in Trees, NEW head \in Trees
  PROVE  threeWayMergeTrees(ancestor, base, head) \in [tree : Trees, zero : SUBSET Names]
  BY DEF threeWayMergeTrees, Pick, Deleted, Trees

\* A merge of head into base is that of base into head: merge and squash, which
\* call the function alike, and a merge in the other direction, end in one tree.
THEOREM MergeSymmetric ==
  ASSUME NEW ancestor \in Trees, NEW base \in Trees, NEW head \in Trees,
         ~Conflicting(ancestor, base, head)
  PROVE  /\ ~Conflicting(ancestor, head, base)
         /\ threeWayMergeTrees(ancestor, base, head) = threeWayMergeTrees(ancestor, head, base)
<1>1. ~Conflicting(ancestor, head, base)
  BY DEF Conflicting
<1>2. ASSUME NEW n \in Names
      PROVE  Pick(ancestor[n], base[n], head[n]) = Pick(ancestor[n], head[n], base[n])
  BY DEF Conflicting, Pick
<1>3. Deleted(ancestor, base, head) = Deleted(ancestor, head, base)
  BY DEF Deleted
<1> QED BY <1>1, <1>2, <1>3 DEF threeWayMergeTrees

\* Merging a branch that only moved on is a fast-forward: the two paths of
\* mergeMerge agree on the tree, and neither can conflict or leave a zero entry.
THEOREM FastForwardAgrees ==
  ASSUME NEW base \in Trees, NEW head \in Trees
  PROVE  /\ ~Conflicting(base, base, head)
         /\ threeWayMergeTrees(base, base, head) = [tree |-> head, zero |-> {}]
<1>1. ~Conflicting(base, base, head)
  BY DEF Conflicting
<1>2. ASSUME NEW n \in Names PROVE Pick(base[n], base[n], head[n]) = head[n]
  BY DEF Pick
<1>3. head = [n \in Names |-> head[n]]
  BY DEF Trees
<1>4. Deleted(base, base, head) = {}
  BY DEF Deleted
<1> QED BY <1>1, <1>2, <1>3, <1>4 DEF threeWayMergeTrees

\* A second merge of the same head cannot conflict and changes nothing under a
\* proper name, be the merge base the head itself (after a merge) or still the
\* old one (after a squash, which records no second parent). After a merge it is
\* clean; after a squash every name the head deleted leaves a zero entry.
THEOREM MergeTwiceIsOnce ==
  ASSUME NEW ancestor \in Trees, NEW base \in Trees, NEW head \in Trees,
         ~Conflicting(ancestor, base, head)
  PROVE  LET merged == threeWayMergeTrees(ancestor, base, head).tree IN
         /\ ~Conflicting(head, merged, head)
         /\ threeWayMergeTrees(head, merged, head) = [tree |-> merged, zero |-> {}]
         /\ ~Conflicting(ancestor, merged, head)
         /\ threeWayMergeTrees(ancestor, merged, head) =
              [tree |-> merged, zero |-> {n \in Names : ancestor[n] # {} /\ head[n] = {}}]
<1> DEFINE merged == threeWayMergeTrees(ancestor, base, head).tree
<1>1. ASSUME NEW n \in Names PROVE merged[n] = Pick(ancestor[n], base[n], head[n])
  BY DEF threeWayMergeTrees
<1>2. merged = [n \in Names |-> merged[n]]
  BY DEF threeWayMergeTrees
<1> HIDE DEF merged
<1>3. ~Conflicting(ancestor, merged, head) /\ ~Conflicting(head, merged, head)
  BY <1>1 DEF Conflicting, Pick
<1>4. ASSUME NEW n \in Names
      PROVE  Pick(ancestor[n], merged[n], head[n]) = merged[n] /\ Pick(head[n], merged[n], head[n]) = merged[n]
  BY <1>1, <1>4 DEF Pick
<1>5. Deleted(head, merged, head) = {}
  BY DEF Deleted
<1>6. Deleted(ancestor, merged, head) = {n \in Names : ancestor[n] # {} /\ head[n] = {}}
  BY <1>1 DEF Deleted, Pick
<1>7. threeWayMergeTrees(head, merged, head) = [tree |-> merged, zero |-> {}]
  BY <1>2, <1>4, <1>5 DEF threeWayMergeTrees
<1>8. threeWayMergeTrees(ancestor, merged, head) =
        [tree |-> merged, zero |-> {n \in Names : ancestor[n] # {} /\ head[n] = {}}]
  BY <1>2, <1>4, <1>6 DEF threeWayMergeTrees
<1> QED BY <1>3, <1>7, <1>8 DEF merged

\* Two heads that fork from one ancestor end in the same tree in either order,
\* if no two of the three sides conflict, and leave zero entries for the same
\* names along the way: the union of changes is well defined.
THEOREM MergeOrderIrrelevant ==
  ASSUME NEW ancestor \in Trees, NEW base \in Trees, NEW one \in Trees, NEW two \in Trees,
         ~Conflicting(ancestor, base, one), ~Conflicting(ancestor, base, two),
         ~Conflicting(ancestor, one, two)
  PROVE  LET first  == threeWayMergeTrees(ancestor, base, one)
             second == threeWayMergeTrees(ancestor, base, two)
             oneTwo == threeWayMergeTrees(ancestor, first.tree, two)
             twoOne == threeWayMergeTrees(ancestor, second.tree, one)
         IN /\ ~Conflicting(ancestor, first.tree, two)
            /\ ~Conflicting(ancestor, second.tree, one)
            /\ oneTwo.tree = twoOne.tree
            /\ first.zero \union oneTwo.zero = second.zero \union twoOne.zero
<1> DEFINE first  == threeWayMergeTrees(ancestor, base, one).tree
           second == threeWayMergeTrees(ancestor, base, two).tree
<1>1. ASSUME NEW n \in Names
      PROVE  /\ first[n] = Pick(ancestor[n], base[n], one[n])
             /\ second[n] = Pick(ancestor[n], base[n], two[n])
  BY DEF threeWayMergeTrees
<1> HIDE DEF first, second
<1>2. ~Conflicting(ancestor, first, two)
  BY <1>1 DEF Conflicting, Pick
<1>3. ~Conflicting(ancestor, second, one)
  BY <1>1 DEF Conflicting, Pick
<1>4. ASSUME NEW n \in Names
      PROVE  Pick(ancestor[n], first[n], two[n]) = Pick(ancestor[n], second[n], one[n])
  BY <1>1 DEF Conflicting, Pick
<1>5. threeWayMergeTrees(ancestor, first, two).tree = threeWayMergeTrees(ancestor, second, one).tree
  BY <1>4 DEF threeWayMergeTrees
<1>6. ASSUME NEW n \in Names
      PROVE  n \in Deleted(ancestor, base, one) \union Deleted(ancestor, first, two)
             <=> n \in Deleted(ancestor, base, two) \union Deleted(ancestor, second, one)
  BY <1>1, <1>6 DEF Conflicting, Pick, Deleted
<1>7. Deleted(ancestor, base, one) \union Deleted(ancestor, first, two)
        = Deleted(ancestor, base, two) \union Deleted(ancestor, second, one)
  BY <1>6 DEF Deleted
<1> QED BY <1>2, <1>3, <1>5, <1>7 DEF first, second, threeWayMergeTrees
=============================================================================
