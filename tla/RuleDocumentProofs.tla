------------------------- MODULE RuleDocumentProofs -------------------------
(***************************************************************************)
(* The shared document, for all rule files, mutations and workers: what    *)
(* cloneNode makes shares nothing with its original, every edit of a       *)
(* render stays in the worker's own copy, and so the document is as it was *)
(* loaded whatever the pool renders at the same time.  Load finds the      *)
(* alerts that promtool sees, and of a rendered file promtool reads what   *)
(* the mutation asks for, but where rules share text.                      *)
(***************************************************************************)
EXTENDS RuleDocument, SequenceTheorems, WellFoundedInduction, TLAPS

-----------------------------------------------------------------------------
(* Trees and their places.                                                 *)

Places(h, c) == {c} \X DOMAIN h[c]

(* An edit of one tree: it stays a tree and loses no place; no other tree  *)
(* is touched.                                                             *)
Edited(h, g, c) ==
  /\ IsTree(c, g[c]) /\ DOMAIN h[c] \subseteq DOMAIN g[c]
  /\ DOMAIN g = DOMAIN h
  /\ \A d \in DOMAIN h \ {c} : g[d] = h[d]

(* Two edits of one tree are one.                                          *)
LEMMA EditedTwice ==
  ASSUME NEW h, NEW g, NEW f, NEW c, Edited(h, g, c), Edited(g, f, c)
  PROVE  Edited(h, f, c)
BY DEF Edited

(* The least position of a set of positions.                               *)
LEMMA MinIsMember ==
  ASSUME NEW S \in SUBSET Nat, S # {}
  PROVE  Min(S) \in S
<1>1. PICK x \in S : \A y \in S : <<y, x>> \notin OpToRel(<, Nat)
  BY NatLessThanWellFounded, WFMin
<1>2. \A y \in S : ~(y < x)
  BY <1>1, Zenon DEF OpToRel
<1>3. \A y \in S : x =< y
  BY <1>2
<1> QED
  BY <1>3 DEF Min

-----------------------------------------------------------------------------
(* Looking up a key stays in the tree.                                     *)

(* What is known of a node of a tree by its place.                         *)
LEMMA NodeOfPlace ==
  ASSUME NEW h, NEW c, IsTree(c, h[c]), NEW a \in Places(h, c)
  PROVE  /\ a[1] = c /\ a[2] \in DOMAIN h[c] /\ a = <<c, a[2]>>
         /\ Node(h, a) = h[c][a[2]]
         /\ IsNode(c, DOMAIN h[c], Node(h, a))
         /\ Node(h, a).content \in Seq(Places(h, c))
<1>1. a[1] = c /\ a[2] \in DOMAIN h[c] /\ a = <<c, a[2]>>
  BY DEF Places
<1>2. Node(h, a) = h[c][a[2]] /\ IsNode(c, DOMAIN h[c], Node(h, a))
  BY <1>1 DEF Node, IsTree
<1> QED
  BY <1>1, <1>2 DEF IsNode, Places

(* A position is one of a key, or 0.                                       *)
LEMMA PositionOfKey ==
  ASSUME NEW h, NEW c, IsTree(c, h[c]), NEW a \in Places(h, c), NEW key
  PROVE  \/ Position(h, a, key) = 0
         \/ Position(h, a, key) \in 1..(Len(Node(h, a).content) - 1)
<1> DEFINE hits == {i \in KeyPositions(h, a) : KeyAt(h, a, i) = key}
<1>1. Len(Node(h, a).content) \in Nat
  BY NodeOfPlace
<1>2. hits \subseteq 1..(Len(Node(h, a).content) - 1) /\ hits \subseteq Nat
  BY <1>1 DEF KeyPositions
<1>3. Position(h, a, key) = IF hits = {} THEN 0 ELSE Min(hits)
  BY DEF Position
<1> HIDE DEF hits
<1> QED
  BY <1>2, <1>3, MinIsMember

(* Looking up a key leads to a node of the same tree, or to none.          *)
LEMMA ValueInTree ==
  ASSUME NEW h, NEW c, IsTree(c, h[c]), NEW a, a = Nothing \/ a \in Places(h, c), NEW key
  PROVE  mappingValue(h, a, key) = Nothing \/ mappingValue(h, a, key) \in Places(h, c)
<1>1. SUFFICES ASSUME a # Nothing, Position(h, a, key) # 0
               PROVE  Node(h, a).content[Position(h, a, key) + 1] \in Places(h, c)
  BY DEF mappingValue
<1>2. Node(h, a).content \in Seq(Places(h, c)) /\ Len(Node(h, a).content) \in Nat
  BY <1>1, NodeOfPlace
<1>3. Position(h, a, key) \in 1..(Len(Node(h, a).content) - 1)
  BY <1>1, PositionOfKey
<1>4. Position(h, a, key) + 1 \in 1..Len(Node(h, a).content)
  BY <1>2, <1>3
<1> QED
  BY <1>2, <1>4

(* locateRule leads to a node of the same tree, or to none.                *)
LEMMA RuleInTree ==
  ASSUME NEW h, NEW c, IsTree(c, h[c]), NEW m
  PROVE  locateRule(h, c, m) = Nothing \/ locateRule(h, c, m) \in Places(h, c)
<1> DEFINE groups == mappingValue(h, Root(c), "groups")
           group  == IF groups # Nothing /\ m.group \in DOMAIN Node(h, groups).content
                     THEN Node(h, groups).content[m.group] ELSE Nothing
           list   == mappingValue(h, group, "rules")
<1>1. Root(c) \in Places(h, c)
  BY DEF Root, Places, IsTree
<1>2. groups = Nothing \/ groups \in Places(h, c)
  BY <1>1, ValueInTree
<1>3. group = Nothing \/ group \in Places(h, c)
  BY <1>2, NodeOfPlace
<1>4. list = Nothing \/ list \in Places(h, c)
  BY <1>3, ValueInTree
<1>5. list # Nothing /\ m.rule \in DOMAIN Node(h, list).content =>
        Node(h, list).content[m.rule] \in Places(h, c)
  BY <1>4, NodeOfPlace
<1>6. locateRule(h, c, m) =
        IF list # Nothing /\ m.rule \in DOMAIN Node(h, list).content
        THEN Node(h, list).content[m.rule] ELSE Nothing
  BY DEF locateRule
<1> QED
  BY <1>5, <1>6

-----------------------------------------------------------------------------
(* Edits.                                                                  *)

WithValue(n, value)     == [n EXCEPT !.value = value]
WithContent(n, content) == [n EXCEPT !.content = content]
Replaced(t, p, n)       == [t EXCEPT ![p] = n]

(* A node with another value, or another list of the same tree.            *)
LEMMA NodeEdited ==
  ASSUME NEW c, NEW places, NEW n, IsNode(c, places, n)
  PROVE  /\ \A value : IsNode(c, places, WithValue(n, value))
         /\ \A content \in Seq({c} \X places) : IsNode(c, places, WithContent(n, content))
<1>1. PICK kind, tag, old, anchor, list :
        n = [kind |-> kind, tag |-> tag, value |-> old, anchor |-> anchor, content |-> list]
        /\ list \in Seq({c} \X places)
  BY DEF IsNode
<1>2. ASSUME NEW value PROVE IsNode(c, places, WithValue(n, value))
  <2>1. WithValue(n, value) =
          [kind |-> kind, tag |-> tag, value |-> value, anchor |-> anchor, content |-> list]
    BY <1>1 DEF WithValue
  <2> QED
    BY <1>1, <2>1 DEF IsNode
<1>3. ASSUME NEW content \in Seq({c} \X places) PROVE IsNode(c, places, WithContent(n, content))
  <2>1. WithContent(n, content) =
          [kind |-> kind, tag |-> tag, value |-> old, anchor |-> anchor, content |-> content]
    BY <1>1 DEF WithContent
  <2> QED
    BY <1>1, <2>1 DEF IsNode
<1> QED
  BY <1>2, <1>3

(* A tree in which one node is another.                                    *)
LEMMA NodeReplaced ==
  ASSUME NEW c, NEW t, IsTree(c, t), NEW p \in DOMAIN t, NEW n, IsNode(c, DOMAIN t, n)
  PROVE  IsTree(c, Replaced(t, p, n)) /\ DOMAIN Replaced(t, p, n) = DOMAIN t
<1> DEFINE g == Replaced(t, p, n)
<1>1. DOMAIN g = DOMAIN t /\ g = [q \in DOMAIN g |-> g[q]]
  BY DEF Replaced
<1>2. \A q \in DOMAIN t : g[q] = IF q = p THEN n ELSE t[q]
  BY DEF Replaced
<1> HIDE DEF g
<1>3. \A q \in DOMAIN t : IsNode(c, DOMAIN t, g[q])
  BY <1>2 DEF IsTree
<1> QED
  BY <1>1, <1>3 DEF IsTree, g

(* A heap in which one tree is another.                                    *)
LEMMA TreeReplaced ==
  ASSUME NEW h, NEW c \in DOMAIN h, NEW t, IsTree(c, t), DOMAIN h[c] \subseteq DOMAIN t
  PROVE  Edited(h, Replaced(h, c, t), c)
BY DEF Edited, Replaced

(* Both: an edit at one place of a copy.                                   *)
LEMMA PlaceReplaced ==
  ASSUME NEW h, NEW c \in DOMAIN h, IsTree(c, h[c]), NEW a \in Places(h, c),
         NEW n, IsNode(c, DOMAIN h[c], n)
  PROVE  Edited(h, Replaced(h, c, Replaced(h[c], a[2], n)), c)
<1>1. IsTree(c, Replaced(h[c], a[2], n)) /\ DOMAIN Replaced(h[c], a[2], n) = DOMAIN h[c]
  BY NodeOfPlace, NodeReplaced
<1> QED
  BY <1>1, TreeReplaced

(* node.Value = value is an edit of the tree of the node.                  *)
LEMMA ValueSet ==
  ASSUME NEW h, NEW c \in DOMAIN h, IsTree(c, h[c]), NEW a \in Places(h, c), NEW value
  PROVE  Edited(h, SetValue(h, a, value), c)
<1>1. IsNode(c, DOMAIN h[c], WithValue(Node(h, a), value))
  BY NodeOfPlace, NodeEdited
<1>2. SetValue(h, a, value) = Replaced(h, c, Replaced(h[c], a[2], WithValue(Node(h, a), value)))
  <2>1. a[1] = c
    BY NodeOfPlace
  <2> QED
    BY <2>1 DEF SetValue, Node, Replaced, WithValue
<1> QED
  BY <1>1, <1>2, PlaceReplaced

(* A list without one of its entries.                                      *)
LEMMA OneRemoved ==
  ASSUME NEW S, NEW s \in Seq(S), NEW j \in 1..Len(s)
  PROVE  RemoveAt(s, j) \in Seq(S) /\ Len(RemoveAt(s, j)) = Len(s) - 1
<1> DEFINE front == SubSeq(s, 1, j - 1)
           back  == SubSeq(s, j + 1, Len(s))
<1>1. front \in Seq(S) /\ Len(front) = j - 1
  OBVIOUS
<1>2. back \in Seq(S) /\ Len(back) = Len(s) - j
  OBVIOUS
<1>3. RemoveAt(s, j) = front \o back
  BY DEF RemoveAt
<1> HIDE DEF front, back
<1>4. front \o back \in Seq(S) /\ Len(front \o back) = Len(front) + Len(back)
  BY <1>1, <1>2, ConcatProperties
<1> QED
  BY <1>1, <1>2, <1>3, <1>4

(* removeMappingKey is an edit of the tree of its mapping.                 *)
LEMMA KeyRemoved ==
  ASSUME NEW h, NEW c \in DOMAIN h, IsTree(c, h[c]), NEW a \in Places(h, c), NEW key
  PROVE  Edited(h, removeMappingKey(h, a, key), c)
<1> DEFINE i    == Position(h, a, key)
           rest == RemoveAt(RemoveAt(Node(h, a).content, i), i)
<1>1. CASE i = 0
  BY <1>1 DEF removeMappingKey, Edited
<1>2. CASE i # 0
  <2>1. Node(h, a).content \in Seq(Places(h, c)) /\ i \in 1..(Len(Node(h, a).content) - 1)
    BY <1>2, NodeOfPlace, PositionOfKey
  <2>2. PICK s \in Seq(Places(h, c)) : s = Node(h, a).content
    BY <2>1
  <2>3. RemoveAt(s, i) \in Seq(Places(h, c)) /\ Len(RemoveAt(s, i)) = Len(s) - 1
    BY <2>1, <2>2, OneRemoved
  <2>4. i \in 1..Len(RemoveAt(s, i))
    BY <2>1, <2>2, <2>3
  <2>5. rest \in Seq({c} \X DOMAIN h[c])
    BY <2>2, <2>3, <2>4, OneRemoved DEF Places
  <2>6. IsNode(c, DOMAIN h[c], WithContent(Node(h, a), rest))
    BY <2>5, NodeOfPlace, NodeEdited
  <2>7. removeMappingKey(h, a, key) =
          Replaced(h, c, Replaced(h[c], a[2], WithContent(Node(h, a), rest)))
    <3>1. a[1] = c
      BY NodeOfPlace
    <3> QED
      BY <1>2, <3>1 DEF removeMappingKey, Node, Replaced, WithContent
  <2> HIDE DEF i, rest
  <2> QED
    BY <2>6, <2>7, PlaceReplaced
<1> QED
  BY <1>1, <1>2

(* A mapping gets a key and its value, in two new places.                  *)
LEMMA TreeGrown ==
  ASSUME NEW c, NEW t, IsTree(c, t), NEW p \in DOMAIN t, NEW k, NEW v,
         NEW key, NEW value, NEW g,
         LET tree == Replaced(t, p, WithContent(t[p], t[p].content \o <<<<c, k>>, <<c, v>>>>))
         IN  g = [place \in DOMAIN tree \cup {k, v} |->
                    IF place = k THEN Scalar(key) ELSE IF place = v THEN Scalar(value)
                    ELSE tree[place]]
  PROVE  IsTree(c, g) /\ DOMAIN t \subseteq DOMAIN g
<1> DEFINE places == DOMAIN t \cup {k, v}
           more == t[p].content \o <<<<c, k>>, <<c, v>>>>
<1>1. \A q \in DOMAIN t : IsNode(c, DOMAIN t, t[q])
  BY DEF IsTree
<1>2. \A n : IsNode(c, DOMAIN t, n) => IsNode(c, places, n)
  <2>1. Seq({c} \X DOMAIN t) \subseteq Seq({c} \X places)
    OBVIOUS
  <2> QED
    BY <2>1 DEF IsNode
<1>3. ASSUME NEW text PROVE IsNode(c, places, Scalar(text))
  <2>1. PICK n : n = Scalar(text)
    OBVIOUS
  <2>2. n = [kind |-> "scalar", tag |-> "str", value |-> text, anchor |-> "", content |-> <<>>]
    BY <2>1 DEF Scalar
  <2>3. n.content \in Seq({c} \X places)
    <3>1. n.content = <<>>
      BY <2>2
    <3>2. <<>> \in Seq({c} \X places)
      BY EmptySeq
    <3> QED
      BY <3>1, <3>2
  <2>4. n = [kind |-> n.kind, tag |-> n.tag, value |-> n.value, anchor |-> n.anchor,
             content |-> n.content]
    BY <2>2
  <2> QED
    BY <2>1, <2>3, <2>4 DEF IsNode
<1>4. more \in Seq({c} \X places)
  <2>1. t[p].content \in Seq({c} \X places)
    BY <1>1, <1>2 DEF IsNode
  <2>2. <<<<c, k>>, <<c, v>>>> \in Seq({c} \X places)
    OBVIOUS
  <2> QED
    BY <2>1, <2>2
<1>5. IsNode(c, places, WithContent(t[p], more))
  BY <1>1, <1>2, <1>4, NodeEdited
<1> HIDE DEF more
<1>6. /\ DOMAIN Replaced(t, p, WithContent(t[p], more)) = DOMAIN t
      /\ \A q \in DOMAIN t : IsNode(c, places, Replaced(t, p, WithContent(t[p], more))[q])
  BY <1>1, <1>2, <1>5 DEF Replaced
<1>7. g = [place \in places |->
             IF place = k THEN Scalar(key) ELSE IF place = v THEN Scalar(value)
             ELSE Replaced(t, p, WithContent(t[p], more))[place]]
  BY <1>6 DEF more
<1>8. DOMAIN g = places /\ g = [place \in DOMAIN g |-> g[place]]
  BY <1>7
<1>10. \A place \in places : IsNode(c, places, g[place])
  BY <1>3, <1>6, <1>7
<1>9. <<>> \in places
  BY DEF IsTree
<1> HIDE DEF places
<1> QED
  BY <1>8, <1>9, <1>10 DEF IsTree, places

(* setMappingScalar is an edit of the tree of its mapping.                 *)
LEMMA ScalarSet ==
  ASSUME NEW h, NEW c \in DOMAIN h, IsTree(c, h[c]), NEW a \in Places(h, c),
         NEW key, NEW value
  PROVE  Edited(h, setMappingScalar(h, a, key, value), c)
<1> DEFINE existing == mappingValue(h, a, key)
           k == Append(a[2], Len(Node(h, a).content) + 1)
           v == Append(a[2], Len(Node(h, a).content) + 2)
           tree == Replaced(h[c], a[2],
                     WithContent(h[c][a[2]], h[c][a[2]].content \o <<<<c, k>>, <<c, v>>>>))
           grown == [place \in DOMAIN tree \cup {k, v} |->
                       IF place = k THEN Scalar(key) ELSE IF place = v THEN Scalar(value)
                       ELSE tree[place]]
<1>1. a[1] = c /\ a[2] \in DOMAIN h[c]
  BY NodeOfPlace
<1>2. CASE existing # Nothing
  <2>1. existing \in Places(h, c)
    BY <1>2, ValueInTree
  <2>2. setMappingScalar(h, a, key, value) = SetValue(h, existing, value)
    BY <1>2 DEF setMappingScalar
  <2> HIDE DEF existing
  <2> QED
    BY <2>1, <2>2, ValueSet
<1>3. CASE existing = Nothing
  <2>1. setMappingScalar(h, a, key, value) = Replaced(h, c, grown)
    BY <1>1, <1>3 DEF setMappingScalar, Node, Replaced, WithContent
  <2>2. PICK g : g = grown
    OBVIOUS
  <2>3. IsTree(c, g) /\ DOMAIN h[c] \subseteq DOMAIN g
    <3> HIDE DEF k, v
    <3> QED
      BY <1>1, <2>2, TreeGrown
  <2> HIDE DEF grown
  <2> QED
    BY <2>1, <2>2, <2>3, TreeReplaced
<1> QED
  BY <1>2, <1>3

(* A whole mutation: expression first, then the delay.                     *)
LEMMA MutationEdits ==
  ASSUME NEW h, NEW c \in DOMAIN h, IsTree(c, h[c]), NEW a \in Places(h, c), NEW m,
         ~Refused(h, a, m)
  PROVE  Edited(h, Mutated(h, a, m), c)
<1> DEFINE expr == mappingValue(h, a, "expr")
           h1   == IF m.expr = "" THEN h ELSE SetValue(h, expr, m.expr)
<1>1. /\ Mutated(h, a, m) = (IF m.removeFor THEN removeMappingKey(h1, a, "for")
                            ELSE IF m.for # "" THEN setMappingScalar(h1, a, "for", m.for)
                            ELSE h1)
      /\ m.expr # "" => expr # Nothing
  BY DEF Mutated, Refused
<1>2. expr = Nothing \/ expr \in Places(h, c)
  BY ValueInTree
<1>3. Edited(h, h1, c)
  <2>1. CASE m.expr = ""
    BY <2>1 DEF Edited
  <2>2. CASE m.expr # ""
    BY <1>1, <1>2, <2>2, ValueSet
  <2> QED
    BY <2>1, <2>2
<1> HIDE DEF expr, h1
<1>4. c \in DOMAIN h1 /\ IsTree(c, h1[c]) /\ a \in Places(h1, c)
  BY <1>3 DEF Edited, Places
<1>5. Edited(h1, removeMappingKey(h1, a, "for"), c)
  BY <1>4, KeyRemoved
<1>6. Edited(h1, setMappingScalar(h1, a, "for", m.for), c)
  BY <1>4, ScalarSet
<1> QED
  BY <1>1, <1>3, <1>5, <1>6, EditedTwice

-----------------------------------------------------------------------------
(* The inductive invariant.                                                *)

(* A copy is a tree of its own, or dropped.                                *)
Whole(c) == heap[c] = Empty \/ IsTree(c, heap[c])

DocumentInv ==
  /\ document \in Documents
  /\ DOMAIN heap = Copies
  /\ \A c \in Copies : Whole(c)
  /\ alerts # Nothing => heap[Source] = document
  /\ DOMAIN pc = Workers
  /\ \A w \in Workers : pc[w] \in {"edit", "encode"} => IsTree(w, heap[w])

(* cloneNode: the same tree, with pointers of its own.                     *)
LEMMA CloneIsTree ==
  ASSUME NEW w, IsTree(Source, heap[Source])
  PROVE  IsTree(w, cloneNode(w))
<1> DEFINE t == heap[Source]
           g == cloneNode(w)
<1>1. ASSUME NEW s \in Seq({Source} \X DOMAIN t)
      PROVE  [i \in DOMAIN s |-> <<w, s[i][2]>>] \in Seq({w} \X DOMAIN t)
  <2>1. DOMAIN s = 1..Len(s) /\ Len(s) \in Nat /\ \A i \in 1..Len(s) : s[i][2] \in DOMAIN t
    BY <1>1
  <2> QED
    BY <2>1
<1>2. DOMAIN g = DOMAIN t /\ g = [p \in DOMAIN g |-> g[p]]
  BY DEF cloneNode
<1>3. ASSUME NEW p \in DOMAIN t PROVE IsNode(w, DOMAIN t, g[p])
  <2>1. PICK s \in Seq({Source} \X DOMAIN t) : s = t[p].content
    BY DEF IsTree, IsNode
  <2>2. PICK copied \in Seq({w} \X DOMAIN t) : copied = [i \in DOMAIN s |-> <<w, s[i][2]>>]
    BY <1>1
  <2>3. g[p] = [t[p] EXCEPT !.content = copied]
    BY <2>1, <2>2 DEF cloneNode
  <2>4. PICK n : n = t[p] /\ IsNode(Source, DOMAIN t, n)
    BY DEF IsTree
  <2>5. PICK m : m = [n EXCEPT !.content = copied]
    OBVIOUS
  <2>6. /\ m = [kind |-> n.kind, tag |-> n.tag, value |-> n.value, anchor |-> n.anchor,
                content |-> copied]
    BY <2>4, <2>5 DEF IsNode
  <2>7. IsNode(w, DOMAIN t, m)
    BY <2>6 DEF IsNode
  <2> QED
    BY <2>3, <2>4, <2>5, <2>7
<1>4. <<>> \in DOMAIN t
  BY DEF IsTree
<1> HIDE DEF g, t
<1>5. IsTree(w, g)
  BY <1>2, <1>3, <1>4 DEF IsTree
<1> QED
  BY <1>5 DEF g

(* No tree is read or copied at first.                                     *)
LEMMA InitDocument == Init => DocumentInv
BY DEF Init, DocumentInv, Whole

(* Every step keeps the invariant.                                         *)
LEMMA NextDocument ==
  ASSUME DocumentInv, [Next]_vars
  PROVE  DocumentInv'
<1> USE DEF DocumentInv
<1>0. Workers \subseteq Copies /\ Source \in Copies /\ Source \notin Workers
  BY SourceIsShared DEF Copies
<1>1. CASE UNCHANGED vars
  BY <1>1 DEF vars, Whole
<1>2. CASE Load
  <2>1. heap' = [heap EXCEPT ![Source] = document] /\ UNCHANGED <<document, pc, job>>
    BY <1>2 DEF Load
  <2>2. IsTree(Source, document)
    BY DocumentsAreTrees DEF IsDocument
  <2>3. /\ DOMAIN heap' = Copies /\ heap'[Source] = document
        /\ \A w \in Workers : heap'[w] = heap[w]
    BY <1>0, <2>1
  <2> QED
    BY <1>0, <2>1, <2>2, <2>3 DEF Whole, Copies
<1>3. ASSUME NEW w \in Workers, BeginRender(w) PROVE DocumentInv'
  <2>1. /\ alerts # Nothing /\ heap' = [heap EXCEPT ![w] = cloneNode(w)]
        /\ pc' = [pc EXCEPT ![w] = "edit"] /\ UNCHANGED <<document, alerts>>
    BY <1>3 DEF BeginRender, IsLoaded
  <2>5. IsTree(w, cloneNode(w))
    BY <2>1, DocumentsAreTrees, CloneIsTree DEF IsDocument
  <2>6. /\ DOMAIN heap' = Copies /\ IsTree(w, heap'[w])
        /\ \A c \in Copies \ {w} : heap'[c] = heap[c]
    BY <1>0, <2>1, <2>5
  <2>7. \A v \in Workers \ {w} : pc'[v] = pc[v]
    BY <2>1
  <2> QED
    BY <1>0, <2>1, <2>6, <2>7 DEF Whole, Copies
<1>4. ASSUME NEW w \in Workers, ApplyMutation(w) PROVE DocumentInv'
  <2> DEFINE rule == locateRule(heap, w, job[w])
  <2>1. pc[w] = "edit" /\ UNCHANGED <<document, alerts>> /\ IsTree(w, heap[w])
    BY <1>4 DEF ApplyMutation
  <2>2. CASE Refused(heap, rule, job[w])
    <3>1. pc' = [pc EXCEPT ![w] = "failed"] /\ heap' = [heap EXCEPT ![w] = Empty]
      BY <1>4, <2>2 DEF ApplyMutation
    <3>2. /\ DOMAIN heap' = Copies /\ heap'[w] = Empty
          /\ \A c \in Copies \ {w} : heap'[c] = heap[c]
      BY <1>0, <3>1
    <3>3. pc'[w] = "failed" /\ \A v \in Workers \ {w} : pc'[v] = pc[v]
      BY <3>1
    <3> QED
      BY <1>0, <2>1, <3>1, <3>2, <3>3, Empty' = Empty DEF Whole, Copies
  <2>3. CASE ~Refused(heap, rule, job[w])
    <3>1. pc' = [pc EXCEPT ![w] = "encode"] /\ heap' = Mutated(heap, rule, job[w])
      BY <1>4, <2>3 DEF ApplyMutation
    <3>2. rule \in Places(heap, w)
      BY <2>1, <2>3, RuleInTree DEF Refused
    <3> HIDE DEF rule
    <3>3. Edited(heap, heap', w)
      BY <1>0, <2>1, <2>3, <3>1, <3>2, MutationEdits
    <3>4. /\ DOMAIN heap' = Copies /\ IsTree(w, heap'[w])
          /\ \A c \in Copies \ {w} : heap'[c] = heap[c]
      BY <3>3 DEF Edited
    <3>5. pc'[w] = "encode" /\ \A v \in Workers \ {w} : pc'[v] = pc[v]
      BY <3>1
    <3> QED
      BY <1>0, <2>1, <3>1, <3>4, <3>5, Empty' = Empty DEF Whole, Copies
  <2> QED
    BY <2>2, <2>3
<1>5. ASSUME NEW w \in Workers, Encode(w) PROVE DocumentInv'
  <2>1. /\ heap' = [heap EXCEPT ![w] = Empty] /\ pc' = [pc EXCEPT ![w] = "done"]
        /\ UNCHANGED <<document, alerts, job>>
    BY <1>5 DEF Encode
  <2>2. /\ DOMAIN heap' = Copies /\ heap'[w] = Empty
        /\ \A c \in Copies \ {w} : heap'[c] = heap[c]
    BY <1>0, <2>1
  <2>3. pc'[w] = "done" /\ \A v \in Workers \ {w} : pc'[v] = pc[v]
    BY <2>1
  <2> QED
    BY <1>0, <2>1, <2>2, <2>3, Empty' = Empty DEF Whole, Copies
<1> QED
  BY <1>1, <1>2, <1>3, <1>4, <1>5 DEF Next

-----------------------------------------------------------------------------
(* Theorems.                                                               *)

(* Every reachable state satisfies the invariant.                          *)
THEOREM DocumentInvariance == Spec => []DocumentInv
BY InitDocument, NextDocument, PTL DEF Spec

(* Every pointer of a copy stays in the copy, and the document that all    *)
(* workers share is what was loaded.                                       *)
THEOREM SourceStaysIntact == Spec => []SourceIntact
<1>1. DocumentInv => SourceIntact
  <2> SUFFICES ASSUME DocumentInv PROVE SourceIntact
    OBVIOUS
  <2>1. ASSUME NEW c \in Copies, NEW place \in DOMAIN heap[c],
               NEW i \in DOMAIN heap[c][place].content
        PROVE  /\ heap[c][place].content[i][1] = c
               /\ heap[c][place].content[i][2] \in DOMAIN heap[c]
    <3>1. IsTree(c, heap[c])
      BY DEF DocumentInv, Whole, Empty
    <3>2. heap[c][place].content \in Seq({c} \X DOMAIN heap[c])
      BY <3>1 DEF IsTree, IsNode
    <3>3. heap[c][place].content[i] \in {c} \X DOMAIN heap[c]
      BY <3>2
    <3> QED
      BY <3>3
  <2>2. \A w \in Workers : pc[w] \in {"edit", "encode"} => <<>> \in DOMAIN heap[w]
    BY DEF DocumentInv, IsTree
  <2> QED
    BY <2>1, <2>2 DEF SourceIntact, CopiesApart, DocumentInv
<1> QED
  BY <1>1, DocumentInvariance, PTL

-----------------------------------------------------------------------------
(* Keys and values.                                                        *)

(* A position is that of the key, or 0 when no key is the one.             *)
LEMMA PositionIsHit ==
  ASSUME NEW h, NEW c, IsTree(c, h[c]), NEW a \in Places(h, c), NEW key
  PROVE  /\ KeyPositions(h, a) \subseteq 1..(Len(Node(h, a).content) - 1)
         /\ \/ Position(h, a, key) \in KeyPositions(h, a) /\ KeyAt(h, a, Position(h, a, key)) = key
            \/ /\ Position(h, a, key) = 0
               /\ \A i \in KeyPositions(h, a) : KeyAt(h, a, i) # key
<1> DEFINE hits == {i \in KeyPositions(h, a) : KeyAt(h, a, i) = key}
<1>1. Len(Node(h, a).content) \in Nat
  BY NodeOfPlace
<1>2. KeyPositions(h, a) \subseteq 1..(Len(Node(h, a).content) - 1) /\ hits \subseteq Nat
  BY <1>1 DEF KeyPositions
<1>3. Position(h, a, key) = IF hits = {} THEN 0 ELSE Min(hits)
  BY DEF Position
<1>4. CASE hits = {}
  BY <1>2, <1>3, <1>4
<1>5. CASE hits # {}
  <2> HIDE DEF hits
  <2>1. Position(h, a, key) \in hits
    BY <1>2, <1>3, <1>5, MinIsMember
  <2> QED
    BY <1>2, <2>1 DEF hits
<1> QED
  BY <1>4, <1>5

(* A value is found behind its key.                                        *)
LEMMA ValueFound ==
  ASSUME NEW h, NEW c, IsTree(c, h[c]), NEW a \in Places(h, c), NEW key,
         mappingValue(h, a, key) # Nothing
  PROVE  /\ Node(h, a).kind = "mapping" /\ Position(h, a, key) \in KeyPositions(h, a)
         /\ KeyAt(h, a, Position(h, a, key)) = key
         /\ Position(h, a, key) + 1 \in DOMAIN Node(h, a).content
         /\ mappingValue(h, a, key) = Node(h, a).content[Position(h, a, key) + 1]
         /\ mappingValue(h, a, key) \in Range(Node(h, a).content)
         /\ mappingValue(h, a, key) \in Places(h, c)
<1> DEFINE i == Position(h, a, key)
<1>1. /\ Node(h, a).kind = "mapping" /\ i # 0
      /\ mappingValue(h, a, key) = Node(h, a).content[i + 1]
  BY DEF mappingValue
<1>2. i \in KeyPositions(h, a) /\ KeyAt(h, a, i) = key
      /\ KeyPositions(h, a) \subseteq 1..(Len(Node(h, a).content) - 1)
  BY <1>1, PositionIsHit
<1>3. Node(h, a).content \in Seq(Places(h, c))
  BY NodeOfPlace
<1>4. i + 1 \in DOMAIN Node(h, a).content
  BY <1>2, <1>3
<1> QED
  BY <1>1, <1>2, <1>3, <1>4 DEF Range

-----------------------------------------------------------------------------
(* What is read from a tree depends on nothing but the tree.               *)

SameTree(h, g, c) == IsTree(c, h[c]) /\ g[c] = h[c]

Known(h, c, a) == a = Nothing \/ a \in Places(h, c)

(* Nodes, values and kinds.                                                *)
LEMMA SameValues ==
  ASSUME NEW h, NEW g, NEW c, SameTree(h, g, c), NEW a, Known(h, c, a)
  PROVE  /\ a # Nothing => Node(g, a) = Node(h, a)
         /\ \A key : mappingValue(g, a, key) = mappingValue(h, a, key)
                     /\ Known(h, c, mappingValue(h, a, key))
         /\ \A kind : IsKind(g, a, kind) <=> IsKind(h, a, kind)
         /\ scalarValue(g, a) = scalarValue(h, a)
<1> USE DEF SameTree, Known
<1>1. \A b \in Places(h, c) : Node(g, b) = Node(h, b)
  BY NodeOfPlace DEF Node
<1>2. /\ \A kind : IsKind(g, a, kind) <=> IsKind(h, a, kind)
      /\ scalarValue(g, a) = scalarValue(h, a)
  BY <1>1 DEF IsKind, scalarValue
<1>3. ASSUME NEW key PROVE mappingValue(g, a, key) = mappingValue(h, a, key)
  <2>1. CASE a = Nothing
    BY <2>1 DEF mappingValue
  <2>2. CASE a # Nothing
    <3>1. a \in Places(h, c) /\ Node(g, a) = Node(h, a)
      BY <1>1, <2>2
    <3>2. KeyPositions(g, a) = KeyPositions(h, a)
      BY <3>1 DEF KeyPositions
    <3>3. ASSUME NEW i \in KeyPositions(h, a) PROVE KeyAt(g, a, i) = KeyAt(h, a, i)
      <4>1. Node(h, a).content \in Seq(Places(h, c)) /\ i \in 1..(Len(Node(h, a).content) - 1)
        BY <3>1, NodeOfPlace, PositionIsHit
      <4>2. Node(h, a).content[i] \in Places(h, c)
        BY <4>1
      <4> QED
        BY <1>1, <3>1, <4>2 DEF KeyAt
    <3>4. Position(g, a, key) = Position(h, a, key)
      BY <3>2, <3>3 DEF Position
    <3> QED
      BY <3>1, <3>4 DEF mappingValue
  <2> QED
    BY <2>1, <2>2
<1>4. \A key : Known(h, c, mappingValue(h, a, key))
  BY ValueInTree
<1> QED
  BY <1>1, <1>2, <1>3, <1>4

(* What is written of a tree consists of places of it, and is closed       *)
(* under the lists of its nodes.                                           *)
LEMMA TreeClosed ==
  ASSUME NEW h, NEW c, IsTree(c, h[c])
  PROVE  /\ Tree(h, c) \subseteq Places(h, c) /\ Root(c) \in Tree(h, c)
         /\ \A a \in Places(h, c) : Range(Node(h, a).content) \subseteq Tree(h, c)
<1>1. Root(c) \in Places(h, c)
  BY DEF Root, Places, IsTree
<1>2. ASSUME NEW place \in DOMAIN h[c]
      PROVE  Range(h[c][place].content) \subseteq Places(h, c)
  <2>1. h[c][place].content \in Seq(Places(h, c))
    BY DEF IsTree, IsNode, Places
  <2> QED
    BY <2>1 DEF Range
<1>3. \A a \in Places(h, c) : Node(h, a) = h[c][a[2]] /\ a[2] \in DOMAIN h[c]
  BY NodeOfPlace
<1> QED
  BY <1>1, <1>2, <1>3 DEF Tree

(* In a readable tree aliases and fields lead to nodes of the tree, or to  *)
(* none.                                                                   *)
Complete(h, c) == IsTree(c, h[c]) /\ Readable(h, c)

InTree(h, c, a) == a = Nothing \/ a \in Tree(h, c)

(* An alias leads to a node of the tree.                                   *)
LEMMA FollowInTree ==
  ASSUME NEW h, NEW c, Complete(h, c), NEW a, InTree(h, c, a)
  PROVE  InTree(h, c, Follow(h, c, a))
<1>1. CASE IsKind(h, a, "alias")
  <2>1. a \in Tree(h, c) /\ Anchored(h, c, Node(h, a).value) # {}
    BY <1>1 DEF IsKind, InTree, Complete, Readable
  <2>2. Follow(h, c, a) \in Anchored(h, c, Node(h, a).value)
    BY <1>1, <2>1, Zenon DEF Follow
  <2> QED
    BY <2>2 DEF Anchored, InTree
<1>2. CASE ~IsKind(h, a, "alias")
  BY <1>2 DEF Follow
<1> QED
  BY <1>1, <1>2

(* So does a key.                                                          *)
LEMMA ValueInside ==
  ASSUME NEW h, NEW c, Complete(h, c), NEW a, InTree(h, c, a), NEW key
  PROVE  InTree(h, c, mappingValue(h, a, key))
<1> SUFFICES ASSUME mappingValue(h, a, key) # Nothing
             PROVE  mappingValue(h, a, key) \in Tree(h, c)
  BY DEF InTree
<1>1. a # Nothing
  BY DEF mappingValue
<1>2. a \in Places(h, c) /\ IsTree(c, h[c])
  BY <1>1, TreeClosed DEF InTree, Complete
<1>3. mappingValue(h, a, key) \in Range(Node(h, a).content)
  BY <1>2, ValueFound
<1> QED
  BY <1>2, <1>3, TreeClosed

(* So does a field, its own or a merged one.                               *)
LEMMA FieldInTree ==
  ASSUME NEW h, NEW c, Complete(h, c), NEW a, InTree(h, c, a), NEW key
  PROVE  InTree(h, c, Field(h, c, a, key))
<1> DEFINE own    == mappingValue(h, a, key)
           base   == mappingValue(h, a, "<<")
           merged == mappingValue(h, Follow(h, c, base), key)
<1>1. InTree(h, c, own) /\ InTree(h, c, base)
  BY ValueInside
<1>2. InTree(h, c, merged)
  <2> HIDE DEF base
  <2>1. InTree(h, c, Follow(h, c, base))
    BY <1>1, FollowInTree
  <2> QED
    BY <2>1, ValueInside
<1>3. Field(h, c, a, key) = Follow(h, c, IF own # Nothing THEN own ELSE merged)
  BY DEF Field
<1> HIDE DEF own, base, merged
<1> QED
  BY <1>1, <1>2, <1>3, FollowInTree

(* Two heaps with the same tree of a copy.                                 *)
LEMMA SameComplete ==
  ASSUME NEW h, NEW g, NEW c, SameTree(h, g, c), Complete(h, c)
  PROVE  Complete(g, c) /\ Tree(g, c) = Tree(h, c)
         /\ \A name : Anchored(g, c, name) = Anchored(h, c, name)
<1>1. Tree(g, c) = Tree(h, c) /\ Tree(h, c) \subseteq Places(h, c)
  BY TreeClosed DEF Tree, SameTree
<1>2. \A a \in Tree(h, c) : Node(g, a) = Node(h, a)
  BY <1>1, NodeOfPlace DEF Node, SameTree
<1>3. \A name : Anchored(g, c, name) = Anchored(h, c, name)
  BY <1>1, <1>2 DEF Anchored
<1>4. ASSUME NEW a \in Tree(h, c), NEW i \in KeyPositions(h, a)
      PROVE  KeyAt(g, a, i) = KeyAt(h, a, i)
  <2>1. a \in Places(h, c) /\ IsTree(c, h[c])
    BY <1>1 DEF SameTree
  <2>2. Node(h, a).content \in Seq(Places(h, c)) /\ i \in 1..(Len(Node(h, a).content) - 1)
    BY <2>1, NodeOfPlace, PositionIsHit
  <2>3. Node(h, a).content[i] \in Places(h, c)
    BY <2>2
  <2>4. \A b \in Places(h, c) : Node(g, b) = Node(h, b)
    BY <2>1, NodeOfPlace DEF Node, SameTree
  <2> QED
    BY <1>2, <2>3, <2>4 DEF KeyAt
<1>5. \A a \in Tree(h, c) : KeyPositions(g, a) = KeyPositions(h, a)
  BY <1>2 DEF KeyPositions
<1>6. Readable(g, c)
  <2> SUFFICES ASSUME NEW a \in Tree(g, c)
               PROVE  LET n == Node(g, a) IN
                      /\ n.kind = "alias" => Anchored(g, c, n.value) # {}
                      /\ n.tag = "null" => n.value = ""
                      /\ n.kind = "mapping" =>
                           \A i, j \in KeyPositions(g, a) :
                             KeyAt(g, a, i) = KeyAt(g, a, j) => i = j
    BY DEF Readable
  <2>1. LET n == Node(h, a) IN
        /\ n.kind = "alias" => Anchored(h, c, n.value) # {}
        /\ n.tag = "null" => n.value = ""
        /\ n.kind = "mapping" =>
             \A i, j \in KeyPositions(h, a) :
               KeyAt(h, a, i) = KeyAt(h, a, j) => i = j
    BY <1>1 DEF Complete, Readable
  <2> QED
    BY <1>1, <1>2, <1>3, <1>4, <1>5, <2>1
<1> QED
  BY <1>1, <1>2, <1>3, <1>6 DEF Complete, SameTree

(* Fields and lists of two heaps with the same tree.                       *)
LEMMA SameFields ==
  ASSUME NEW h, NEW g, NEW c, SameTree(h, g, c), Complete(h, c), NEW a, InTree(h, c, a)
  PROVE  /\ Follow(g, c, a) = Follow(h, c, a)
         /\ \A key : Field(g, c, a, key) = Field(h, c, a, key)
         /\ Elements(g, a) = Elements(h, a)
<1>0. \A b : InTree(h, c, b) => Known(h, c, b)
  BY TreeClosed DEF InTree, Known, SameTree
<1>1. ASSUME NEW b, InTree(h, c, b)
      PROVE  /\ \A key : mappingValue(g, b, key) = mappingValue(h, b, key)
             /\ Follow(g, c, b) = Follow(h, c, b)
  <2>1. /\ b # Nothing => Node(g, b) = Node(h, b)
        /\ \A key : mappingValue(g, b, key) = mappingValue(h, b, key)
        /\ \A kind : IsKind(g, b, kind) <=> IsKind(h, b, kind)
    BY <1>0, <1>1, SameValues
  <2>2. CASE IsKind(h, b, "alias")
    <3>1. IsKind(g, b, "alias") /\ Node(g, b) = Node(h, b)
      BY <2>1, <2>2 DEF IsKind
    <3>2. Anchored(g, c, Node(g, b).value) = Anchored(h, c, Node(h, b).value)
      BY <3>1, SameComplete
    <3> DEFINE Pick(S) == CHOOSE t \in S : TRUE
    <3>3. /\ Follow(g, c, b) = Pick(Anchored(g, c, Node(g, b).value))
          /\ Follow(h, c, b) = Pick(Anchored(h, c, Node(h, b).value))
      BY <2>2, <3>1, Zenon DEF Follow
    <3> HIDE DEF Pick
    <3> QED
      BY <2>1, <3>2, <3>3, Zenon
  <2>3. CASE ~IsKind(h, b, "alias")
    BY <2>1, <2>3 DEF Follow
  <2> QED
    BY <2>1, <2>2, <2>3
<1>2. ASSUME NEW key PROVE Field(g, c, a, key) = Field(h, c, a, key)
  <2> DEFINE own(x)    == mappingValue(x, a, key)
             base(x)   == mappingValue(x, a, "<<")
             merged(x) == mappingValue(x, Follow(x, c, base(x)), key)
             field(x)  == IF own(x) # Nothing THEN own(x) ELSE merged(x)
  <2>1. own(g) = own(h) /\ base(g) = base(h) /\ InTree(h, c, own(h)) /\ InTree(h, c, base(h))
    BY <1>1, ValueInside
  <2>2. Follow(g, c, base(g)) = Follow(h, c, base(h)) /\ InTree(h, c, Follow(h, c, base(h)))
    <3> HIDE DEF base
    <3> QED
      BY <1>1, <2>1, FollowInTree
  <2>3. merged(g) = merged(h) /\ InTree(h, c, merged(h))
    <3> HIDE DEF base
    <3> QED
      BY <1>1, <2>2, ValueInside
  <2>4. field(g) = field(h) /\ InTree(h, c, field(h))
    <3> HIDE DEF own, merged
    <3> QED
      BY <2>1, <2>3
  <2>5. Field(g, c, a, key) = Follow(g, c, field(g)) /\ Field(h, c, a, key) = Follow(h, c, field(h))
    BY Zenon DEF Field
  <2> HIDE DEF field
  <2> QED
    BY <1>1, <2>4, <2>5
<1>3. Elements(g, a) = Elements(h, a)
  BY <1>0, SameValues DEF Elements, IsKind
<1> QED
  BY <1>1, <1>2, <1>3

(* What promtool reads is the same.                                        *)
LEMMA SameReading ==
  ASSUME NEW h, NEW g, NEW c, SameTree(h, g, c), Complete(h, c)
  PROVE  Reads(g, c) = Reads(h, c)
<1> DEFINE top(x)        == Field(x, c, Root(c), "groups")
           groups(x)     == Elements(x, top(x))
           group(x, i)   == Follow(x, c, groups(x)[i])
           rules(x, i)   == Field(x, c, group(x, i), "rules")
           list(x, i)    == Elements(x, rules(x, i))
           rule(x, i, r) == Follow(x, c, list(x, i)[r])
           text(x, i, r) == [k \in Fields |-> scalarValue(x, Field(x, c, rule(x, i, r), k))]
<1>1. Complete(g, c)
  BY SameComplete
<1>2. Reads(g, c) = [i \in DOMAIN groups(g) |-> [r \in DOMAIN list(g, i) |-> text(g, i, r)]]
  BY <1>1, Zenon DEF Reads, Complete
<1>3. Reads(h, c) = [i \in DOMAIN groups(h) |-> [r \in DOMAIN list(h, i) |-> text(h, i, r)]]
  BY Zenon DEF Reads, Complete
<1>4. ASSUME NEW a, InTree(h, c, a)
      PROVE  \A i \in DOMAIN Elements(h, a) : InTree(h, c, Elements(h, a)[i])
  BY <1>4, TreeClosed DEF Elements, IsKind, InTree, Complete, Range
<1>5. top(g) = top(h) /\ InTree(h, c, top(h))
  <2>1. InTree(h, c, Root(c))
    BY TreeClosed DEF InTree, Complete
  <2> QED
    BY <2>1, SameFields, FieldInTree
<1> HIDE DEF top
<1>6. groups(g) = groups(h) /\ \A i \in DOMAIN groups(h) : InTree(h, c, groups(h)[i])
  BY <1>4, <1>5, SameFields
<1> HIDE DEF groups
<1>7. ASSUME NEW i \in DOMAIN groups(h)
      PROVE  group(g, i) = group(h, i) /\ InTree(h, c, group(h, i))
  BY <1>6, SameFields, FollowInTree
<1> HIDE DEF group
<1>8. ASSUME NEW i \in DOMAIN groups(h)
      PROVE  rules(g, i) = rules(h, i) /\ InTree(h, c, rules(h, i))
  BY <1>7, SameFields, FieldInTree
<1> HIDE DEF rules
<1>9. ASSUME NEW i \in DOMAIN groups(h)
      PROVE  list(g, i) = list(h, i)
             /\ \A r \in DOMAIN list(h, i) : InTree(h, c, list(h, i)[r])
  BY <1>4, <1>8, SameFields
<1> HIDE DEF list
<1>10. ASSUME NEW i \in DOMAIN groups(h), NEW r \in DOMAIN list(h, i)
       PROVE  rule(g, i, r) = rule(h, i, r) /\ InTree(h, c, rule(h, i, r))
  BY <1>9, SameFields, FollowInTree
<1> HIDE DEF rule
<1>11. ASSUME NEW i \in DOMAIN groups(h), NEW r \in DOMAIN list(h, i)
       PROVE  text(g, i, r) = text(h, i, r)
  <2>1. ASSUME NEW k
        PROVE  scalarValue(g, Field(g, c, rule(g, i, r), k))
                 = scalarValue(h, Field(h, c, rule(h, i, r), k))
    <3>1. Field(g, c, rule(g, i, r), k) = Field(h, c, rule(h, i, r), k)
      BY <1>10, SameFields
    <3>2. Known(h, c, Field(h, c, rule(h, i, r), k))
      BY <1>10, FieldInTree, TreeClosed DEF InTree, Known, Complete
    <3> QED
      BY <3>1, <3>2, SameValues
  <2> QED
    BY <2>1
<1> HIDE DEF text
<1> QED
  BY <1>2, <1>3, <1>6, <1>9, <1>11

-----------------------------------------------------------------------------
(* Groups, rules and texts, as a reader without aliases sees them.         *)

Groups(h, c)      == Elements(h, mappingValue(h, Root(c), "groups"))
RulesOf(h, c, g)  == Elements(h, mappingValue(h, Groups(h, c)[g], "rules"))
Text(h, a, key)   == scalarValue(h, mappingValue(h, a, key))

AlertAt(h, g, r) ==
  [group |-> g, rule |-> r,
   name  |-> Text(h, RulesOf(h, Source, g)[r], "alert"),
   expr  |-> Text(h, RulesOf(h, Source, g)[r], "expr"),
   for   |-> Text(h, RulesOf(h, Source, g)[r], "for")]

Named(h, g) == {r \in DOMAIN RulesOf(h, Source, g) : Text(h, RulesOf(h, Source, g)[r], "alert") # ""}

Found(h) == UNION {{AlertAt(h, g, r) : r \in Named(h, g)} : g \in DOMAIN Groups(h, Source)}

(* Loaded, in terms of the lists that a reader sees.                       *)
LEMMA AlertsAreFound ==
  ASSUME NEW h
  PROVE  Loaded(h) = IF \E a \in Found(h) : a.expr = "" THEN {} ELSE Found(h)
<1> DEFINE groups == mappingValue(h, Root(Source), "groups")
           found  == IF IsKind(h, groups, "sequence")
                     THEN UNION {AlertsOfGroup(h, g, Node(h, groups).content[g]) :
                                   g \in DOMAIN Node(h, groups).content}
                     ELSE {}
<1>1. ASSUME NEW g
      PROVE  AlertsOfGroup(h, g, Groups(h, Source)[g]) = {AlertAt(h, g, r) : r \in Named(h, g)}
  <2> DEFINE group == Groups(h, Source)[g]
             list  == mappingValue(h, group, "rules")
             rules == IF IsKind(h, group, "mapping") /\ IsKind(h, list, "sequence")
                      THEN Node(h, list).content ELSE <<>>
  <2>1. IsKind(h, list, "sequence") => IsKind(h, group, "mapping")
    BY DEF IsKind, mappingValue
  <2>2. rules = RulesOf(h, Source, g)
    BY <2>1 DEF RulesOf, Elements
  <2>3. \A a : Text(h, a, "alert") # "" => IsKind(h, a, "mapping")
    BY DEF Text, IsKind, mappingValue, scalarValue
  <2>4. AlertsOfGroup(h, g, group) =
          {[group |-> g, rule |-> r, name |-> Text(h, rules[r], "alert"),
            expr |-> Text(h, rules[r], "expr"), for |-> Text(h, rules[r], "for")] :
             r \in {r \in DOMAIN rules :
                      IsKind(h, rules[r], "mapping") /\ Text(h, rules[r], "alert") # ""}}
    BY Zenon DEF AlertsOfGroup, Text, RuleIndex
  <2> HIDE DEF rules
  <2>5. {r \in DOMAIN rules : IsKind(h, rules[r], "mapping") /\ Text(h, rules[r], "alert") # ""}
          = Named(h, g)
    BY <2>2, <2>3 DEF Named
  <2> QED
    BY <2>2, <2>4, <2>5 DEF AlertAt
<1>2. found = Found(h)
  <2>1. CASE IsKind(h, groups, "sequence")
    <3>1. Groups(h, Source) = Node(h, groups).content
      BY <2>1 DEF Groups, Elements
    <3>2. \A g : AlertsOfGroup(h, g, Node(h, groups).content[g])
                  = {AlertAt(h, g, r) : r \in Named(h, g)}
      BY <1>1, <3>1
    <3>3. found = UNION {AlertsOfGroup(h, g, Node(h, groups).content[g]) :
                           g \in DOMAIN Node(h, groups).content}
      BY <2>1
    <3> HIDE DEF found, groups
    <3>4. found = UNION {{AlertAt(h, g, r) : r \in Named(h, g)} :
                           g \in DOMAIN Node(h, groups).content}
      <4> DEFINE old(g) == AlertsOfGroup(h, g, Node(h, groups).content[g])
                 new(g) == {AlertAt(h, g, r) : r \in Named(h, g)}
      <4>1. \A g : old(g) = new(g)
        BY <3>2
      <4>2. found = UNION {old(g) : g \in DOMAIN Node(h, groups).content}
        BY <3>3
      <4> HIDE DEF old, new
      <4>3. found = UNION {new(g) : g \in DOMAIN Node(h, groups).content}
        BY <4>1, <4>2
      <4> QED
        BY <4>3 DEF new
    <3> QED
      BY <3>1, <3>4, Zenon DEF Found
  <2>2. CASE ~IsKind(h, groups, "sequence")
    <3>1. Groups(h, Source) = <<>>
      BY <2>2 DEF Groups, Elements
    <3> QED
      BY <2>2, <3>1 DEF Found
  <2> QED
    BY <2>1, <2>2
<1>3. Loaded(h) = IF \E a \in found : a.expr = "" THEN {} ELSE found
  BY Zenon DEF Loaded
<1> HIDE DEF found
<1> QED
  BY <1>2, <1>3

(* The entries of a list are nodes of the tree.                            *)
LEMMA ElementsInTree ==
  ASSUME NEW h, NEW c, IsTree(c, h[c]), NEW a, Known(h, c, a)
  PROVE  \A i \in DOMAIN Elements(h, a) : Known(h, c, Elements(h, a)[i])
<1>1. CASE IsKind(h, a, "sequence")
  <2>1. Elements(h, a) \in Seq(Places(h, c))
    BY <1>1, NodeOfPlace DEF Elements, IsKind, Known
  <2> QED
    BY <2>1 DEF Known
<1>2. CASE ~IsKind(h, a, "sequence")
  BY <1>2 DEF Elements
<1> QED
  BY <1>1, <1>2

(* Lists of two heaps with the same tree,                                  *)
LEMMA SameElements ==
  ASSUME NEW h, NEW g, NEW c, SameTree(h, g, c), NEW a, Known(h, c, a)
  PROVE  Elements(g, a) = Elements(h, a)
BY SameValues DEF Elements, IsKind

(* texts,                                                                  *)
LEMMA SameText ==
  ASSUME NEW h, NEW g, NEW c, SameTree(h, g, c), NEW a, Known(h, c, a), NEW key
  PROVE  Text(g, a, key) = Text(h, a, key)
<1>1. mappingValue(g, a, key) = mappingValue(h, a, key) /\ Known(h, c, mappingValue(h, a, key))
  BY SameValues
<1> QED
  BY <1>1, SameValues DEF Text

(* and groups and rules.                                                   *)
LEMMA SameRules ==
  ASSUME NEW h, NEW g, NEW c, SameTree(h, g, c)
  PROVE  /\ Groups(g, c) = Groups(h, c)
         /\ \A i \in DOMAIN Groups(h, c) :
              /\ Known(h, c, Groups(h, c)[i])
              /\ RulesOf(g, c, i) = RulesOf(h, c, i)
              /\ \A r \in DOMAIN RulesOf(h, c, i) : Known(h, c, RulesOf(h, c, i)[r])
<1>1. Known(h, c, Root(c)) /\ IsTree(c, h[c])
  BY DEF Known, Root, Places, SameTree, IsTree
<1>2. /\ mappingValue(g, Root(c), "groups") = mappingValue(h, Root(c), "groups")
      /\ Known(h, c, mappingValue(h, Root(c), "groups"))
  BY <1>1, SameValues
<1>3. Groups(g, c) = Groups(h, c) /\ \A i \in DOMAIN Groups(h, c) : Known(h, c, Groups(h, c)[i])
  BY <1>1, <1>2, SameElements, ElementsInTree DEF Groups
<1>4. ASSUME NEW i \in DOMAIN Groups(h, c)
      PROVE  /\ RulesOf(g, c, i) = RulesOf(h, c, i)
             /\ \A r \in DOMAIN RulesOf(h, c, i) : Known(h, c, RulesOf(h, c, i)[r])
  <2>1. /\ mappingValue(g, Groups(h, c)[i], "rules") = mappingValue(h, Groups(h, c)[i], "rules")
        /\ Known(h, c, mappingValue(h, Groups(h, c)[i], "rules"))
    BY <1>3, SameValues
  <2> QED
    BY <1>1, <1>3, <2>1, SameElements, ElementsInTree DEF RulesOf
<1> QED
  BY <1>3, <1>4

(* The alerts of a heap depend on the source document only.                *)
LEMMA SameLoaded ==
  ASSUME NEW h, NEW g, SameTree(h, g, Source)
  PROVE  Loaded(g) = Loaded(h)
<1>1. Groups(g, Source) = Groups(h, Source)
  BY SameRules
<1>2. ASSUME NEW i \in DOMAIN Groups(h, Source)
      PROVE  {AlertAt(g, i, r) : r \in Named(g, i)} = {AlertAt(h, i, r) : r \in Named(h, i)}
  <2>1. /\ RulesOf(g, Source, i) = RulesOf(h, Source, i)
        /\ \A r \in DOMAIN RulesOf(h, Source, i) : Known(h, Source, RulesOf(h, Source, i)[r])
    BY SameRules
  <2>2. ASSUME NEW r \in DOMAIN RulesOf(h, Source, i), NEW key
        PROVE  Text(g, RulesOf(h, Source, i)[r], key) = Text(h, RulesOf(h, Source, i)[r], key)
    BY <2>1, SameText
  <2>3. Named(g, i) = Named(h, i)
    BY <2>1, <2>2 DEF Named
  <2>4. \A r \in Named(h, i) : AlertAt(g, i, r) = AlertAt(h, i, r)
    BY <2>1, <2>2 DEF AlertAt, Named
  <2> QED
    BY <2>3, <2>4
<1>3. Found(g) = Found(h)
  BY <1>1, <1>2 DEF Found
<1> QED
  BY <1>3, AlertsAreFound

-----------------------------------------------------------------------------
(* A tree without aliases and merges is read as it is written.             *)

NoSharing(h, c) ==
  \A a \in Tree(h, c) : Node(h, a).kind # "alias" /\ mappingValue(h, a, "<<") = Nothing

(* Without aliases and merges, a field is the value behind its key.        *)
LEMMA PlainFields ==
  ASSUME NEW h, NEW c, Complete(h, c), NoSharing(h, c), NEW a, InTree(h, c, a)
  PROVE  Follow(h, c, a) = a /\ \A key : Field(h, c, a, key) = mappingValue(h, a, key)
<1>1. ASSUME NEW b, InTree(h, c, b) PROVE Follow(h, c, b) = b
  BY <1>1 DEF Follow, IsKind, InTree, NoSharing
<1>2. ASSUME NEW key PROVE Field(h, c, a, key) = mappingValue(h, a, key)
  <2> DEFINE own  == mappingValue(h, a, key)
             base == mappingValue(h, a, "<<")
  <2>1. InTree(h, c, own)
    BY ValueInside
  <2>2. base = Nothing
    BY DEF InTree, NoSharing, mappingValue
  <2>3. mappingValue(h, Follow(h, c, base), key) = Nothing
    <3>1. Follow(h, c, base) = Nothing
      BY <1>1, <2>2 DEF InTree
    <3> QED
      BY <3>1 DEF mappingValue
  <2>4. Field(h, c, a, key)
          = Follow(h, c, IF own # Nothing THEN own ELSE mappingValue(h, Follow(h, c, base), key))
    BY DEF Field
  <2> HIDE DEF own, base
  <2>5. Field(h, c, a, key) = Follow(h, c, own)
    BY <2>3, <2>4
  <2>6. Field(h, c, a, key) = own
    BY <1>1, <2>1, <2>5
  <2> QED
    BY <2>6 DEF own
<1> QED
  BY <1>1, <1>2

(* The entries of a list are in what is written.                           *)
LEMMA TreeElements ==
  ASSUME NEW h, NEW c, Complete(h, c), NEW a, InTree(h, c, a)
  PROVE  \A i \in DOMAIN Elements(h, a) : InTree(h, c, Elements(h, a)[i])
BY TreeClosed DEF Elements, IsKind, InTree, Complete, Range

(* So are groups and rules.                                                *)
LEMMA RulesInTree ==
  ASSUME NEW h, NEW c, Complete(h, c)
  PROVE  \A i \in DOMAIN Groups(h, c) :
           /\ InTree(h, c, Groups(h, c)[i])
           /\ \A r \in DOMAIN RulesOf(h, c, i) : InTree(h, c, RulesOf(h, c, i)[r])
<1>1. InTree(h, c, mappingValue(h, Root(c), "groups"))
  BY TreeClosed, ValueInside DEF InTree, Complete
<1>2. \A i \in DOMAIN Groups(h, c) : InTree(h, c, Groups(h, c)[i])
  BY <1>1, TreeElements DEF Groups
<1>3. ASSUME NEW i \in DOMAIN Groups(h, c)
      PROVE  \A r \in DOMAIN RulesOf(h, c, i) : InTree(h, c, RulesOf(h, c, i)[r])
  <2>1. InTree(h, c, mappingValue(h, Groups(h, c)[i], "rules"))
    BY <1>2, ValueInside
  <2> QED
    BY <2>1, TreeElements DEF RulesOf
<1> QED
  BY <1>2, <1>3

(* Without aliases and merges, promtool sees the texts behind the keys.    *)
LEMMA PlainReading ==
  ASSUME NEW h, NEW c, Complete(h, c), NoSharing(h, c)
  PROVE  Reads(h, c) = [g \in DOMAIN Groups(h, c) |-> [r \in DOMAIN RulesOf(h, c, g) |->
                         [k \in Fields |-> Text(h, RulesOf(h, c, g)[r], k)]]]
<1> DEFINE groups     == Elements(h, Field(h, c, Root(c), "groups"))
           list(g)    == Elements(h, Field(h, c, Follow(h, c, groups[g]), "rules"))
           text(g, r) == [k \in Fields |->
                           scalarValue(h, Field(h, c, Follow(h, c, list(g)[r]), k))]
<1>1. groups = Groups(h, c)
  BY TreeClosed, PlainFields DEF Groups, InTree, Complete
<1>2. ASSUME NEW g \in DOMAIN Groups(h, c) PROVE list(g) = RulesOf(h, c, g)
  <2>1. Field(h, c, Follow(h, c, Groups(h, c)[g]), "rules")
          = mappingValue(h, Groups(h, c)[g], "rules")
    BY RulesInTree, PlainFields
  <2> QED
    BY <1>1, <2>1 DEF RulesOf
<1>3. ASSUME NEW g \in DOMAIN Groups(h, c), NEW r \in DOMAIN RulesOf(h, c, g)
      PROVE  text(g, r) = [k \in Fields |-> Text(h, RulesOf(h, c, g)[r], k)]
  <2>1. \A k : Field(h, c, Follow(h, c, RulesOf(h, c, g)[r]), k)
                 = mappingValue(h, RulesOf(h, c, g)[r], k)
    BY RulesInTree, PlainFields
  <2> QED
    BY <1>2, <2>1 DEF Text
<1>4. Reads(h, c) = [g \in DOMAIN groups |-> [r \in DOMAIN list(g) |-> text(g, r)]]
  BY Zenon DEF Reads, Complete
<1> HIDE DEF groups, list, text
<1> QED
  BY <1>1, <1>2, <1>3, <1>4

-----------------------------------------------------------------------------
(* The alerts are those of the document, which is complete once loaded.    *)

AlertsInv == alerts # Nothing => alerts = Loaded(heap)

(* What Load read is a tree that promtool can read.                        *)
LEMMA LoadedIsComplete ==
  ASSUME DocumentInv, alerts # Nothing
  PROVE  Complete(heap, Source)
<1> DEFINE h == [c \in {Source} |-> document]
<1>1. document \in Documents /\ heap[Source] = document /\ h[Source] = document
  BY DEF DocumentInv
<1>2. IsTree(Source, document)
  BY <1>1, DocumentsAreTrees DEF IsDocument
<1>3. Complete(h, Source)
  <2>1. Readable(h, Source)
    BY <1>1, DocumentsAreRead, Zenon
  <2> HIDE DEF h
  <2> QED
    BY <1>1, <1>2, <2>1 DEF Complete
<1>4. SameTree(h, heap, Source)
  BY <1>1, <1>2 DEF SameTree
<1> HIDE DEF h
<1> QED
  BY <1>3, <1>4, SameComplete

(* The alerts stay those of the document, which nothing changes.           *)
LEMMA NextAlerts ==
  ASSUME DocumentInv, AlertsInv, [Next]_vars, DocumentInv'
  PROVE  AlertsInv'
<1>1. CASE alerts = Nothing
  <2>1. CASE alerts' = Nothing
    BY <2>1 DEF AlertsInv
  <2>2. CASE alerts' # Nothing
    <3>1. Load
      BY <1>1, <2>2 DEF Next, vars, BeginRender, ApplyMutation, Encode, IsLoaded
    <3> QED
      BY <3>1 DEF Load, AlertsInv
  <2> QED
    BY <2>1, <2>2
<1>2. CASE alerts # Nothing
  <2>1. alerts' = alerts /\ document' = document
    BY <1>2 DEF Next, vars, Load, BeginRender, ApplyMutation, Encode
  <2>2. heap'[Source] = heap[Source]
    BY <1>2, <2>1 DEF DocumentInv
  <2>3. SameTree(heap, heap', Source)
    BY <1>2, <2>2, LoadedIsComplete DEF SameTree, Complete
  <2>4. Loaded(heap') = Loaded(heap)
    BY <2>3, SameLoaded
  <2> QED
    BY <1>2, <2>1, <2>4 DEF AlertsInv
<1> QED
  BY <1>1, <1>2

(* Both invariants hold of every reachable state.                          *)
LEMMA AlertsInvariance == Spec => [](DocumentInv /\ AlertsInv)
<1>1. Init => DocumentInv /\ AlertsInv
  BY InitDocument DEF Init, AlertsInv
<1>2. (DocumentInv /\ AlertsInv) /\ [Next]_vars => (DocumentInv /\ AlertsInv)'
  BY NextDocument, NextAlerts
<1> QED
  BY <1>1, <1>2, PTL DEF Spec

(* A plain document has neither aliases nor merges.                        *)
LEMMA PlainIsNoSharing ==
  ASSUME Plain
  PROVE  NoSharing(heap, Source)
BY DEF Plain, Aliases, Merges, NoSharing

(* For every document without aliases and merges, the alerts that Load     *)
(* finds are those that promtool sees, at the indices, with the            *)
(* expression and the delay it sees, whatever renders run; the indices     *)
(* are those of the rules of a group, alerts or not.                       *)
THEOREM AlertsAreThoseOfPromtool == Spec => []AlertsOfPlainFilesLoaded
<1>1. DocumentInv /\ AlertsInv => AlertsOfPlainFilesLoaded
  <2> SUFFICES ASSUME DocumentInv, AlertsInv, IsLoaded, Plain
               PROVE  {<<a.group, a.rule, a.name, a.expr, a.for>> : a \in alerts}
                        = UNION {{<<g, r, Original[g][r].alert, Original[g][r].expr,
                                    Original[g][r].for>> :
                                    r \in {n \in DOMAIN Original[g] : Original[g][n].alert # ""}} :
                                   g \in DOMAIN Original}
    BY DEF AlertsOfPlainFilesLoaded
  <2> DEFINE rule(g, r) == RulesOf(heap, Source, g)[r]
             row(g, r)  == <<g, r, Text(heap, rule(g, r), "alert"), Text(heap, rule(g, r), "expr"),
                             Text(heap, rule(g, r), "for")>>
             read(g, r) == <<g, r, Original[g][r].alert, Original[g][r].expr, Original[g][r].for>>
  <2>1. alerts = Found(heap)
    BY AlertsAreFound DEF AlertsInv, IsLoaded
  <2>2. {<<a.group, a.rule, a.name, a.expr, a.for>> : a \in alerts}
          = UNION {{row(g, r) : r \in Named(heap, g)} : g \in DOMAIN Groups(heap, Source)}
    <3> DEFINE tuple(a) == <<a.group, a.rule, a.name, a.expr, a.for>>
    <3>1. ASSUME NEW g, NEW r PROVE tuple(AlertAt(heap, g, r)) = row(g, r)
      BY DEF AlertAt
    <3>2. \A a : a \in alerts <=> \E g \in DOMAIN Groups(heap, Source) :
                                   \E r \in Named(heap, g) : a = AlertAt(heap, g, r)
      <4> DEFINE group(g) == {AlertAt(heap, g, r) : r \in Named(heap, g)}
      <4>1. alerts = UNION {group(g) : g \in DOMAIN Groups(heap, Source)}
        BY <2>1 DEF Found
      <4>2. \A g : \A a : a \in group(g) <=> \E r \in Named(heap, g) : a = AlertAt(heap, g, r)
        OBVIOUS
      <4> HIDE DEF group
      <4>3. \A a : a \in alerts <=> \E g \in DOMAIN Groups(heap, Source) : a \in group(g)
        BY <4>1
      <4> QED
        BY <4>2, <4>3
    <3> HIDE DEF tuple, row
    <3>3. {tuple(a) : a \in alerts}
            = UNION {{row(g, r) : r \in Named(heap, g)} : g \in DOMAIN Groups(heap, Source)}
      BY <3>1, <3>2
    <3> QED
      BY <3>3 DEF tuple
  <2>3. Original = [g \in DOMAIN Groups(heap, Source) |-> [r \in DOMAIN RulesOf(heap, Source, g) |->
                     [k \in Fields |-> Text(heap, rule(g, r), k)]]]
    BY LoadedIsComplete, PlainIsNoSharing, PlainReading DEF IsLoaded, Original
  <2>4. ASSUME NEW g \in DOMAIN Groups(heap, Source), NEW r \in DOMAIN RulesOf(heap, Source, g)
        PROVE  /\ read(g, r) = row(g, r)
               /\ Original[g][r].alert = Text(heap, rule(g, r), "alert")
    BY <2>3 DEF Fields
  <2>5. ASSUME NEW g \in DOMAIN Groups(heap, Source)
        PROVE  /\ {n \in DOMAIN Original[g] : Original[g][n].alert # ""} = Named(heap, g)
               /\ {read(g, r) : r \in Named(heap, g)} = {row(g, r) : r \in Named(heap, g)}
    <3>1. DOMAIN Original[g] = DOMAIN RulesOf(heap, Source, g)
      BY <2>3
    <3> HIDE DEF read, row
    <3> QED
      BY <2>4, <3>1 DEF Named
  <2>6. DOMAIN Original = DOMAIN Groups(heap, Source)
    BY <2>3
  <2> HIDE DEF row
  <2>7. UNION {{read(g, r) : r \in {n \in DOMAIN Original[g] : Original[g][n].alert # ""}} :
                 g \in DOMAIN Original}
          = UNION {{row(g, r) : r \in Named(heap, g)} : g \in DOMAIN Groups(heap, Source)}
    <3> DEFINE some(g) == {n \in DOMAIN Original[g] : Original[g][n].alert # ""}
    <3> HIDE DEF read, some
    <3>1. \A g \in DOMAIN Groups(heap, Source) :
            {read(g, r) : r \in some(g)} = {row(g, r) : r \in Named(heap, g)}
      BY <2>5 DEF some
    <3> DEFINE left(g)  == {read(g, r) : r \in some(g)}
               right(g) == {row(g, r) : r \in Named(heap, g)}
    <3> HIDE DEF left, right
    <3>2. UNION {left(g) : g \in DOMAIN Original}
            = UNION {right(g) : g \in DOMAIN Groups(heap, Source)}
      <4>1. \A g \in DOMAIN Groups(heap, Source) : left(g) = right(g)
        BY <3>1 DEF left, right
      <4> QED
        BY <2>6, <4>1
    <3> QED
      BY <3>2, Zenon DEF some, left, right
  <2> QED
    BY <2>2, <2>7
<1> QED
  BY <1>1, AlertsInvariance, PTL

-----------------------------------------------------------------------------
(* A loaded document: the place of a node is its path, so that no node is  *)
(* pointed to twice.                                                       *)

Sound(h) ==
  /\ IsDocument(h[Source]) /\ Complete(h, Source)
  /\ \A a \in Tree(h, Source) :
       /\ ~IsKind(h, mappingValue(h, a, "for"), "mapping")
       /\ ~IsKind(h, mappingValue(h, a, "for"), "sequence")
       /\ IsKind(h, a, "alias") => Node(h, a).value # ""
       /\ Node(h, a).anchor # "" => Anchored(h, Source, Node(h, a).anchor) = {a}

(* What DocumentsAreRead says of a document holds in every heap that has   *)
(* it.                                                                     *)
LEMMA DocumentIsSound ==
  ASSUME NEW g, NEW d \in Documents, g[Source] = d
  PROVE  Sound(g)
<1> DEFINE h == [c \in {Source} |-> d]
<1>1. d \in Documents /\ g[Source] = d /\ h[Source] = d
  OBVIOUS
<1>2. IsDocument(d) /\ IsTree(Source, d)
  BY <1>1, DocumentsAreTrees DEF IsDocument
<1>3. /\ Readable(h, Source)
      /\ \A a \in Tree(h, Source) :
           LET delay == mappingValue(h, a, "for")
           IN  /\ ~IsKind(h, delay, "mapping") /\ ~IsKind(h, delay, "sequence")
               /\ IsKind(h, a, "alias") => Node(h, a).value # ""
               /\ Node(h, a).anchor # "" => Anchored(h, Source, Node(h, a).anchor) = {a}
  BY <1>1, DocumentsAreRead, Zenon
<1> HIDE DEF h
<1>4. SameTree(h, g, Source) /\ Complete(h, Source)
  BY <1>1, <1>2, <1>3 DEF SameTree, Complete
<1>5. /\ Complete(g, Source) /\ Tree(g, Source) = Tree(h, Source)
      /\ \A name : Anchored(g, Source, name) = Anchored(h, Source, name)
  BY <1>4, SameComplete
<1>6. ASSUME NEW a \in Tree(h, Source)
      PROVE  /\ a \in Places(h, Source) /\ a # Nothing => Node(g, a) = Node(h, a)
             /\ mappingValue(g, a, "for") = mappingValue(h, a, "for")
             /\ \A kind : IsKind(g, a, kind) <=> IsKind(h, a, kind)
             /\ \A kind : IsKind(g, mappingValue(g, a, "for"), kind)
                          <=> IsKind(h, mappingValue(h, a, "for"), kind)
  <2>1. Known(h, Source, a)
    BY <1>1, <1>2, TreeClosed DEF Known
  <2>2. /\ mappingValue(g, a, "for") = mappingValue(h, a, "for")
        /\ Known(h, Source, mappingValue(h, a, "for"))
    BY <1>4, <2>1, SameValues
  <2> QED
    BY <1>4, <2>1, <2>2, SameValues
<1>7. \A a \in Tree(h, Source) : Node(g, a) = Node(h, a)
  BY <1>1, <1>2, TreeClosed, NodeOfPlace DEF Node
<1> QED
  BY <1>1, <1>2, <1>3, <1>5, <1>6, <1>7 DEF Sound

(* The shared document is such a one, once loaded.                         *)
LEMMA LoadedIsSound ==
  ASSUME DocumentInv, alerts # Nothing
  PROVE  Sound(heap)
BY DocumentIsSound DEF DocumentInv

(* No node is pointed to twice.                                            *)
LEMMA PlacesApart ==
  ASSUME NEW h, IsDocument(h[Source]), NEW a \in Places(h, Source), NEW b \in Places(h, Source),
         NEW i \in DOMAIN Node(h, a).content, NEW j \in DOMAIN Node(h, b).content,
         Node(h, a).content[i] = Node(h, b).content[j]
  PROVE  a = b /\ i = j
<1>1. IsTree(Source, h[Source])
  BY DEF IsDocument
<1>2. ASSUME NEW x \in Places(h, Source), NEW n \in DOMAIN Node(h, x).content
      PROVE  /\ x = <<Source, x[2]>> /\ x[2] \in Seq(Nat) /\ n \in Nat
             /\ Node(h, x).content[n] = <<Source, Append(x[2], n)>>
  <2>1. x = <<Source, x[2]>> /\ Node(h, x) = h[Source][x[2]] /\ x[2] \in DOMAIN h[Source]
    BY <1>1, NodeOfPlace
  <2>2. n \in Nat
    BY <1>1, NodeOfPlace
  <2> QED
    BY <2>1, <2>2 DEF IsDocument
<1>3. PICK p \in Seq(Nat), q \in Seq(Nat) : p = a[2] /\ q = b[2]
  BY <1>2
<1>4. i \in Nat /\ j \in Nat
  BY <1>2
<1>5. <<Source, Append(p, i)>> = <<Source, Append(q, j)>>
  <2>1. Node(h, a).content[i] = <<Source, Append(p, i)>>
    BY <1>2, <1>3, Zenon
  <2>2. Node(h, b).content[j] = <<Source, Append(q, j)>>
    BY <1>2, <1>3, Zenon
  <2> QED
    BY <2>1, <2>2, Zenon
<1>6. Append(p, i) = Append(q, j)
  BY <1>5, Zenon
<1>7. p = q /\ i = j
  BY <1>4, <1>6, AppendInjective
<1> QED
  BY <1>2, <1>3, <1>7

(* A key is no value, an element of a sequence is no value, and two values *)
(* are one only if they are of one key of one mapping.                     *)
LEMMA ValuesApart ==
  ASSUME NEW h, IsDocument(h[Source]), NEW a \in Places(h, Source), NEW b \in Places(h, Source),
         NEW key, mappingValue(h, b, key) # Nothing
  PROVE  /\ \A i \in KeyPositions(h, a) : Node(h, a).content[i] # mappingValue(h, b, key)
         /\ Node(h, a).kind = "sequence" =>
              \A i \in DOMAIN Node(h, a).content : Node(h, a).content[i] # mappingValue(h, b, key)
         /\ \A other : mappingValue(h, a, other) = mappingValue(h, b, key) => a = b /\ other = key
<1> DEFINE j == Position(h, b, key)
<1>1. IsTree(Source, h[Source])
  BY DEF IsDocument
<1>2. /\ Node(h, b).kind = "mapping" /\ j \in KeyPositions(h, b) /\ KeyAt(h, b, j) = key
      /\ j + 1 \in DOMAIN Node(h, b).content
      /\ mappingValue(h, b, key) = Node(h, b).content[j + 1]
  BY <1>1, ValueFound
<1>3. j \in Nat /\ j % 2 = 1
  <2>1. Len(Node(h, b).content) \in Nat
    BY <1>1, NodeOfPlace
  <2> QED
    BY <1>2, <2>1 DEF KeyPositions
<1>4. Node(h, a).content \in Seq(Places(h, Source))
  BY <1>1, NodeOfPlace
<1> HIDE DEF j
<1>5. ASSUME NEW i \in KeyPositions(h, a) PROVE Node(h, a).content[i] # mappingValue(h, b, key)
  <2>1. i \in DOMAIN Node(h, a).content /\ i % 2 = 1 /\ i \in Nat
    BY <1>4 DEF KeyPositions
  <2>2. i # j + 1
    BY <1>3, <2>1
  <2> QED
    BY <1>2, <2>1, <2>2, PlacesApart
<1>6. ASSUME Node(h, a).kind = "sequence", NEW i \in DOMAIN Node(h, a).content
      PROVE  Node(h, a).content[i] # mappingValue(h, b, key)
  BY <1>2, <1>6, PlacesApart
<1>7. ASSUME NEW other, mappingValue(h, a, other) = mappingValue(h, b, key)
      PROVE  a = b /\ other = key
  <2> DEFINE i == Position(h, a, other)
  <2>1. /\ i \in KeyPositions(h, a) /\ KeyAt(h, a, i) = other
        /\ i + 1 \in DOMAIN Node(h, a).content
        /\ mappingValue(h, a, other) = Node(h, a).content[i + 1]
    BY <1>1, <1>7, ValueFound
  <2> HIDE DEF i
  <2>2. i \in Nat
    BY <1>4, <2>1 DEF KeyPositions
  <2>3. a = b /\ i + 1 = j + 1
    <3>1. Node(h, a).content[i + 1] = Node(h, b).content[j + 1]
      BY <1>2, <1>7, <2>1
    <3> QED
      BY <1>2, <2>1, <3>1, PlacesApart
  <2> QED
    BY <1>2, <1>3, <2>1, <2>2, <2>3
<1> QED
  BY <1>5, <1>6, <1>7

-----------------------------------------------------------------------------
(* The nodes of a copy and those of the source.                            *)

At(c, a) == IF a = Nothing THEN Nothing ELSE <<c, a[2]>>

MovedContent(h, c, a) == [i \in DOMAIN Node(h, a).content |-> At(c, Node(h, a).content[i])]

(* A place of a copy is no nil, and neither is where another copy has it.  *)
LEMMA PlacesAreNodes ==
  ASSUME NEW h, IsDocument(h[Source]), NEW a \in Places(h, Source), NEW c \in Copies
  PROVE  a # Nothing /\ At(c, a) = <<c, a[2]>> /\ At(c, a) # Nothing /\ a = <<Source, a[2]>>
<1>1. a = <<Source, a[2]>> /\ a[2] \in DOMAIN h[Source]
  <2>1. IsTree(Source, h[Source])
    BY DEF IsDocument
  <2> QED
    BY <2>1, NodeOfPlace
<1>2. a[2] \in Seq(Nat) /\ Source \in Copies
  BY <1>1 DEF IsDocument, Copies
<1>3. <<Source, a[2]>> \in Copies \X Seq(Nat) /\ <<c, a[2]>> \in Copies \X Seq(Nat)
  BY <1>2
<1>4. a # Nothing /\ <<c, a[2]>> # Nothing
  BY <1>1, <1>3, NothingIsNoNode, Zenon
<1> QED
  BY <1>1, <1>4, Zenon DEF At

(* A mapping whose content and keys are copied has its values copied.      *)
LEMMA MovedMapping ==
  ASSUME NEW h, IsTree(Source, h[Source]), NEW c, NEW a \in Places(h, Source),
         a # Nothing, At(c, a) # Nothing,
         Node(h, At(c, a)).kind = Node(h, a).kind,
         Node(h, At(c, a)).content = MovedContent(h, c, a),
         \A i \in KeyPositions(h, a) :
           Node(h, At(c, Node(h, a).content[i])).value = Node(h, Node(h, a).content[i]).value
  PROVE  /\ KeyPositions(h, At(c, a)) = KeyPositions(h, a)
         /\ \A i \in KeyPositions(h, a) : KeyAt(h, At(c, a), i) = KeyAt(h, a, i)
         /\ \A key : mappingValue(h, At(c, a), key) = At(c, mappingValue(h, a, key))
<1> DEFINE b == At(c, a)
<1>1. Node(h, a).content \in Seq(Places(h, Source))
  BY NodeOfPlace
<1>2. PICK s \in Seq(Places(h, Source)) : s = Node(h, a).content
  BY <1>1
<1>3. Node(h, b).content = [i \in 1..Len(s) |-> At(c, s[i])] /\ Len(s) \in Nat
  BY <1>2 DEF MovedContent
<1>4. Len(Node(h, b).content) = Len(s)
  BY <1>3
<1>5. KeyPositions(h, b) = KeyPositions(h, a) /\ KeyPositions(h, a) \subseteq 1..(Len(s) - 1)
  BY <1>2, <1>4, <1>3 DEF KeyPositions
<1>6. ASSUME NEW i \in KeyPositions(h, a) PROVE KeyAt(h, b, i) = KeyAt(h, a, i)
  <2>1. Node(h, b).content[i] = At(c, s[i])
    BY <1>3, <1>5
  <2>2. KeyAt(h, b, i) = Node(h, At(c, s[i])).value /\ KeyAt(h, a, i) = Node(h, s[i]).value
    BY <2>1, <1>2, Zenon DEF KeyAt
  <2> QED
    BY <1>2, <2>2
<1> HIDE DEF b
<1>7. \A key : Position(h, b, key) = Position(h, a, key)
  BY <1>5, <1>6 DEF Position
<1>8. ASSUME NEW key PROVE mappingValue(h, b, key) = At(c, mappingValue(h, a, key))
  <2>1. CASE Node(h, a).kind # "mapping" \/ Position(h, a, key) = 0
    BY <1>7, <2>1 DEF mappingValue, At, b
  <2>2. CASE Node(h, a).kind = "mapping" /\ Position(h, a, key) # 0
    <3>1. Position(h, a, key) \in 1..(Len(s) - 1)
      BY <1>2, <2>2, PositionOfKey
    <3>2. Node(h, b).content[Position(h, a, key) + 1] = At(c, s[Position(h, a, key) + 1])
      BY <1>3, <3>1
    <3>3. mappingValue(h, a, key) = s[Position(h, a, key) + 1]
      BY <1>2, <2>2 DEF mappingValue
    <3>4. mappingValue(h, b, key) = Node(h, b).content[Position(h, a, key) + 1]
      BY <1>7, <2>2 DEF mappingValue, b
    <3> QED
      BY <3>2, <3>3, <3>4
  <2> QED
    BY <2>1, <2>2
<1> QED
  BY <1>5, <1>6, <1>8 DEF b

Copied(h, c) ==
  /\ IsTree(c, h[c]) /\ DOMAIN h[c] = DOMAIN h[Source]
  /\ \A a \in Places(h, Source) :
       /\ Node(h, At(c, a)).kind = Node(h, a).kind /\ Node(h, At(c, a)).tag = Node(h, a).tag
       /\ Node(h, At(c, a)).anchor = Node(h, a).anchor
       /\ Node(h, At(c, a)).value = Node(h, a).value
       /\ Node(h, At(c, a)).content = MovedContent(h, c, a)

(* cloneNode copies every node, with the pointers of the clone.            *)
LEMMA CloneIsCopied ==
  ASSUME NEW w \in Workers, IsDocument(heap[Source]), heap[w] = cloneNode(w)
  PROVE  Copied(heap, w)
<1>0. IsTree(Source, heap[Source]) /\ w \in Copies
  BY DEF IsDocument, Copies
<1>1. IsTree(w, heap[w])
  BY <1>0, CloneIsTree
<1>2. DOMAIN heap[w] = DOMAIN heap[Source]
  BY DEF cloneNode
<1>3. ASSUME NEW a \in Places(heap, Source)
      PROVE  /\ Node(heap, At(w, a)).kind = Node(heap, a).kind
             /\ Node(heap, At(w, a)).tag = Node(heap, a).tag
             /\ Node(heap, At(w, a)).anchor = Node(heap, a).anchor
             /\ Node(heap, At(w, a)).value = Node(heap, a).value
             /\ Node(heap, At(w, a)).content = MovedContent(heap, w, a)
  <2>1. /\ At(w, a) = <<w, a[2]>> /\ a[2] \in DOMAIN heap[Source]
        /\ Node(heap, a) = heap[Source][a[2]]
        /\ Node(heap, a).content \in Seq(Places(heap, Source))
        /\ IsNode(Source, DOMAIN heap[Source], Node(heap, a))
    BY <1>0, PlacesAreNodes, NodeOfPlace
  <2>2. PICK n : n = Node(heap, a)
    OBVIOUS
  <2>3. Node(heap, At(w, a))
          = [n EXCEPT !.content = [i \in DOMAIN n.content |-> <<w, n.content[i][2]>>]]
    <3>1. At(w, a)[1] = w /\ At(w, a)[2] = a[2]
      BY <2>1
    <3>2. Node(heap, At(w, a)) = cloneNode(w)[a[2]]
      BY <3>1, Zenon DEF Node
    <3>3. n = heap[Source][a[2]]
      BY <2>1, <2>2
    <3>4. cloneNode(w)[a[2]]
            = [heap[Source][a[2]] EXCEPT
                 !.content = [i \in DOMAIN heap[Source][a[2]].content |->
                                <<w, heap[Source][a[2]].content[i][2]>>]]
      BY <2>1, Zenon DEF cloneNode
    <3> QED
      BY <3>2, <3>3, <3>4, Zenon
  <2>4. [i \in DOMAIN n.content |-> <<w, n.content[i][2]>>] = MovedContent(heap, w, a)
    <3>1. \A i \in DOMAIN n.content : n.content[i] \in Places(heap, Source)
      BY <2>1, <2>2
    <3>2. \A i \in DOMAIN n.content : At(w, n.content[i]) = <<w, n.content[i][2]>>
      BY <1>0, <3>1, PlacesAreNodes
    <3> QED
      BY <2>2, <3>2 DEF MovedContent
  <2>5. n = [kind |-> n.kind, tag |-> n.tag, value |-> n.value, anchor |-> n.anchor,
             content |-> n.content]
    BY <2>1, <2>2 DEF IsNode
  <2>6. Node(heap, At(w, a)) = [kind |-> n.kind, tag |-> n.tag, value |-> n.value,
                                anchor |-> n.anchor, content |-> MovedContent(heap, w, a)]
    BY <2>3, <2>4, <2>5
  <2> QED
    BY <2>2, <2>6
<1> QED
  BY <1>1, <1>2, <1>3 DEF Copied

(* What a copy holds is where the source has it.                           *)
LEMMA CopiedIsSame ==
  ASSUME NEW h, IsDocument(h[Source]), NEW c \in Copies, Copied(h, c), NEW a, Known(h, Source, a)
  PROVE  /\ Known(h, c, At(c, a))
         /\ \A key : mappingValue(h, At(c, a), key) = At(c, mappingValue(h, a, key))
         /\ scalarValue(h, At(c, a)) = scalarValue(h, a)
         /\ \A kind : IsKind(h, At(c, a), kind) <=> IsKind(h, a, kind)
<1>0. IsTree(Source, h[Source])
  BY DEF IsDocument
<1>1. CASE a = Nothing
  BY <1>1 DEF At, Known, mappingValue, scalarValue, IsKind
<1>2. CASE a # Nothing
  <2>1. a \in Places(h, Source) /\ At(c, a) # Nothing /\ At(c, a) = <<c, a[2]>>
    BY <1>2, PlacesAreNodes DEF Known
  <2>2. At(c, a) \in Places(h, c)
    BY <2>1 DEF Places, Copied
  <2>3. \A i \in KeyPositions(h, a) :
          Node(h, At(c, Node(h, a).content[i])).value = Node(h, Node(h, a).content[i]).value
    <3> SUFFICES ASSUME NEW i \in KeyPositions(h, a)
                 PROVE  Node(h, a).content[i] \in Places(h, Source)
      BY DEF Copied
    <3>1. Node(h, a).content \in Seq(Places(h, Source))
      BY <1>0, <2>1, NodeOfPlace
    <3>2. i \in 1..(Len(Node(h, a).content) - 1)
      BY <1>0, <2>1, PositionIsHit
    <3> QED
      BY <3>1, <3>2
  <2>4. \A key : mappingValue(h, At(c, a), key) = At(c, mappingValue(h, a, key))
    BY <1>0, <1>2, <2>1, <2>3, MovedMapping DEF Copied
  <2>5. Node(h, At(c, a)).kind = Node(h, a).kind /\ Node(h, At(c, a)).value = Node(h, a).value
    BY <2>1 DEF Copied
  <2> QED
    BY <1>2, <2>1, <2>2, <2>4, <2>5 DEF Known, scalarValue, IsKind
<1> QED
  BY <1>1, <1>2

-----------------------------------------------------------------------------
(* The rule of a mutation.                                                 *)

RuleAt(h, m) == RulesOf(h, Source, m.group)[m.rule]

(* A mutation changes the expression, removes the delay or sets it.        *)
Change(m) ==
  \/ m.expr # "" /\ m.for = "" /\ ~m.removeFor
  \/ m.expr = "" /\ m.for = "" /\ m.removeFor
  \/ m.expr = "" /\ m.for # "" /\ ~m.removeFor

Target(h, m) ==
  /\ m.group \in DOMAIN Groups(h, Source) /\ m.rule \in DOMAIN RulesOf(h, Source, m.group)
  /\ Text(h, RuleAt(h, m), "expr") # "" /\ Change(m)

(* A mutation of an alert names a rule with an expression.                 *)
LEMMA MutationsAreTargets ==
  ASSUME NEW h, NEW alert \in Loaded(h), NEW m \in Mutations(alert)
  PROVE  Target(h, m)
<1>1. alert \in Found(h) /\ alert.expr # ""
  BY AlertsAreFound
<1>2. PICK g, r : g \in DOMAIN Groups(h, Source) /\ r \in Named(h, g) /\ alert = AlertAt(h, g, r)
  <2> DEFINE group(g) == {AlertAt(h, g, r) : r \in Named(h, g)}
  <2>1. \A g : \A a : a \in group(g) <=> \E r \in Named(h, g) : a = AlertAt(h, g, r)
    OBVIOUS
  <2>2. alert \in UNION {group(g) : g \in DOMAIN Groups(h, Source)}
    BY <1>1 DEF Found
  <2> HIDE DEF group
  <2>3. \E g \in DOMAIN Groups(h, Source) : alert \in group(g)
    BY <2>2
  <2> QED
    BY <2>1, <2>3
<1>3. /\ alert.group = g /\ alert.rule = r /\ alert.expr = Text(h, RulesOf(h, Source, g)[r], "expr")
      /\ r \in DOMAIN RulesOf(h, Source, g)
  BY <1>2 DEF AlertAt, Named
<1>4. /\ m.group = alert.group /\ m.rule = alert.rule /\ Change(m)
  BY ChangesAreTexts DEF Mutations, Change
<1> QED
  BY <1>1, <1>2, <1>3, <1>4 DEF Target, RuleAt

(* The rule is a mapping, its expression a scalar that is not empty.       *)
LEMMA TargetIsRule ==
  ASSUME NEW h, IsDocument(h[Source]), NEW m, Target(h, m)
  PROVE  /\ RuleAt(h, m) \in Places(h, Source) /\ Node(h, RuleAt(h, m)).kind = "mapping"
         /\ mappingValue(h, RuleAt(h, m), "expr") \in Places(h, Source)
         /\ Node(h, mappingValue(h, RuleAt(h, m), "expr")).kind = "scalar"
         /\ Node(h, mappingValue(h, RuleAt(h, m), "expr")).value # ""
<1> DEFINE rule == RuleAt(h, m)
           expr == mappingValue(h, rule, "expr")
<1>1. IsTree(Source, h[Source]) /\ SameTree(h, h, Source)
  BY DEF IsDocument, SameTree
<1>2. Known(h, Source, rule)
  BY <1>1, SameRules DEF Target, RuleAt
<1>3. expr # Nothing /\ Node(h, expr).kind = "scalar" /\ Node(h, expr).value # ""
  BY DEF Target, Text, scalarValue
<1>4. rule # Nothing /\ Node(h, rule).kind = "mapping"
  BY <1>3 DEF mappingValue
<1> HIDE DEF rule
<1>5. rule \in Places(h, Source)
  BY <1>2, <1>4 DEF Known
<1>6. expr \in Places(h, Source)
  BY <1>1, <1>3, <1>5, ValueFound
<1> QED
  BY <1>3, <1>4, <1>5, <1>6 DEF rule

(* An entry of a list, where the copy has it.                              *)
LEMMA CopiedElement ==
  ASSUME NEW h, IsDocument(h[Source]), NEW c \in Copies, Copied(h, c), NEW a, Known(h, Source, a),
         NEW i \in DOMAIN Elements(h, a)
  PROVE  /\ At(c, a) # Nothing /\ i \in DOMAIN Node(h, At(c, a)).content
         /\ Node(h, At(c, a)).content[i] = At(c, Elements(h, a)[i])
<1>1. IsKind(h, a, "sequence")
  BY DEF Elements
<1>2. a \in Places(h, Source) /\ Elements(h, a) = Node(h, a).content
  BY <1>1 DEF Elements, IsKind, Known
<1>3. At(c, a) # Nothing
  BY <1>2, PlacesAreNodes
<1>4. Node(h, At(c, a)).content = MovedContent(h, c, a)
  BY <1>2 DEF Copied
<1> QED
  BY <1>2, <1>3, <1>4 DEF MovedContent

(* locateRule finds the rule of the copy, and not another one.             *)
LEMMA RuleLocated ==
  ASSUME NEW h, IsDocument(h[Source]), NEW c \in Copies, Copied(h, c), NEW m, Target(h, m)
  PROVE  locateRule(h, c, m) = At(c, RuleAt(h, m))
<1> DEFINE top    == mappingValue(h, Root(Source), "groups")
           list   == mappingValue(h, Groups(h, Source)[m.group], "rules")
           groups == mappingValue(h, Root(c), "groups")
           group  == IF groups # Nothing /\ m.group \in DOMAIN Node(h, groups).content
                     THEN Node(h, groups).content[m.group] ELSE Nothing
           rules  == mappingValue(h, group, "rules")
<1>1. IsTree(Source, h[Source]) /\ SameTree(h, h, Source)
  BY DEF IsDocument, SameTree
<1>2. /\ Root(Source) \in Places(h, Source) /\ Root(c) = At(c, Root(Source))
  <2>1. Root(Source) \in Places(h, Source)
    BY <1>1 DEF Root, Places, IsTree
  <2> QED
    BY <2>1, PlacesAreNodes DEF Root
<1>3. groups = At(c, top) /\ Known(h, Source, top)
  BY <1>1, <1>2, CopiedIsSame, SameValues DEF Known
<1>4. m.group \in DOMAIN Elements(h, top) /\ Elements(h, top) = Groups(h, Source)
  BY DEF Target, Groups
<1> HIDE DEF top, groups
<1>5. /\ groups # Nothing /\ m.group \in DOMAIN Node(h, groups).content
      /\ Node(h, groups).content[m.group] = At(c, Groups(h, Source)[m.group])
  BY <1>3, <1>4, CopiedElement
<1>6. group = At(c, Groups(h, Source)[m.group]) /\ Known(h, Source, Groups(h, Source)[m.group])
  BY <1>1, <1>5, SameRules DEF Target
<1>7. rules = At(c, list) /\ Known(h, Source, list)
  BY <1>1, <1>6, CopiedIsSame, SameValues
<1>8. m.rule \in DOMAIN Elements(h, list) /\ Elements(h, list)[m.rule] = RuleAt(h, m)
  BY DEF Target, RulesOf, RuleAt
<1> HIDE DEF list, rules
<1>9. /\ rules # Nothing /\ m.rule \in DOMAIN Node(h, rules).content
      /\ Node(h, rules).content[m.rule] = At(c, RuleAt(h, m))
  BY <1>7, <1>8, CopiedElement
<1>10. locateRule(h, c, m) = IF rules # Nothing /\ m.rule \in DOMAIN Node(h, rules).content
                             THEN Node(h, rules).content[m.rule] ELSE Nothing
  BY DEF locateRule, rules, groups
<1> QED
  BY <1>9, <1>10

-----------------------------------------------------------------------------
(* Edits, node by node.                                                    *)

KeysOnce(h, a) == \A i, j \in KeyPositions(h, a) : KeyAt(h, a, i) = KeyAt(h, a, j) => i = j

(* With every key once, a value is the one behind its key.                 *)
LEMMA UniqueValue ==
  ASSUME NEW h, NEW c, IsTree(c, h[c]), NEW a \in Places(h, c), a # Nothing,
         Node(h, a).kind = "mapping", KeysOnce(h, a), NEW i \in KeyPositions(h, a)
  PROVE  mappingValue(h, a, KeyAt(h, a, i)) = Node(h, a).content[i + 1]
<1> DEFINE key == KeyAt(h, a, i)
           p   == Position(h, a, key)
<1>1. /\ KeyPositions(h, a) \subseteq 1..(Len(Node(h, a).content) - 1)
      /\ \/ p \in KeyPositions(h, a) /\ KeyAt(h, a, p) = key
         \/ p = 0 /\ \A j \in KeyPositions(h, a) : KeyAt(h, a, j) # key
  BY PositionIsHit
<1>2. p = i
  BY <1>1 DEF KeysOnce
<1>3. i # 0
  <2>1. Len(Node(h, a).content) \in Nat
    BY NodeOfPlace
  <2> QED
    BY <1>1, <2>1
<1> QED
  BY <1>2, <1>3 DEF mappingValue

(* A key that is nowhere has no value.                                     *)
LEMMA NoValue ==
  ASSUME NEW h, NEW c, IsTree(c, h[c]), NEW a \in Places(h, c), NEW key,
         \A i \in KeyPositions(h, a) : KeyAt(h, a, i) # key
  PROVE  mappingValue(h, a, key) = Nothing
<1>1. Position(h, a, key) = 0
  BY PositionIsHit
<1> QED
  BY <1>1 DEF mappingValue

(* The entries that are left.                                              *)
LEMMA ElementRemoved ==
  ASSUME NEW S, NEW s \in Seq(S), NEW j \in 1..Len(s)
  PROVE  \A n \in 1..(Len(s) - 1) : RemoveAt(s, j)[n] = IF n < j THEN s[n] ELSE s[n + 1]
<1> DEFINE front == SubSeq(s, 1, j - 1)
           back  == SubSeq(s, j + 1, Len(s))
<1>1. front \in Seq(S) /\ Len(front) = j - 1 /\ \A n \in 1..(j - 1) : front[n] = s[n]
  OBVIOUS
<1>2. back \in Seq(S) /\ Len(back) = Len(s) - j /\ \A n \in 1..(Len(s) - j) : back[n] = s[n + j]
  OBVIOUS
<1>3. RemoveAt(s, j) = front \o back
  BY DEF RemoveAt
<1> HIDE DEF front, back
<1>4. \A n \in 1..(Len(front) + Len(back)) :
        (front \o back)[n] = IF n <= Len(front) THEN front[n] ELSE back[n - Len(front)]
  BY <1>1, <1>2, ConcatProperties
<1> SUFFICES ASSUME NEW n \in 1..(Len(s) - 1)
             PROVE  (front \o back)[n] = IF n < j THEN s[n] ELSE s[n + 1]
  BY <1>3
<1>5. (front \o back)[n] = IF n <= Len(front) THEN front[n] ELSE back[n - Len(front)]
  BY <1>1, <1>2, <1>4
<1>6. CASE n < j
  BY <1>1, <1>5, <1>6
<1>7. CASE ~(n < j)
  <2>1. n - (j - 1) \in 1..(Len(s) - j)
    BY <1>7
  <2>2. back[n - (j - 1)] = s[(n - (j - 1)) + j]
    BY <1>2, <2>1
  <2> QED
    BY <1>1, <1>5, <1>7, <2>2
<1> QED
  BY <1>6, <1>7

(* An entry of a mapping is removed, both key and value.                   *)
LEMMA EntryRemoved ==
  ASSUME NEW S, NEW s \in Seq(S), NEW i \in 1..(Len(s) - 1)
  PROVE  /\ RemoveAt(RemoveAt(s, i), i) \in Seq(S)
         /\ Len(RemoveAt(RemoveAt(s, i), i)) = Len(s) - 2
         /\ \A n \in 1..(Len(s) - 2) :
              RemoveAt(RemoveAt(s, i), i)[n] = IF n < i THEN s[n] ELSE s[n + 2]
<1>1. PICK t : t = RemoveAt(s, i)
  OBVIOUS
<1>2. t \in Seq(S) /\ Len(t) = Len(s) - 1
  BY <1>1, OneRemoved
<1>3. \A n \in 1..(Len(s) - 1) : t[n] = IF n < i THEN s[n] ELSE s[n + 1]
  BY <1>1, ElementRemoved
<1>4. i \in 1..Len(t)
  BY <1>2
<1>5. RemoveAt(t, i) \in Seq(S) /\ Len(RemoveAt(t, i)) = Len(t) - 1
  BY <1>2, <1>4, OneRemoved
<1>6. \A n \in 1..(Len(t) - 1) : RemoveAt(t, i)[n] = IF n < i THEN t[n] ELSE t[n + 1]
  BY <1>2, <1>4, ElementRemoved
<1>7. ASSUME NEW n \in 1..(Len(s) - 2)
      PROVE  RemoveAt(t, i)[n] = IF n < i THEN s[n] ELSE s[n + 2]
  <2>1. RemoveAt(t, i)[n] = IF n < i THEN t[n] ELSE t[n + 1]
    BY <1>2, <1>6
  <2>2. n \in 1..(Len(s) - 1) /\ n + 1 \in 1..(Len(s) - 1)
    OBVIOUS
  <2>3. n < i => t[n] = s[n]
    BY <1>3, <2>2
  <2>4. ~(n < i) => t[n + 1] = s[n + 2]
    <3>1. t[n + 1] = IF n + 1 < i THEN s[n + 1] ELSE s[(n + 1) + 1]
      BY <1>3, <2>2
    <3> QED
      BY <3>1
  <2> QED
    BY <2>1, <2>3, <2>4
<1> QED
  BY <1>1, <1>2, <1>5, <1>7

(* One node of one tree is replaced.                                       *)
OneNode(h, g, c, a, n) ==
  /\ DOMAIN g = DOMAIN h /\ DOMAIN g[c] = DOMAIN h[c]
  /\ \A d \in DOMAIN h \ {c} : g[d] = h[d]
  /\ Node(g, a) = n
  /\ \A b \in Places(h, c) \ {a} : Node(g, b) = Node(h, b)

(* Replacing a node of a heap changes that node only.                      *)
LEMMA NodesReplaced ==
  ASSUME NEW h, NEW c \in DOMAIN h, IsTree(c, h[c]), NEW a \in Places(h, c), NEW n
  PROVE  OneNode(h, Replaced(h, c, Replaced(h[c], a[2], n)), c, a, n)
<1>0. PICK g : g = Replaced(h, c, Replaced(h[c], a[2], n))
  OBVIOUS
<1>1. DOMAIN g = DOMAIN h /\ g[c] = Replaced(h[c], a[2], n) /\ \A d \in DOMAIN h \ {c} : g[d] = h[d]
  BY <1>0 DEF Replaced
<1>2. /\ DOMAIN g[c] = DOMAIN h[c]
      /\ \A q \in DOMAIN h[c] : g[c][q] = IF q = a[2] THEN n ELSE h[c][q]
  BY <1>1 DEF Replaced
<1>3. \A b \in Places(h, c) : b[1] = c /\ b[2] \in DOMAIN h[c] /\ b = <<c, b[2]>>
  BY NodeOfPlace
<1>4. Node(g, a) = n
  BY <1>2, <1>3 DEF Node
<1>5. ASSUME NEW b \in Places(h, c) \ {a} PROVE Node(g, b) = Node(h, b)
  <2>1. b[2] # a[2]
    BY <1>3
  <2> QED
    BY <1>2, <1>3, <2>1 DEF Node
<1> QED
  BY <1>0, <1>1, <1>2, <1>4, <1>5 DEF OneNode

(* So does SetValue,                                                       *)
LEMMA ValueSetNodes ==
  ASSUME NEW h, NEW c \in DOMAIN h, IsTree(c, h[c]), NEW a \in Places(h, c), NEW value
  PROVE  OneNode(h, SetValue(h, a, value), c, a, WithValue(Node(h, a), value))
<1>1. SetValue(h, a, value) = Replaced(h, c, Replaced(h[c], a[2], WithValue(Node(h, a), value)))
  <2>1. a[1] = c
    BY NodeOfPlace
  <2> QED
    BY <2>1 DEF SetValue, Node, Replaced, WithValue
<1> QED
  BY <1>1, NodesReplaced

(* and removeMappingKey,                                                   *)
LEMMA KeyRemovedNodes ==
  ASSUME NEW h, NEW c \in DOMAIN h, IsTree(c, h[c]), NEW a \in Places(h, c), NEW key,
         NEW i, i = Position(h, a, key), i # 0
  PROVE  OneNode(h, removeMappingKey(h, a, key), c, a,
                 WithContent(Node(h, a), RemoveAt(RemoveAt(Node(h, a).content, i), i)))
<1>1. removeMappingKey(h, a, key)
        = Replaced(h, c, Replaced(h[c], a[2],
                     WithContent(Node(h, a), RemoveAt(RemoveAt(Node(h, a).content, i), i))))
  <2>1. a[1] = c
    BY NodeOfPlace
  <2> QED
    BY <2>1 DEF removeMappingKey, Node, Replaced, WithContent
<1> QED
  BY <1>1, NodesReplaced

(* A mapping without the key gets it, with its value, in two new nodes.    *)
TwoNodes(h, g, c, a, k, v, key, value) ==
  /\ DOMAIN g = DOMAIN h /\ DOMAIN g[c] = DOMAIN h[c] \cup {k, v}
  /\ \A d \in DOMAIN h \ {c} : g[d] = h[d]
  /\ Node(g, a) = WithContent(Node(h, a), Node(h, a).content \o <<<<c, k>>, <<c, v>>>>)
  /\ \A b \in Places(h, c) \ {a} : Node(g, b) = Node(h, b)
  /\ Node(g, <<c, k>>) = Scalar(key) /\ Node(g, <<c, v>>) = Scalar(value)

(* while setMappingScalar adds two nodes when the key is new.              *)
LEMMA ScalarAddedNodes ==
  ASSUME NEW h, NEW c \in DOMAIN h, IsTree(c, h[c]), NEW a \in Places(h, c), NEW key, NEW value,
         mappingValue(h, a, key) = Nothing, NEW n, n = Len(Node(h, a).content),
         NEW k, k = Append(a[2], n + 1), NEW v, v = Append(a[2], n + 2),
         k # v, k \notin DOMAIN h[c], v \notin DOMAIN h[c]
  PROVE  TwoNodes(h, setMappingScalar(h, a, key, value), c, a, k, v, key, value)
<1> DEFINE more == WithContent(h[c][a[2]], h[c][a[2]].content \o <<<<c, k>>, <<c, v>>>>)
           tree == Replaced(h[c], a[2], more)
           grown == [place \in DOMAIN tree \cup {k, v} |->
                       IF place = k THEN Scalar(key) ELSE IF place = v THEN Scalar(value)
                       ELSE tree[place]]
<1>1. a[1] = c /\ a[2] \in DOMAIN h[c] /\ Node(h, a) = h[c][a[2]]
  BY NodeOfPlace
<1>2. setMappingScalar(h, a, key, value) = Replaced(h, c, grown)
  BY <1>1 DEF setMappingScalar, Node, Replaced, WithContent
<1> HIDE DEF more
<1>3. DOMAIN tree = DOMAIN h[c]
      /\ \A q \in DOMAIN h[c] : tree[q] = IF q = a[2] THEN more ELSE h[c][q]
  BY DEF Replaced
<1> HIDE DEF tree
<1>4. /\ DOMAIN grown = DOMAIN h[c] \cup {k, v} /\ grown[k] = Scalar(key) /\ grown[v] = Scalar(value)
      /\ \A q \in DOMAIN h[c] : grown[q] = IF q = a[2] THEN more ELSE h[c][q]
  BY <1>3
<1> HIDE DEF grown
<1>5. PICK g : g = setMappingScalar(h, a, key, value)
  OBVIOUS
<1>6. DOMAIN g = DOMAIN h /\ g[c] = grown /\ \A d \in DOMAIN h \ {c} : g[d] = h[d]
  BY <1>2, <1>5 DEF Replaced
<1>7. \A b \in Places(h, c) : b[1] = c /\ b[2] \in DOMAIN h[c] /\ b = <<c, b[2]>>
  BY NodeOfPlace
<1>8. ASSUME NEW b \in Places(h, c) \ {a} PROVE Node(g, b) = Node(h, b)
  <2>1. b[2] # a[2]
    BY <1>7
  <2> QED
    BY <1>4, <1>6, <1>7, <2>1 DEF Node
<1>9. Node(g, a) = more
  BY <1>1, <1>4, <1>6 DEF Node
<1>10. Node(g, <<c, k>>) = Scalar(key) /\ Node(g, <<c, v>>) = Scalar(value)
  BY <1>4, <1>6 DEF Node
<1> QED
  BY <1>1, <1>4, <1>5, <1>6, <1>8, <1>9, <1>10 DEF more, TwoNodes

-----------------------------------------------------------------------------
(* A mutated copy: all is as in the source, except for the rule's delay    *)
(* and the value of its expression.                                        *)

Fresh(g, c) == {b \in Places(g, c) : Node(g, b) = Scalar(Node(g, b).value)}

Touched(g, rule) == {mappingValue(g, rule, "expr"), mappingValue(g, rule, "for")}

Kept(g, c, rule) ==
  /\ IsTree(c, g[c])
  /\ \A a \in Places(g, Source) :
       /\ At(c, a) \in Places(g, c)
       /\ Node(g, At(c, a)).kind = Node(g, a).kind /\ Node(g, At(c, a)).tag = Node(g, a).tag
       /\ Node(g, At(c, a)).anchor = Node(g, a).anchor
       /\ a # rule => Node(g, At(c, a)).content = MovedContent(g, c, a)
       /\ a \notin Touched(g, rule) => Node(g, At(c, a)).value = Node(g, a).value
  /\ Places(g, c) \subseteq {At(c, a) : a \in Places(g, Source)} \cup Fresh(g, c)

Entries(g, c, rule) ==
  /\ Range(Node(g, At(c, rule)).content)
       \subseteq {At(c, b) : b \in Range(Node(g, rule).content)} \cup Fresh(g, c)
  /\ KeysOnce(g, At(c, rule))
  /\ \A key : key # "for" => mappingValue(g, At(c, rule), key) = At(c, mappingValue(g, rule, key))

Written(g, c, rule, m) ==
  /\ Text(g, At(c, rule), "expr") = IF m.expr = "" THEN Text(g, rule, "expr") ELSE m.expr
  /\ ~IsKind(g, mappingValue(g, rule, "for"), "alias") =>
       /\ Text(g, At(c, rule), "for") = IF m.expr = "" THEN m.for ELSE Text(g, rule, "for")
       /\ ~IsKind(g, mappingValue(g, At(c, rule), "for"), "alias")

Rendered(g, c, m) ==
  Kept(g, c, RuleAt(g, m)) /\ Entries(g, c, RuleAt(g, m)) /\ Written(g, c, RuleAt(g, m), m)

(* A copy in one heap, the source in another.                              *)
CopyOf(h, c, g) ==
  /\ IsTree(c, h[c])
  /\ \A a \in Places(g, Source) :
       /\ At(c, a) \in Places(h, c) /\ At(c, a) # Nothing /\ a # Nothing
       /\ Node(h, At(c, a)).kind = Node(g, a).kind /\ Node(h, At(c, a)).tag = Node(g, a).tag
       /\ Node(h, At(c, a)).anchor = Node(g, a).anchor
       /\ Node(h, At(c, a)).value = Node(g, a).value
       /\ Node(h, At(c, a)).content = MovedContent(g, c, a)
       /\ \A b \in Places(g, Source) : At(c, a) = At(c, b) => a = b
  /\ Places(h, c) = {At(c, a) : a \in Places(g, Source)}

(* A clone is a copy of the source, and stays one while others edit        *)
(* theirs.                                                                 *)
LEMMA CopyOfSource ==
  ASSUME NEW h, NEW g, IsDocument(g[Source]), g[Source] = h[Source], NEW c \in Copies, Copied(h, c)
  PROVE  CopyOf(h, c, g)
<1>1. /\ Places(g, Source) = Places(h, Source) /\ IsTree(Source, h[Source]) /\ IsDocument(h[Source])
      /\ IsTree(c, h[c])
  <2>1. Places(g, Source) = Places(h, Source)
    BY DEF Places
  <2>2. IsDocument(h[Source])
    BY Zenon
  <2>3. IsTree(Source, h[Source])
    BY <2>2 DEF IsDocument
  <2>4. IsTree(c, h[c])
    BY DEF Copied
  <2> QED
    BY <2>1, <2>2, <2>3, <2>4
<1>2. ASSUME NEW a \in Places(g, Source)
      PROVE  /\ a = <<Source, a[2]>> /\ a[2] \in DOMAIN h[Source] /\ At(c, a) = <<c, a[2]>>
             /\ At(c, a) # Nothing /\ a # Nothing
             /\ Node(g, a) = Node(h, a)
  <2>1. a = <<Source, a[2]>> /\ a[2] \in DOMAIN h[Source] /\ a[1] = Source
    BY <1>1, NodeOfPlace
  <2> QED
    BY <1>1, <2>1, PlacesAreNodes DEF Node
<1>3. ASSUME NEW a \in Places(g, Source)
      PROVE  /\ At(c, a) \in Places(h, c)
             /\ MovedContent(g, c, a) = MovedContent(h, c, a)
             /\ \A b \in Places(g, Source) : At(c, a) = At(c, b) => a = b
  <2>1. At(c, a) \in Places(h, c)
    BY <1>2 DEF Places, Copied
  <2>2. MovedContent(g, c, a) = MovedContent(h, c, a)
    BY <1>2 DEF MovedContent
  <2>3. ASSUME NEW b \in Places(g, Source), At(c, a) = At(c, b) PROVE a = b
    <3>1. <<c, a[2]>> = <<c, b[2]>>
      BY <1>2, <2>3
    <3>2. a[2] = b[2]
      BY <3>1
    <3> QED
      BY <1>2, <3>2
  <2> QED
    BY <2>1, <2>2, <2>3
<1>4. ASSUME NEW b \in Places(h, c) PROVE b \in {At(c, a) : a \in Places(g, Source)}
  <2>1. b = <<c, b[2]>> /\ b[2] \in DOMAIN h[Source]
    BY <1>1, NodeOfPlace DEF Copied
  <2>2. PICK a : a = <<Source, b[2]>>
    OBVIOUS
  <2>3. a \in Places(g, Source) /\ a[2] = b[2]
    BY <1>1, <2>1, <2>2 DEF Places
  <2> QED
    BY <1>2, <2>1, <2>3
<1> QED
  BY <1>1, <1>2, <1>3, <1>4 DEF CopyOf, Copied

(* One node of the copy is changed, and only where a mutation may.         *)
LEMMA KeptByOne ==
  ASSUME NEW h, NEW g, NEW c, CopyOf(h, c, g), IsTree(c, g[c]),
         NEW rule, NEW x \in Places(g, Source), NEW n, OneNode(h, g, c, At(c, x), n),
         n.kind = Node(g, x).kind, n.tag = Node(g, x).tag, n.anchor = Node(g, x).anchor,
         x # rule => n.content = MovedContent(g, c, x),
         x \notin Touched(g, rule) => n.value = Node(g, x).value
  PROVE  Kept(g, c, rule)
<1>1. Places(g, c) = Places(h, c)
  BY DEF OneNode, Places
<1>2. ASSUME NEW a \in Places(g, Source)
      PROVE  /\ At(c, a) \in Places(g, c)
             /\ Node(g, At(c, a)).kind = Node(g, a).kind /\ Node(g, At(c, a)).tag = Node(g, a).tag
             /\ Node(g, At(c, a)).anchor = Node(g, a).anchor
             /\ a # rule => Node(g, At(c, a)).content = MovedContent(g, c, a)
             /\ a \notin Touched(g, rule) => Node(g, At(c, a)).value = Node(g, a).value
  <2>1. CASE a = x
    BY <1>1, <2>1 DEF CopyOf, OneNode
  <2>2. CASE a # x
    <3>1. At(c, a) # At(c, x) /\ At(c, a) \in Places(h, c)
      BY <2>2 DEF CopyOf
    <3>2. Node(g, At(c, a)) = Node(h, At(c, a))
      BY <3>1 DEF OneNode
    <3> QED
      BY <1>1, <3>1, <3>2 DEF CopyOf
  <2> QED
    BY <2>1, <2>2
<1>3. Places(g, c) \subseteq {At(c, a) : a \in Places(g, Source)}
  BY <1>1 DEF CopyOf
<1> QED
  BY <1>2, <1>3 DEF Kept

(* Every node of a document is written.                                    *)
LEMMA PlacesInTree ==
  ASSUME NEW h, IsDocument(h[Source])
  PROVE  Places(h, Source) \subseteq Tree(h, Source)
<1> SUFFICES ASSUME NEW a \in Places(h, Source) PROVE a \in Tree(h, Source)
  OBVIOUS
<1>1. a = <<Source, a[2]>> /\ a[2] \in DOMAIN h[Source]
  <2>1. IsTree(Source, h[Source])
    BY DEF IsDocument
  <2> QED
    BY <2>1, NodeOfPlace
<1>2. CASE a[2] = <<>>
  BY <1>1, <1>2 DEF Tree, Root
<1>3. CASE a[2] # <<>>
  <2>1. PICK q, i : /\ q \in DOMAIN h[Source] /\ i \in DOMAIN h[Source][q].content
                    /\ a[2] = Append(q, i)
    BY <1>1, <1>3 DEF IsDocument
  <2>2. h[Source][q].content[i] = <<Source, Append(q, i)>>
    BY <2>1, Zenon DEF IsDocument
  <2>3. h[Source][q].content[i] = a
    BY <1>1, <2>1, <2>2, Zenon
  <2>4. a \in Range(h[Source][q].content)
    BY <2>1, <2>3 DEF Range
  <2> QED
    BY <2>1, <2>4 DEF Tree
<1> QED
  BY <1>2, <1>3

(* Every key of a mapping of the source is there once.                     *)
LEMMA SourceKeys ==
  ASSUME NEW h, Sound(h), NEW a \in Places(h, Source), Node(h, a).kind = "mapping"
  PROVE  KeysOnce(h, a)
<1>1. a \in Tree(h, Source)
  BY PlacesInTree DEF Sound
<1> QED
  BY <1>1 DEF Sound, Complete, Readable, KeysOnce

(* No key is changed by an edit.                                           *)
LEMMA KeysUntouched ==
  ASSUME NEW g, IsDocument(g[Source]), NEW rule \in Places(g, Source), NEW a \in Places(g, Source),
         NEW i \in KeyPositions(g, a)
  PROVE  /\ Node(g, a).content[i] \in Places(g, Source)
         /\ Node(g, a).content[i] \notin Touched(g, rule)
<1>0. IsTree(Source, g[Source])
  BY DEF IsDocument
<1>1. Node(g, a).content[i] \in Places(g, Source)
  <2>1. Node(g, a).content \in Seq(Places(g, Source))
    BY <1>0, NodeOfPlace
  <2>2. i \in 1..(Len(Node(g, a).content) - 1)
    BY <1>0, PositionIsHit
  <2> QED
    BY <2>1, <2>2
<1>2. Node(g, a).content[i] # Nothing
  <2>1. Source \in Copies
    BY DEF Copies
  <2> QED
    BY <1>1, <2>1, PlacesAreNodes
<1>3. \A key : mappingValue(g, rule, key) # Nothing =>
                Node(g, a).content[i] # mappingValue(g, rule, key)
  BY ValuesApart
<1> QED
  BY <1>1, <1>2, <1>3 DEF Touched

(* A mapping with the content of the source has its values.                *)
LEMMA KeptMapping ==
  ASSUME NEW g, IsDocument(g[Source]), NEW c \in Copies, NEW rule \in Places(g, Source),
         Kept(g, c, rule), NEW a \in Places(g, Source),
         Node(g, At(c, a)).content = MovedContent(g, c, a)
  PROVE  /\ KeyPositions(g, At(c, a)) = KeyPositions(g, a)
         /\ \A i \in KeyPositions(g, a) : KeyAt(g, At(c, a), i) = KeyAt(g, a, i)
         /\ \A key : mappingValue(g, At(c, a), key) = At(c, mappingValue(g, a, key))
<1>1. IsTree(Source, g[Source]) /\ a # Nothing /\ At(c, a) # Nothing
  BY PlacesAreNodes DEF IsDocument
<1>2. \A i \in KeyPositions(g, a) :
        Node(g, At(c, Node(g, a).content[i])).value = Node(g, Node(g, a).content[i]).value
  BY KeysUntouched DEF Kept
<1>3. Node(g, At(c, a)).kind = Node(g, a).kind
  BY DEF Kept
<1> QED
  BY <1>1, <1>2, <1>3, MovedMapping

(* A rule of which only a value is new has the entries of the source.      *)
LEMMA MovedEntries ==
  ASSUME NEW g, Sound(g), NEW c \in Copies, NEW rule \in Places(g, Source), Kept(g, c, rule),
         Node(g, rule).kind = "mapping",
         Node(g, At(c, rule)).content = MovedContent(g, c, rule)
  PROVE  Entries(g, c, rule)
<1>1. IsDocument(g[Source]) /\ KeysOnce(g, rule)
  BY SourceKeys DEF Sound
<1>2. /\ KeyPositions(g, At(c, rule)) = KeyPositions(g, rule)
      /\ \A i \in KeyPositions(g, rule) : KeyAt(g, At(c, rule), i) = KeyAt(g, rule, i)
      /\ \A key : mappingValue(g, At(c, rule), key) = At(c, mappingValue(g, rule, key))
  BY <1>1, KeptMapping
<1>3. KeysOnce(g, At(c, rule))
  BY <1>1, <1>2 DEF KeysOnce
<1>4. Range(Node(g, At(c, rule)).content) \subseteq {At(c, b) : b \in Range(Node(g, rule).content)}
  BY DEF MovedContent, Range
<1> QED
  BY <1>2, <1>3, <1>4 DEF Entries

(* What a render starts from, before and after the edit.                   *)
Ready(h, g, c, m) ==
  /\ c \in Workers /\ c \in DOMAIN h /\ g[Source] = h[Source] /\ Sound(g)
  /\ Copied(h, c) /\ Target(g, m) /\ IsTree(c, g[c])

(* What the edits use of it.                                               *)
LEMMA ReadyFacts ==
  ASSUME NEW h, NEW g, NEW c, NEW m, Ready(h, g, c, m), NEW rule, rule = RuleAt(g, m)
  PROVE  /\ c \in Copies /\ IsDocument(g[Source]) /\ IsTree(Source, g[Source]) /\ CopyOf(h, c, g)
         /\ rule \in Places(g, Source) /\ Node(g, rule).kind = "mapping" /\ KeysOnce(g, rule)
         /\ rule # Nothing /\ At(c, rule) \in Places(h, c)
         /\ mappingValue(g, rule, "expr") \in Places(g, Source)
         /\ Node(g, mappingValue(g, rule, "expr")).kind = "scalar"
         /\ \A a : Known(g, Source, a) =>
              \A key : mappingValue(h, At(c, a), key) = At(c, mappingValue(g, a, key))
<1>1. c \in Copies /\ IsDocument(g[Source]) /\ IsTree(Source, g[Source])
  BY DEF Ready, Sound, IsDocument, Copies
<1>2. CopyOf(h, c, g)
  BY <1>1, CopyOfSource DEF Ready
<1>3. /\ rule \in Places(g, Source) /\ Node(g, rule).kind = "mapping"
      /\ mappingValue(g, rule, "expr") \in Places(g, Source)
      /\ Node(g, mappingValue(g, rule, "expr")).kind = "scalar"
  BY <1>1, TargetIsRule DEF Ready
<1>4. KeysOnce(g, rule)
  BY <1>3, SourceKeys DEF Ready
<1>5. rule # Nothing /\ At(c, rule) \in Places(h, c)
  BY <1>2, <1>3 DEF CopyOf
<1>6. ASSUME NEW a, Known(g, Source, a), NEW key
      PROVE  mappingValue(h, At(c, a), key) = At(c, mappingValue(g, a, key))
  <2>1. SameTree(g, h, Source) /\ IsDocument(h[Source]) /\ Known(h, Source, a)
    <3>1. IsDocument(h[Source])
      BY <1>1, Zenon DEF Ready
    <3> QED
      BY <1>1, <1>6, <3>1 DEF Ready, SameTree, Known, Places
  <2>2. mappingValue(h, a, key) = mappingValue(g, a, key)
    BY <1>6, <2>1, SameValues
  <2>3. mappingValue(h, At(c, a), key) = At(c, mappingValue(h, a, key))
    BY <1>1, <2>1, CopiedIsSame DEF Ready
  <2> QED
    BY <2>2, <2>3
<1> QED
  BY <1>1, <1>2, <1>3, <1>4, <1>5, <1>6

-----------------------------------------------------------------------------
(* The edits of a render.                                                  *)

(* A value of the rule is overwritten: only its text is new.               *)
LEMMA ValueOverwritten ==
  ASSUME NEW h, NEW g, NEW c, NEW m, Ready(h, g, c, m), NEW rule, rule = RuleAt(g, m),
         NEW key \in {"expr", "for"}, mappingValue(g, rule, key) # Nothing, NEW value,
         g = SetValue(h, At(c, mappingValue(g, rule, key)), value)
  PROVE  /\ Kept(g, c, rule) /\ Entries(g, c, rule)
         /\ \A other : /\ mappingValue(g, At(c, rule), other) = At(c, mappingValue(g, rule, other))
                       /\ other # key => Text(g, At(c, rule), other) = Text(g, rule, other)
         /\ IsKind(g, mappingValue(g, rule, key), "scalar") => Text(g, At(c, rule), key) = value
<1> DEFINE x == mappingValue(g, rule, key)
           n == WithValue(Node(h, At(c, x)), value)
<1>1. /\ c \in Copies /\ IsDocument(g[Source]) /\ IsTree(Source, g[Source]) /\ CopyOf(h, c, g)
      /\ rule \in Places(g, Source) /\ Node(g, rule).kind = "mapping"
  BY ReadyFacts
<1>2. x \in Places(g, Source) /\ x \in Touched(g, rule)
  BY <1>1, ValueFound DEF Touched
<1>3. IsTree(c, h[c]) /\ c \in DOMAIN h /\ At(c, x) \in Places(h, c) /\ IsTree(c, g[c])
  BY <1>2, <1>1 DEF CopyOf, Ready
<1>4. OneNode(h, g, c, At(c, x), n)
  BY <1>3, ValueSetNodes
<1>5. /\ n.kind = Node(g, x).kind /\ n.tag = Node(g, x).tag /\ n.anchor = Node(g, x).anchor
      /\ n.content = MovedContent(g, c, x) /\ n.value = value
  <2>1. /\ Node(h, At(c, x)).kind = Node(g, x).kind /\ Node(h, At(c, x)).tag = Node(g, x).tag
        /\ Node(h, At(c, x)).anchor = Node(g, x).anchor
        /\ Node(h, At(c, x)).content = MovedContent(g, c, x)
    BY <1>1, <1>2 DEF CopyOf
  <2>2. IsNode(c, DOMAIN h[c], Node(h, At(c, x)))
    BY <1>3, NodeOfPlace
  <2>3. PICK old : old = Node(h, At(c, x))
    OBVIOUS
  <2>4. old = [kind |-> old.kind, tag |-> old.tag, value |-> old.value, anchor |-> old.anchor,
               content |-> old.content]
    BY <2>2, <2>3 DEF IsNode
  <2>5. n = [kind |-> old.kind, tag |-> old.tag, value |-> value, anchor |-> old.anchor,
             content |-> old.content]
    BY <2>3, <2>4 DEF WithValue
  <2> QED
    BY <2>1, <2>3, <2>5
<1> HIDE DEF n
<1>6. Kept(g, c, rule)
  <2> HIDE DEF x
  <2> QED
    BY <1>1, <1>2, <1>3, <1>4, <1>5, KeptByOne
<1>7. Node(g, At(c, rule)).content = MovedContent(g, c, rule)
  <2>1. CASE rule = x
    BY <1>4, <1>5, <2>1 DEF OneNode
  <2>2. CASE rule # x
    <3>1. At(c, rule) # At(c, x) /\ At(c, rule) \in Places(h, c)
      BY <1>1, <1>2, <2>2 DEF CopyOf
    <3>2. Node(g, At(c, rule)) = Node(h, At(c, rule))
      BY <1>4, <3>1 DEF OneNode
    <3> QED
      BY <1>1, <3>2 DEF CopyOf
  <2> QED
    BY <2>1, <2>2
<1>8. \A other : mappingValue(g, At(c, rule), other) = At(c, mappingValue(g, rule, other))
  BY <1>1, <1>6, <1>7, KeptMapping
<1>9. Entries(g, c, rule)
  BY <1>1, <1>6, <1>7, MovedEntries DEF Ready
<1>10. ASSUME NEW other, other # key PROVE Text(g, At(c, rule), other) = Text(g, rule, other)
  <2> DEFINE y == mappingValue(g, rule, other)
  <2>1. CASE y = Nothing
    BY <1>8, <2>1 DEF Text, At, scalarValue
  <2>2. CASE y # Nothing
    <3>1. y \in Places(g, Source) /\ y # x
      BY <1>1, <1>10, <2>2, ValueFound, ValuesApart
    <3>2. /\ At(c, y) # At(c, x) /\ At(c, y) \in Places(h, c) /\ At(c, y) # Nothing
          /\ Node(h, At(c, y)).kind = Node(g, y).kind /\ Node(h, At(c, y)).value = Node(g, y).value
      BY <1>1, <1>2, <3>1 DEF CopyOf
    <3>3. Node(g, At(c, y)) = Node(h, At(c, y))
      BY <1>4, <3>2 DEF OneNode
    <3> QED
      BY <1>8, <2>2, <3>2, <3>3 DEF Text, scalarValue
  <2> QED
    BY <2>1, <2>2
<1>11. IsKind(g, x, "scalar") => Text(g, At(c, rule), key) = value
  <2>1. Node(g, At(c, x)) = n /\ At(c, x) # Nothing
    BY <1>1, <1>2, <1>4 DEF OneNode, CopyOf
  <2> QED
    BY <1>5, <1>8, <2>1 DEF Text, scalarValue, IsKind
<1> QED
  BY <1>6, <1>8, <1>9, <1>10, <1>11

(* The delay is taken out.                                                 *)
LEMMA DelayRemoved ==
  ASSUME NEW h, NEW g, NEW c, NEW m, Ready(h, g, c, m), NEW rule, rule = RuleAt(g, m),
         mappingValue(g, rule, "for") # Nothing,
         g = removeMappingKey(h, At(c, rule), "for")
  PROVE  /\ Kept(g, c, rule) /\ Entries(g, c, rule)
         /\ mappingValue(g, At(c, rule), "for") = Nothing
         /\ \A x \in Places(g, Source) : Node(g, At(c, x)).value = Node(g, x).value
<1> DEFINE a == At(c, rule)
           i == Position(h, a, "for")
<1>1. /\ c \in Copies /\ IsDocument(g[Source]) /\ IsTree(Source, g[Source]) /\ CopyOf(h, c, g)
      /\ rule \in Places(g, Source) /\ Node(g, rule).kind = "mapping" /\ KeysOnce(g, rule)
  BY ReadyFacts
<1>2. /\ IsTree(c, h[c]) /\ c \in DOMAIN h /\ a \in Places(h, c) /\ IsTree(c, g[c]) /\ a # Nothing
      /\ Node(h, a).content = MovedContent(g, c, rule)
  BY <1>1 DEF CopyOf, Ready
<1>3. PICK s \in Seq(Places(g, Source)) : s = Node(g, rule).content
  BY <1>1, NodeOfPlace
<1>4. PICK t : t = Node(h, a).content
  OBVIOUS
<1>5. /\ t = [j \in 1..Len(s) |-> At(c, s[j])] /\ Len(s) \in Nat /\ Len(t) = Len(s)
      /\ t \in Seq(Places(h, c))
  <2>1. t = [j \in 1..Len(s) |-> At(c, s[j])] /\ Len(s) \in Nat
    BY <1>2, <1>3, <1>4 DEF MovedContent
  <2>2. t \in Seq(Places(h, c))
    BY <1>2, <1>4, NodeOfPlace
  <2> QED
    BY <2>1, <2>2
<1>6. /\ i \in KeyPositions(h, a) /\ KeyAt(h, a, i) = "for" /\ i \in 1..(Len(s) - 1) /\ i # 0
      /\ i % 2 = 1
  <2>1. mappingValue(h, a, "for") = At(c, mappingValue(g, rule, "for"))
    BY <1>1, ReadyFacts DEF Known
  <2>2. mappingValue(g, rule, "for") \in Places(g, Source)
    BY <1>1, ValueFound
  <2>3. mappingValue(h, a, "for") # Nothing
    BY <1>1, <2>1, <2>2 DEF CopyOf
  <2>4. i \in KeyPositions(h, a) /\ KeyAt(h, a, i) = "for"
    BY <1>2, <2>3, ValueFound
  <2>5. i \in 1..(Len(t) - 1) /\ i % 2 = 1
    BY <1>4, <1>5, <2>4 DEF KeyPositions
  <2> QED
    BY <1>5, <2>4, <2>5
<1> DEFINE rest == RemoveAt(RemoveAt(t, i), i)
           n    == WithContent(Node(h, a), rest)
<1>7. OneNode(h, g, c, a, n)
  BY <1>2, <1>4, <1>6, KeyRemovedNodes
<1>8. /\ rest \in Seq(Places(h, c)) /\ Len(rest) = Len(s) - 2
      /\ \A j \in 1..(Len(s) - 2) : rest[j] = IF j < i THEN t[j] ELSE t[j + 2]
  <2> HIDE DEF i
  <2>1. i \in 1..(Len(t) - 1)
    BY <1>5, <1>6
  <2>2. /\ rest \in Seq(Places(h, c)) /\ Len(rest) = Len(t) - 2
        /\ \A j \in 1..(Len(t) - 2) : rest[j] = IF j < i THEN t[j] ELSE t[j + 2]
    BY <1>5, <2>1, EntryRemoved
  <2> HIDE DEF rest
  <2> QED
    BY <1>5, <2>2
<1>9. /\ n.kind = Node(g, rule).kind /\ n.tag = Node(g, rule).tag
      /\ n.anchor = Node(g, rule).anchor /\ n.content = rest /\ n.value = Node(g, rule).value
  <2> HIDE DEF a, rest
  <2>1. /\ Node(h, a).kind = Node(g, rule).kind /\ Node(h, a).tag = Node(g, rule).tag
        /\ Node(h, a).anchor = Node(g, rule).anchor /\ Node(h, a).value = Node(g, rule).value
    BY <1>1 DEF CopyOf, a
  <2>2. IsNode(c, DOMAIN h[c], Node(h, a))
    BY <1>2, NodeOfPlace
  <2>3. PICK old : old = Node(h, a)
    OBVIOUS
  <2>4. old = [kind |-> old.kind, tag |-> old.tag, value |-> old.value, anchor |-> old.anchor,
               content |-> old.content]
    BY <2>2, <2>3 DEF IsNode
  <2>5. n = [kind |-> old.kind, tag |-> old.tag, value |-> old.value, anchor |-> old.anchor,
             content |-> rest]
    BY <2>3, <2>4 DEF WithContent
  <2> HIDE DEF n
  <2> QED
    BY <2>1, <2>3, <2>5
<1> HIDE DEF n, i, rest, a
<1>10. Kept(g, c, rule)
  BY <1>1, <1>2, <1>7, <1>9, KeptByOne DEF a
<1>11. Node(g, a).content = rest /\ Node(g, a).kind = "mapping"
  BY <1>1, <1>7, <1>9 DEF OneNode
(* Each key that is left is one of the source, elsewhere than the delay's. *)
<1> DEFINE was(j) == IF j < i THEN j ELSE j + 2
<1>12. ASSUME NEW j \in KeyPositions(g, a)
       PROVE  /\ was(j) \in KeyPositions(g, rule) /\ was(j) # i
              /\ KeyAt(g, a, j) = KeyAt(g, rule, was(j))
              /\ Node(g, a).content[j + 1] = At(c, Node(g, rule).content[was(j) + 1])
  <2>1. j \in 1..(Len(s) - 3) /\ j % 2 = 1
    BY <1>5, <1>8, <1>11 DEF KeyPositions
  <2>2. was(j) \in 1..(Len(s) - 1) /\ was(j) % 2 = 1 /\ was(j) # i
    BY <1>6, <2>1, <1>5
  <2>3. was(j) \in KeyPositions(g, rule)
    BY <1>3, <1>5, <2>2 DEF KeyPositions
  <2>4. rest[j] = t[was(j)] /\ rest[j + 1] = t[was(j) + 1]
    <3>1. j \in 1..(Len(s) - 2) /\ j + 1 \in 1..(Len(s) - 2)
      BY <1>5, <2>1
    <3>2. j < i <=> j + 1 < i
      BY <1>6, <2>1, <1>5
    <3>3. rest[j] = IF j < i THEN t[j] ELSE t[j + 2]
      BY <1>8, <3>1
    <3>4. rest[j + 1] = IF j + 1 < i THEN t[j + 1] ELSE t[j + 1 + 2]
      BY <1>8, <3>1
    <3>5. (j + 1) + 2 = (j + 2) + 1
      BY <2>1, <1>5
    <3> QED
      BY <3>2, <3>3, <3>4, <3>5
  <2>5. t[was(j)] = At(c, s[was(j)]) /\ t[was(j) + 1] = At(c, s[was(j) + 1])
    BY <1>5, <2>2
  <2> HIDE DEF was
  <2>6. Node(g, At(c, s[was(j)])).value = Node(g, s[was(j)]).value
    BY <1>1, <1>3, <1>10, <2>3, KeysUntouched DEF Kept
  <2>7. KeyAt(g, a, j) = Node(g, rest[j]).value
        /\ KeyAt(g, rule, was(j)) = Node(g, s[was(j)]).value
    BY <1>3, <1>11, Zenon DEF KeyAt
  <2> QED
    BY <1>3, <1>11, <2>2, <2>3, <2>4, <2>5, <2>6, <2>7
<1>13. KeysOnce(g, a)
  <2> SUFFICES ASSUME NEW j \in KeyPositions(g, a), NEW k \in KeyPositions(g, a),
                      KeyAt(g, a, j) = KeyAt(g, a, k)
               PROVE  j = k
    BY DEF KeysOnce
  <2>1. was(j) = was(k)
    <3> HIDE DEF was
    <3> QED
      BY <1>1, <1>12 DEF KeysOnce
  <2>2. j \in Nat /\ k \in Nat /\ i \in Nat
    BY <1>5, <1>6, <1>8, <1>11 DEF KeyPositions
  <2> QED
    BY <2>1, <2>2
<1>14. i \in KeyPositions(g, rule) /\ KeyAt(g, rule, i) = "for"
  <2>1. i \in KeyPositions(g, rule)
    BY <1>3, <1>5, <1>6 DEF KeyPositions
  <2>2. t[i] = At(c, s[i]) /\ s[i] \in Places(g, Source)
    BY <1>3, <1>5, <1>6
  <2>3. Node(h, t[i]).value = Node(g, s[i]).value
    BY <1>1, <2>2 DEF CopyOf
  <2> QED
    BY <1>3, <1>4, <1>6, <2>1, <2>3 DEF KeyAt
<1>15. a \in Places(g, c)
  BY <1>1, <1>10 DEF Kept, a
<1>16. mappingValue(g, a, "for") = Nothing
  <2> HIDE DEF was
  <2>1. \A j \in KeyPositions(g, a) : KeyAt(g, a, j) # "for"
    BY <1>1, <1>12, <1>14 DEF KeysOnce
  <2> QED
    BY <1>2, <1>15, <2>1, NoValue
<1>17. ASSUME NEW key, key # "for"
       PROVE  mappingValue(g, a, key) = At(c, mappingValue(g, rule, key))
  <2>1. CASE \E p \in KeyPositions(g, rule) : KeyAt(g, rule, p) = key
    <3>1. PICK p \in KeyPositions(g, rule) : KeyAt(g, rule, p) = key
      BY <2>1
    <3>2. p # i /\ p \in 1..(Len(s) - 1) /\ p % 2 = 1
      BY <1>3, <1>14, <1>17, <3>1 DEF KeyPositions
    <3>3. PICK j : j = IF p < i THEN p ELSE p - 2
      OBVIOUS
    <3>4. j \in 1..(Len(s) - 3) /\ j % 2 = 1 /\ was(j) = p
      BY <1>5, <1>6, <3>2, <3>3
    <3>5. j \in KeyPositions(g, a)
      BY <1>5, <1>8, <1>11, <3>4 DEF KeyPositions
    <3> HIDE DEF was
    <3>6. KeyAt(g, a, j) = key /\ Node(g, a).content[j + 1] = At(c, Node(g, rule).content[p + 1])
      BY <1>12, <3>1, <3>4, <3>5
    <3>7. mappingValue(g, a, key) = Node(g, a).content[j + 1]
      BY <1>2, <1>11, <1>13, <1>15, <3>5, <3>6, UniqueValue
    <3>8. mappingValue(g, rule, key) = Node(g, rule).content[p + 1]
      BY <1>1, <3>1, ReadyFacts, UniqueValue
    <3> QED
      BY <3>6, <3>7, <3>8
  <2>2. CASE \A p \in KeyPositions(g, rule) : KeyAt(g, rule, p) # key
    <3> HIDE DEF was
    <3>1. \A j \in KeyPositions(g, a) : KeyAt(g, a, j) # key
      BY <1>12, <2>2
    <3>2. mappingValue(g, a, key) = Nothing /\ mappingValue(g, rule, key) = Nothing
      BY <1>1, <1>2, <1>15, <2>2, <3>1, NoValue
    <3> QED
      BY <3>2 DEF At
  <2> QED
    BY <2>1, <2>2
<1>18. Range(rest) \subseteq {At(c, b) : b \in Range(Node(g, rule).content)}
  <2>1. ASSUME NEW j \in 1..(Len(s) - 2)
        PROVE  \E k \in 1..Len(s) : rest[j] = At(c, s[k])
    <3>1. was(j) \in 1..Len(s)
      BY <1>5, <1>6
    <3>2. rest[j] = t[was(j)]
      BY <1>8
    <3> HIDE DEF was
    <3> QED
      BY <1>5, <3>1, <3>2
  <2>2. Range(rest) = {rest[j] : j \in 1..(Len(s) - 2)}
    BY <1>5, <1>8 DEF Range
  <2>3. Range(Node(g, rule).content) = {s[k] : k \in 1..Len(s)}
    <3>1. Range(s) = {s[k] : k \in DOMAIN s} /\ DOMAIN s = 1..Len(s)
      BY DEF Range
    <3> QED
      BY <1>3, <3>1
  <2> QED
    BY <2>1, <2>2, <2>3
<1>19. Entries(g, c, rule)
  BY <1>11, <1>13, <1>17, <1>18 DEF Entries, a
<1>20. ASSUME NEW x \in Places(g, Source) PROVE Node(g, At(c, x)).value = Node(g, x).value
  <2>1. CASE x = rule
    BY <1>7, <1>9, <2>1 DEF OneNode, a
  <2>2. CASE x # rule
    <3>1. At(c, x) # At(c, rule) /\ At(c, x) \in Places(h, c)
      BY <1>1, <2>2 DEF CopyOf
    <3>2. Node(g, At(c, x)) = Node(h, At(c, x))
      BY <1>7, <3>1 DEF OneNode, a
    <3> QED
      BY <1>1, <3>2 DEF CopyOf
  <2> QED
    BY <2>1, <2>2
<1> QED
  BY <1>10, <1>16, <1>19, <1>20 DEF a

(* A node has no children behind its last.                                 *)
LEMMA NewPlaces ==
  ASSUME NEW h, IsDocument(h[Source]), NEW rule \in Places(h, Source),
         NEW j \in Nat, j > Len(Node(h, rule).content)
  PROVE  Append(rule[2], j) \notin DOMAIN h[Source] /\ rule[2] \in Seq(Nat)
<1>1. IsTree(Source, h[Source])
  BY DEF IsDocument
<1>2. rule[2] \in DOMAIN h[Source] /\ Node(h, rule) = h[Source][rule[2]]
      /\ Len(Node(h, rule).content) \in Nat
  BY <1>1, NodeOfPlace
<1>3. PICK p \in Seq(Nat) : p = rule[2]
  BY <1>2 DEF IsDocument
<1>4. PICK place : place = Append(p, j)
  OBVIOUS
<1>5. place # <<>>
  BY <1>4, AppendProperties
<1> SUFFICES ASSUME place \in DOMAIN h[Source] PROVE FALSE
  BY <1>3, <1>4
<1>6. PICK q, i : /\ q \in DOMAIN h[Source] /\ i \in DOMAIN h[Source][q].content
                  /\ place = Append(q, i)
  BY <1>5 DEF IsDocument
<1>7. q \in Seq(Nat) /\ i \in Nat
  <2>1. h[Source][q].content \in Seq({Source} \X DOMAIN h[Source])
    BY <1>1, <1>6 DEF IsTree, IsNode
  <2>2. PICK s \in Seq({Source} \X DOMAIN h[Source]) : s = h[Source][q].content
    BY <2>1
  <2>3. i \in Nat
    BY <1>6, <2>2
  <2>4. q \in Seq(Nat)
    BY <1>6, Zenon DEF IsDocument
  <2> QED
    BY <2>3, <2>4
<1>8. Append(p, j) = Append(q, i)
  BY <1>4, <1>6
<1>9. p = q /\ j = i
  BY <1>7, <1>8, AppendInjective
<1>10. i \in DOMAIN Node(h, rule).content
  BY <1>2, <1>3, <1>6, <1>9
<1>11. Node(h, rule).content \in Seq(Places(h, Source))
  BY <1>1, NodeOfPlace
<1> QED
  BY <1>9, <1>10, <1>11

(* A sequence with two entries more.                                       *)
LEMMA PairAppended ==
  ASSUME NEW S, NEW t \in Seq(S), NEW x, NEW y, NEW n, n = Len(t), NEW w, w = t \o <<x, y>>
  PROVE  /\ DOMAIN w = 1..(n + 2) /\ Len(w) = n + 2
         /\ w[n + 1] = x /\ w[n + 2] = y /\ \A j \in 1..n : w[j] = t[j]
<1>1. PICK T : T = S \cup {x, y}
  OBVIOUS
<1>2. PICK u \in Seq(T) : u = <<x, y>>
  <2>1. x \in T /\ y \in T
    BY <1>1
  <2>2. <<x, y>> \in Seq(T)
    BY <2>1
  <2> QED
    BY <2>2
<1>3. Len(u) = 2 /\ u[1] = x /\ u[2] = y
  BY <1>2
<1>4. t \in Seq(T) /\ n \in Nat
  BY <1>1
<1>5. /\ t \o u \in Seq(T) /\ Len(t \o u) = Len(t) + Len(u)
      /\ \A j \in 1..(Len(t) + Len(u)) :
           (t \o u)[j] = IF j <= Len(t) THEN t[j] ELSE u[j - Len(t)]
  BY <1>4, ConcatProperties
<1>6. w = t \o u
  BY <1>2
<1>7. /\ w \in Seq(T) /\ Len(w) = n + 2
      /\ \A j \in 1..(n + 2) : w[j] = IF j <= n THEN t[j] ELSE u[j - n]
  BY <1>3, <1>5, <1>6, Zenon
<1>8. w[n + 1] = u[1] /\ w[n + 2] = u[2]
  BY <1>4, <1>7
<1> QED
  BY <1>3, <1>4, <1>7, <1>8

(* The keys of a mapping with one entry more.                              *)
LEMMA OddUpTo ==
  ASSUME NEW n \in Nat, n % 2 = 0
  PROVE  {j \in 1..(n + 1) : j % 2 = 1} = {j \in 1..(n - 1) : j % 2 = 1} \cup {n + 1}
<1>1. (n + 1) % 2 = 1 /\ n + 1 \in 1..(n + 1)
  OBVIOUS
<1>2. ASSUME NEW j \in 1..(n + 1), j % 2 = 1 PROVE j \in 1..(n - 1) \/ j = n + 1
  <2>1. j # n
    BY <1>2
  <2> QED
    BY <2>1
<1> QED
  BY <1>1, <1>2

(* A delay is put in.                                                      *)
LEMMA DelayAdded ==
  ASSUME NEW h, NEW g, NEW c, NEW m, Ready(h, g, c, m), NEW rule, rule = RuleAt(g, m),
         mappingValue(g, rule, "for") = Nothing, NEW value,
         g = setMappingScalar(h, At(c, rule), "for", value)
  PROVE  /\ Kept(g, c, rule) /\ Entries(g, c, rule)
         /\ \A x \in Places(g, Source) : Node(g, At(c, x)).value = Node(g, x).value
         /\ Text(g, At(c, rule), "for") = value
         /\ ~IsKind(g, mappingValue(g, At(c, rule), "for"), "alias")
<1> DEFINE a == At(c, rule)
<1>1. /\ c \in Copies /\ IsDocument(g[Source]) /\ IsTree(Source, g[Source]) /\ CopyOf(h, c, g)
      /\ rule \in Places(g, Source) /\ Node(g, rule).kind = "mapping" /\ KeysOnce(g, rule)
      /\ rule # Nothing
  BY ReadyFacts
<1>2. /\ IsTree(c, h[c]) /\ c \in DOMAIN h /\ a \in Places(h, c) /\ IsTree(c, g[c]) /\ a # Nothing
      /\ Node(h, a).content = MovedContent(g, c, rule) /\ a = <<c, rule[2]>>
      /\ DOMAIN h[c] = DOMAIN g[Source]
  BY <1>1, PlacesAreNodes DEF CopyOf, Ready, Copied
<1>3. PICK s \in Seq(Places(g, Source)) : s = Node(g, rule).content
  BY <1>1, NodeOfPlace
<1>4. PICK t : t = Node(h, a).content
  OBVIOUS
<1>5. PICK n \in Nat : n = Len(s)
  OBVIOUS
<1>6. t = [j \in 1..n |-> At(c, s[j])] /\ Len(t) = n /\ t \in Seq(Places(h, c)) /\ n % 2 = 0
  <2>0. t = [j \in 1..Len(s) |-> At(c, s[j])]
    <3>1. t = [j \in DOMAIN s |-> At(c, s[j])]
      BY <1>2, <1>3, <1>4, Zenon DEF MovedContent
    <3>2. DOMAIN s = 1..Len(s)
      BY <1>3
    <3> QED
      BY <3>1, <3>2, Zenon
  <2>1. t = [j \in 1..n |-> At(c, s[j])]
    BY <1>5, <2>0
  <2>2. t \in Seq(Places(h, c))
    BY <1>2, <1>4, NodeOfPlace
  <2>3. rule[2] \in DOMAIN g[Source] /\ Node(g, rule) = g[Source][rule[2]]
    BY <1>1, NodeOfPlace
  <2>4. n % 2 = 0
    BY <1>1, <1>3, <1>5, <2>3 DEF IsDocument
  <2> QED
    BY <1>5, <2>1, <2>2, <2>4
<1>0. /\ rule[2] \in Seq(Nat) /\ Append(rule[2], n + 1) \notin DOMAIN g[Source]
      /\ Append(rule[2], n + 2) \notin DOMAIN g[Source]
  <2>1. /\ n + 1 \in Nat /\ n + 1 > Len(Node(g, rule).content)
        /\ n + 2 \in Nat /\ n + 2 > Len(Node(g, rule).content)
    <3>1. Len(Node(g, rule).content) = n
      BY <1>3, <1>5, Zenon
    <3> QED
      BY <3>1
  <2>2. /\ rule[2] \in Seq(Nat) /\ Append(rule[2], n + 1) \notin DOMAIN g[Source]
    BY <1>1, <2>1, NewPlaces
  <2>3. Append(rule[2], n + 2) \notin DOMAIN g[Source]
    BY <1>1, <2>1, NewPlaces
  <2> QED
    BY <2>2, <2>3
<1>7. PICK p \in Seq(Nat) : p = rule[2]
  BY <1>0
<1>8. PICK k, v : k = Append(p, n + 1) /\ v = Append(p, n + 2)
  OBVIOUS
<1>9. k # v /\ k \notin DOMAIN h[c] /\ v \notin DOMAIN h[c]
  <2>1. n + 1 # n + 2 /\ n + 1 \in Nat /\ n + 2 \in Nat
    OBVIOUS
  <2>2. k # v
    BY <1>8, <2>1, AppendInjective
  <2> QED
    BY <1>0, <1>2, <1>7, <1>8, <2>2
<1>10. mappingValue(h, a, "for") = Nothing
  <2>1. mappingValue(h, a, "for") = At(c, mappingValue(g, rule, "for"))
    BY <1>1, ReadyFacts DEF Known
  <2> QED
    BY <2>1 DEF At
<1> DEFINE more == t \o <<<<c, k>>, <<c, v>>>>
           node == WithContent(Node(h, a), more)
<1>11. /\ DOMAIN g[c] = DOMAIN h[c] \cup {k, v}
       /\ Node(g, a) = node
       /\ \A b \in Places(h, c) \ {a} : Node(g, b) = Node(h, b)
       /\ Node(g, <<c, k>>) = Scalar("for") /\ Node(g, <<c, v>>) = Scalar(value)
  <2>1. a[2] = p
    <3> HIDE DEF a
    <3> QED
      BY <1>2, <1>7
  <2>2. n = Len(Node(h, a).content) /\ k = Append(a[2], n + 1) /\ v = Append(a[2], n + 2)
    BY <1>4, <1>6, <1>8, <2>1
  <2>3. TwoNodes(h, g, c, a, k, v, "for", value)
    BY <1>2, <1>9, <1>10, <2>2, ScalarAddedNodes
  <2> HIDE DEF a
  <2> QED
    BY <1>4, <2>3, Zenon DEF TwoNodes
<1>12. /\ node.kind = Node(g, rule).kind /\ node.tag = Node(g, rule).tag
       /\ node.anchor = Node(g, rule).anchor /\ node.content = more
       /\ node.value = Node(g, rule).value
  <2> HIDE DEF a, more
  <2>1. /\ Node(h, a).kind = Node(g, rule).kind /\ Node(h, a).tag = Node(g, rule).tag
        /\ Node(h, a).anchor = Node(g, rule).anchor /\ Node(h, a).value = Node(g, rule).value
    BY <1>1 DEF CopyOf, a
  <2>2. IsNode(c, DOMAIN h[c], Node(h, a))
    BY <1>2, NodeOfPlace
  <2>3. PICK old : old = Node(h, a)
    OBVIOUS
  <2>4. old = [kind |-> old.kind, tag |-> old.tag, value |-> old.value, anchor |-> old.anchor,
               content |-> old.content]
    BY <2>2, <2>3 DEF IsNode
  <2>5. node = [kind |-> old.kind, tag |-> old.tag, value |-> old.value, anchor |-> old.anchor,
                content |-> more]
    BY <2>3, <2>4 DEF WithContent
  <2> HIDE DEF node
  <2> QED
    BY <2>1, <2>3, <2>5
<1> HIDE DEF node
<1>13. /\ Len(more) = n + 2 /\ more[n + 1] = <<c, k>> /\ more[n + 2] = <<c, v>>
       /\ \A j \in 1..n : more[j] = At(c, s[j])
       /\ Range(more) = {At(c, s[j]) : j \in 1..n} \cup {<<c, k>>, <<c, v>>}
  <2> HIDE DEF a
  <2>1. /\ DOMAIN more = 1..(n + 2) /\ Len(more) = n + 2
        /\ more[n + 1] = <<c, k>> /\ more[n + 2] = <<c, v>> /\ \A j \in 1..n : more[j] = t[j]
    <3>1. t \in Seq(Places(h, c)) /\ n = Len(t)
      BY <1>6
    <3> QED
      BY <3>1, PairAppended
  <2> HIDE DEF more
  <2>2. \A j \in 1..n : more[j] = At(c, s[j])
    BY <1>6, <2>1
  <2>3. Range(more) = {more[j] : j \in 1..(n + 2)}
    BY <2>1 DEF Range
  <2>4. 1..(n + 2) = (1..n) \cup {n + 1, n + 2}
    OBVIOUS
  <2>5. Range(more) = {At(c, s[j]) : j \in 1..n} \cup {<<c, k>>, <<c, v>>}
    <3>1. Range(more) = {more[j] : j \in 1..n} \cup {more[n + 1], more[n + 2]}
      BY <2>3, <2>4
    <3>2. {more[j] : j \in 1..n} = {At(c, s[j]) : j \in 1..n}
      BY <2>2
    <3> QED
      BY <2>1, <3>1, <3>2
  <2> QED
    BY <2>1, <2>2, <2>5
<1> HIDE DEF more
<1>14. <<c, k>> \in Fresh(g, c) /\ <<c, v>> \in Fresh(g, c)
  <2>1. <<c, k>> \in Places(g, c) /\ <<c, v>> \in Places(g, c)
    BY <1>11 DEF Places
  <2>2. \A x : Scalar(Scalar(x).value) = Scalar(x)
    BY DEF Scalar
  <2> QED
    BY <1>11, <2>1, <2>2 DEF Fresh
<1>15. Kept(g, c, rule) /\ \A x \in Places(g, Source) : Node(g, At(c, x)).value = Node(g, x).value
  <2>1. ASSUME NEW b \in Places(g, Source)
        PROVE  /\ At(c, b) \in Places(g, c)
               /\ Node(g, At(c, b)).kind = Node(g, b).kind /\ Node(g, At(c, b)).tag = Node(g, b).tag
               /\ Node(g, At(c, b)).anchor = Node(g, b).anchor
               /\ b # rule => Node(g, At(c, b)).content = MovedContent(g, c, b)
               /\ Node(g, At(c, b)).value = Node(g, b).value
    <3>1. Places(h, c) \subseteq Places(g, c)
      BY <1>11 DEF Places
    <3>2. CASE b = rule
      BY <1>1, <1>11, <1>12, <3>1, <3>2 DEF CopyOf
    <3>3. CASE b # rule
      <4>1. At(c, b) # a /\ At(c, b) \in Places(h, c)
        BY <1>1, <3>3 DEF CopyOf
      <4>2. Node(g, At(c, b)) = Node(h, At(c, b))
        BY <1>11, <4>1
      <4> QED
        BY <1>1, <3>1, <4>1, <4>2 DEF CopyOf
    <3> QED
      BY <3>2, <3>3
  <2>2. Places(g, c) \subseteq {At(c, b) : b \in Places(g, Source)} \cup Fresh(g, c)
    <3>1. Places(g, c) = Places(h, c) \cup {<<c, k>>, <<c, v>>}
      BY <1>11 DEF Places
    <3> QED
      BY <1>1, <1>14, <3>1 DEF CopyOf
  <2> QED
    BY <1>2, <2>1, <2>2 DEF Kept
<1>16. Node(g, a).content = more /\ Node(g, a).kind = "mapping" /\ a \in Places(g, c)
  BY <1>1, <1>11, <1>12, <1>15 DEF Kept
<1>17. /\ KeyPositions(g, a) = KeyPositions(g, rule) \cup {n + 1}
       /\ KeyPositions(g, rule) \subseteq 1..(n - 1)
  <2>1. KeyPositions(g, a) = {j \in 1..(n + 1) : j % 2 = 1}
    BY <1>13, <1>16 DEF KeyPositions
  <2>2. KeyPositions(g, rule) = {j \in 1..(n - 1) : j % 2 = 1}
    BY <1>3, <1>5 DEF KeyPositions
  <2>3. {j \in 1..(n + 1) : j % 2 = 1} = {j \in 1..(n - 1) : j % 2 = 1} \cup {n + 1}
    BY <1>6, OddUpTo
  <2> QED
    BY <2>1, <2>2, <2>3
<1>18. KeyAt(g, a, n + 1) = "for"
  <2>1. KeyAt(g, a, n + 1) = Node(g, Node(g, a).content[n + 1]).value
    BY Zenon DEF KeyAt
  <2>2. Node(g, a).content[n + 1] = <<c, k>>
    BY <1>13, <1>16, Zenon
  <2>3. KeyAt(g, a, n + 1) = Scalar("for").value
    BY <1>11, <2>1, <2>2, Zenon
  <2>4. Scalar("for").value = "for"
    BY DEF Scalar
  <2> QED
    BY <2>3, <2>4, Zenon
<1>19. \A j \in KeyPositions(g, rule) :
         /\ KeyAt(g, a, j) = KeyAt(g, rule, j)
         /\ Node(g, a).content[j + 1] = At(c, Node(g, rule).content[j + 1])
  <2> SUFFICES ASSUME NEW j \in KeyPositions(g, rule)
               PROVE  /\ KeyAt(g, a, j) = KeyAt(g, rule, j)
                      /\ Node(g, a).content[j + 1] = At(c, Node(g, rule).content[j + 1])
    OBVIOUS
  <2>1. j \in 1..n /\ j + 1 \in 1..n
    BY <1>17
  <2>2. more[j] = At(c, s[j]) /\ more[j + 1] = At(c, s[j + 1])
    BY <1>13, <2>1
  <2>3. Node(g, At(c, s[j])).value = Node(g, s[j]).value
    BY <1>1, <1>3, <1>15, KeysUntouched DEF Kept
  <2>4. KeyAt(g, a, j) = Node(g, more[j]).value /\ KeyAt(g, rule, j) = Node(g, s[j]).value
    BY <1>3, <1>16, Zenon DEF KeyAt
  <2> QED
    BY <1>3, <1>16, <2>2, <2>3, <2>4
<1>20. \A j \in KeyPositions(g, rule) : KeyAt(g, rule, j) # "for"
  <2> SUFFICES ASSUME NEW j \in KeyPositions(g, rule), KeyAt(g, rule, j) = "for" PROVE FALSE
    OBVIOUS
  <2>1. mappingValue(g, rule, KeyAt(g, rule, j)) = s[j + 1]
    <3>1. mappingValue(g, rule, KeyAt(g, rule, j)) = Node(g, rule).content[j + 1]
      BY <1>1, UniqueValue
    <3> QED
      BY <1>3, <3>1, Zenon
  <2>2. j \in 1..(n - 1)
    BY <1>17
  <2>3. s[j + 1] \in Places(g, Source)
    BY <1>3, <1>5, <2>2
  <2>4. s[j + 1] # Nothing
    BY <1>1, <2>3 DEF CopyOf
  <2> QED
    BY <2>1, <2>4
<1>21. KeysOnce(g, a)
  BY <1>1, <1>17, <1>18, <1>19, <1>20 DEF KeysOnce
<1>22. mappingValue(g, a, "for") = <<c, v>>
  <2>1. n + 1 \in KeyPositions(g, a)
    BY <1>17
  <2>2. mappingValue(g, a, "for") = Node(g, a).content[(n + 1) + 1]
    <3> HIDE DEF a
    <3>1. \A j \in KeyPositions(g, a) : mappingValue(g, a, KeyAt(g, a, j)) = Node(g, a).content[j + 1]
      <4> SUFFICES ASSUME NEW j \in KeyPositions(g, a)
                   PROVE  mappingValue(g, a, KeyAt(g, a, j)) = Node(g, a).content[j + 1]
        OBVIOUS
      <4>1. IsTree(c, g[c]) /\ a \in Places(g, c) /\ a # Nothing /\ Node(g, a).kind = "mapping"
        BY <1>2, <1>16
      <4> QED
        BY <1>21, <4>1, UniqueValue
    <3> QED
      BY <1>18, <2>1, <3>1, Zenon
  <2>3. (n + 1) + 1 = n + 2
    OBVIOUS
  <2> QED
    BY <1>13, <1>16, <2>2, <2>3
<1>23. ASSUME NEW key, key # "for"
       PROVE  mappingValue(g, a, key) = At(c, mappingValue(g, rule, key))
  <2>1. CASE \E j \in KeyPositions(g, rule) : KeyAt(g, rule, j) = key
    <3>1. PICK j \in KeyPositions(g, rule) : KeyAt(g, rule, j) = key
      BY <2>1
    <3>2. j \in KeyPositions(g, a) /\ KeyAt(g, a, j) = key
          /\ Node(g, a).content[j + 1] = At(c, Node(g, rule).content[j + 1])
      BY <1>17, <1>19, <3>1
    <3>3. mappingValue(g, a, key) = Node(g, a).content[j + 1]
      BY <1>2, <1>16, <1>21, <3>2, UniqueValue
    <3>4. mappingValue(g, rule, key) = Node(g, rule).content[j + 1]
      BY <1>1, <3>1, ReadyFacts, UniqueValue
    <3> QED
      BY <3>2, <3>3, <3>4
  <2>2. CASE \A j \in KeyPositions(g, rule) : KeyAt(g, rule, j) # key
    <3>1. \A j \in KeyPositions(g, a) : KeyAt(g, a, j) # key
      BY <1>17, <1>18, <1>19, <1>23, <2>2
    <3>2. mappingValue(g, a, key) = Nothing /\ mappingValue(g, rule, key) = Nothing
      BY <1>1, <1>2, <1>16, <2>2, <3>1, NoValue
    <3> QED
      BY <3>2 DEF At
  <2> QED
    BY <2>1, <2>2
<1>24. Range(more) \subseteq {At(c, b) : b \in Range(Node(g, rule).content)} \cup Fresh(g, c)
  <2>1. ASSUME NEW j \in 1..n
        PROVE  At(c, s[j]) \in {At(c, b) : b \in Range(Node(g, rule).content)}
    <3>1. s[j] \in Range(Node(g, rule).content)
      <4>1. j \in DOMAIN s
        BY <1>5
      <4>2. s[j] \in Range(s)
        BY <4>1, Zenon DEF Range
      <4> QED
        BY <1>3, <4>2, Zenon
    <3> QED
      BY <3>1, Zenon
  <2>2. {At(c, s[j]) : j \in 1..n} \subseteq {At(c, b) : b \in Range(Node(g, rule).content)}
    BY <2>1, Zenon
  <2>3. {<<c, k>>, <<c, v>>} \subseteq Fresh(g, c)
    BY <1>14, Zenon
  <2>4. PICK old, new : old = {At(c, s[j]) : j \in 1..n} /\ new = {<<c, k>>, <<c, v>>}
    OBVIOUS
  <2>5. Range(more) = old \cup new
    BY <1>13, <2>4, Zenon
  <2> QED
    BY <2>2, <2>3, <2>4, <2>5, Zenon
<1>25. Entries(g, c, rule)
  BY <1>16, <1>21, <1>23, <1>24 DEF Entries
<1>26. Text(g, a, "for") = value /\ ~IsKind(g, mappingValue(g, a, "for"), "alias")
  <2>1. <<c, v>> # Nothing
    <3>1. v \in Seq(Nat)
      BY <1>8, AppendProperties
    <3>2. <<c, v>> \in Copies \X Seq(Nat)
      BY <1>1, <3>1
    <3> QED
      BY <3>2, NothingIsNoNode, Zenon
  <2>2. Node(g, <<c, v>>).kind = "scalar" /\ Node(g, <<c, v>>).value = value
    <3>1. Scalar(value).kind = "scalar" /\ Scalar(value).value = value
      BY DEF Scalar
    <3> QED
      BY <1>11, <3>1, Zenon
  <2> HIDE DEF a
  <2>3. scalarValue(g, mappingValue(g, a, "for")) = value
    BY <1>22, <2>1, <2>2 DEF scalarValue
  <2>4. ~IsKind(g, mappingValue(g, a, "for"), "alias")
    BY <1>22, <2>2 DEF IsKind
  <2> QED
    BY <2>3, <2>4 DEF Text
<1> QED
  BY <1>15, <1>25, <1>26

-----------------------------------------------------------------------------
(* A mutation does to the copy what it asks for.                           *)

(* The text of a value that no edit touches.                               *)
LEMMA TextKept ==
  ASSUME NEW g, IsDocument(g[Source]), NEW c \in Copies, NEW rule, Kept(g, c, rule),
         NEW a \in Places(g, Source), NEW key,
         mappingValue(g, At(c, a), key) = At(c, mappingValue(g, a, key))
  PROVE  /\ \A kind : IsKind(g, mappingValue(g, At(c, a), key), kind)
                      <=> IsKind(g, mappingValue(g, a, key), kind)
         /\ \/ mappingValue(g, a, key) = Nothing
            \/ Node(g, At(c, mappingValue(g, a, key))).value = Node(g, mappingValue(g, a, key)).value
            => Text(g, At(c, a), key) = Text(g, a, key)
<1> DEFINE x == mappingValue(g, a, key)
<1>1. CASE x = Nothing
  BY <1>1 DEF At, IsKind, Text, scalarValue
<1>2. CASE x # Nothing
  <2>1. x \in Places(g, Source)
    BY <1>2, ValueFound DEF IsDocument
  <2>2. At(c, x) # Nothing /\ Node(g, At(c, x)).kind = Node(g, x).kind
    BY <2>1, PlacesAreNodes DEF Kept
  <2> QED
    BY <1>2, <2>2 DEF IsKind, Text, scalarValue
<1> QED
  BY <1>1, <1>2

(* Every mutation that a render is given, in the order in which the code   *)
(* makes its edits.                                                        *)
LEMMA MutationRenders ==
  ASSUME NEW h, NEW g, NEW c, NEW m, Ready(h, g, c, m),
         g = Mutated(h, At(c, RuleAt(g, m)), m)
  PROVE  Rendered(g, c, m)
<1> DEFINE rule  == RuleAt(g, m)
           a     == At(c, rule)
           expr  == mappingValue(g, rule, "expr")
           delay == mappingValue(g, rule, "for")
<1>1. /\ c \in Copies /\ IsDocument(g[Source]) /\ IsTree(Source, g[Source]) /\ CopyOf(h, c, g)
      /\ rule \in Places(g, Source) /\ Node(g, rule).kind = "mapping" /\ KeysOnce(g, rule)
      /\ expr \in Places(g, Source) /\ Node(g, expr).kind = "scalar"
  BY ReadyFacts
<1>2. /\ mappingValue(h, a, "expr") = At(c, expr) /\ mappingValue(h, a, "for") = At(c, delay)
      /\ At(c, expr) # Nothing /\ expr # Nothing
  <2>1. Known(g, Source, rule)
    BY <1>1 DEF Known
  <2>2. \A key : mappingValue(h, a, key) = At(c, mappingValue(g, rule, key))
    BY <2>1, ReadyFacts
  <2> HIDE DEF rule
  <2> QED
    BY <1>1, <2>2 DEF CopyOf
<1>3. delay # Nothing => delay \in Places(g, Source) /\ At(c, delay) # Nothing
  <2> HIDE DEF rule
  <2>1. delay # Nothing => delay \in Places(g, Source)
    BY <1>1, ValueFound
  <2> QED
    BY <1>1, <2>1 DEF CopyOf
<1>4. Change(m)
  BY DEF Ready, Target
<1> HIDE DEF rule, a, expr, delay
<1> USE DEF Written
<1>5. SUFFICES Kept(g, c, rule) /\ Entries(g, c, rule) /\ Written(g, c, rule, m)
  BY DEF Rendered, rule
(* The new expression.                                                     *)
<1>6. CASE m.expr # ""
  <2>1. g = SetValue(h, At(c, expr), m.expr)
    BY <1>2, <1>4, <1>6 DEF Mutated, Change, rule, a
  <2>2. /\ Kept(g, c, rule) /\ Entries(g, c, rule)
        /\ \A other : /\ mappingValue(g, a, other) = At(c, mappingValue(g, rule, other))
                      /\ other # "expr" => Text(g, a, other) = Text(g, rule, other)
        /\ IsKind(g, expr, "scalar") => Text(g, a, "expr") = m.expr
    BY <1>2, <2>1, ValueOverwritten DEF rule, a, expr
  <2>3. IsKind(g, expr, "scalar")
    BY <1>1, <1>2 DEF IsKind
  <2>4. IsKind(g, mappingValue(g, a, "for"), "alias") <=> IsKind(g, delay, "alias")
    BY <1>1, <2>2, TextKept DEF a, delay
  <2> QED
    BY <1>6, <2>2, <2>3, <2>4 DEF a, delay
(* The delay goes.                                                         *)
<1>7. CASE m.removeFor
  <2>1. g = removeMappingKey(h, a, "for") /\ m.expr = "" /\ m.for = ""
    BY <1>4, <1>7 DEF Mutated, Change, rule, a
  <2>2. /\ Kept(g, c, rule) /\ Entries(g, c, rule) /\ mappingValue(g, a, "for") = Nothing
        /\ Node(g, At(c, expr)).value = Node(g, expr).value
    <3>1. CASE delay # Nothing
      <4>1. /\ Kept(g, c, rule) /\ Entries(g, c, rule) /\ mappingValue(g, At(c, rule), "for") = Nothing
            /\ \A x \in Places(g, Source) : Node(g, At(c, x)).value = Node(g, x).value
        <5>1. g = removeMappingKey(h, At(c, rule), "for")
          BY <2>1 DEF a
        <5>2. rule = RuleAt(g, m) /\ mappingValue(g, rule, "for") # Nothing
          BY <3>1 DEF rule, delay
        <5> QED
          BY <5>1, <5>2, DelayRemoved
      <4> QED
        BY <1>1, <4>1 DEF a
    <3>2. CASE delay = Nothing
      <4>1. mappingValue(h, a, "for") = Nothing
        BY <1>2, <3>2 DEF At
      <4>2. a \in Places(h, c) /\ IsTree(c, h[c]) /\ Node(h, a).kind = "mapping" /\ a # Nothing
        BY <1>1 DEF CopyOf, a
      <4>3. Position(h, a, "for") = 0
        <5>1. SUFFICES ASSUME Position(h, a, "for") # 0 PROVE FALSE
          OBVIOUS
        <5>2. Position(h, a, "for") + 1 \in 1..Len(Node(h, a).content)
          <6>1. Position(h, a, "for") \in 1..(Len(Node(h, a).content) - 1)
            BY <4>2, <5>1, PositionOfKey
          <6>2. Len(Node(h, a).content) \in Nat
            BY <4>2, NodeOfPlace
          <6> QED
            BY <6>1, <6>2
        <5>3. Node(h, a).content[Position(h, a, "for") + 1] \in Places(h, c)
          <6>1. Node(h, a).content \in Seq(Places(h, c))
            BY <4>2, NodeOfPlace
          <6> QED
            BY <5>2, <6>1
        <5>4. Node(h, a).content[Position(h, a, "for") + 1] # Nothing
          <6>1. \A b \in Places(h, c) : b # Nothing
            BY <1>1 DEF CopyOf
          <6> QED
            BY <5>3, <6>1
        <5> QED
          BY <4>1, <4>2, <5>1, <5>4 DEF mappingValue
      <4>4. g = h
        BY <2>1, <4>3 DEF removeMappingKey
      <4>5. Kept(g, c, rule)
        BY <1>1, <4>4 DEF CopyOf, Kept
      <4>6. Node(g, a).content = MovedContent(g, c, rule)
        BY <1>1, <4>4 DEF CopyOf, a
      <4>7. Entries(g, c, rule)
        BY <1>1, <4>5, <4>6, MovedEntries DEF Ready, a
      <4> QED
        BY <1>1, <4>1, <4>4, <4>5, <4>7 DEF CopyOf
    <3> QED
      BY <3>1, <3>2
  <2>3. mappingValue(g, a, "expr") = At(c, expr)
    BY <2>2 DEF Entries, a, expr
  <2>4. Text(g, a, "expr") = Text(g, rule, "expr")
    BY <1>1, <2>2, <2>3, TextKept DEF a, expr
  <2>5. Text(g, a, "for") = "" /\ ~IsKind(g, mappingValue(g, a, "for"), "alias")
    BY <2>2 DEF Text, scalarValue, IsKind
  <2> QED
    BY <2>1, <2>2, <2>4, <2>5 DEF a
(* The delay comes or changes.                                             *)
<1>8. CASE m.for # ""
  <2>1. g = setMappingScalar(h, a, "for", m.for) /\ m.expr = ""
    BY <1>4, <1>8 DEF Mutated, Change, rule, a
  <2>2. CASE delay # Nothing
    <3>1. g = SetValue(h, At(c, delay), m.for)
      BY <1>2, <1>3, <2>1, <2>2 DEF setMappingScalar
    <3>2. /\ Kept(g, c, rule) /\ Entries(g, c, rule)
          /\ \A other : /\ mappingValue(g, a, other) = At(c, mappingValue(g, rule, other))
                        /\ other # "for" => Text(g, a, other) = Text(g, rule, other)
          /\ IsKind(g, delay, "scalar") => Text(g, a, "for") = m.for
      BY <2>2, <3>1, ValueOverwritten DEF rule, a, delay
    <3>3. IsKind(g, mappingValue(g, a, "for"), "alias") <=> IsKind(g, delay, "alias")
      BY <1>1, <3>2, TextKept DEF a, delay
    <3>4. IsKind(g, delay, "alias") \/ IsKind(g, delay, "scalar")
      <4>1. rule \in Tree(g, Source)
        BY <1>1, PlacesInTree
      <4>2. ~IsKind(g, delay, "mapping") /\ ~IsKind(g, delay, "sequence")
        BY <4>1 DEF Ready, Sound, delay
      <4>3. Node(g, delay).kind \in Kinds
        <5>1. delay[2] \in DOMAIN g[Source] /\ Node(g, delay) = g[Source][delay[2]]
          BY <1>1, <1>3, <2>2, NodeOfPlace
        <5> QED
          BY <1>1, <5>1 DEF IsDocument
      <4> QED
        BY <2>2, <4>2, <4>3 DEF IsKind, Kinds
    <3> QED
      BY <2>1, <3>2, <3>3, <3>4 DEF a, delay
  <2>3. CASE delay = Nothing
    <3>1. /\ Kept(g, c, rule) /\ Entries(g, c, rule)
          /\ Node(g, At(c, expr)).value = Node(g, expr).value
          /\ Text(g, a, "for") = m.for /\ ~IsKind(g, mappingValue(g, a, "for"), "alias")
      <4>1. /\ Kept(g, c, rule) /\ Entries(g, c, rule)
            /\ \A x \in Places(g, Source) : Node(g, At(c, x)).value = Node(g, x).value
            /\ Text(g, At(c, rule), "for") = m.for
            /\ ~IsKind(g, mappingValue(g, At(c, rule), "for"), "alias")
        <5>1. g = setMappingScalar(h, At(c, rule), "for", m.for)
          BY <2>1 DEF a
        <5>2. rule = RuleAt(g, m) /\ mappingValue(g, rule, "for") = Nothing
          BY <2>3 DEF rule, delay
        <5> QED
          BY <5>1, <5>2, DelayAdded
      <4> QED
        BY <1>1, <4>1 DEF a
    <3>2. mappingValue(g, a, "expr") = At(c, expr)
      BY <3>1 DEF Entries, a, expr
    <3>3. Text(g, a, "expr") = Text(g, rule, "expr")
      BY <1>1, <3>1, <3>2, TextKept DEF a, expr
    <3> QED
      BY <2>1, <3>1, <3>3 DEF a
  <2> QED
    BY <2>2, <2>3
<1> QED
  BY <1>4, <1>6, <1>7, <1>8 DEF Change

-----------------------------------------------------------------------------
(* What promtool reads of a mutated copy, compared with the source.        *)

Faithful(g, c, rule) ==
  /\ c \in Copies /\ Sound(g) /\ Kept(g, c, rule) /\ Entries(g, c, rule)
  /\ rule \in Places(g, Source) /\ Node(g, rule).kind = "mapping"

(* What the readings below use of it.                                      *)
LEMMA FaithfulFacts ==
  ASSUME NEW g, NEW c, NEW rule, Faithful(g, c, rule)
  PROVE  /\ IsDocument(g[Source]) /\ IsTree(Source, g[Source]) /\ IsTree(c, g[c])
         /\ Complete(g, Source) /\ Places(g, Source) = Tree(g, Source)
         /\ \A a : InTree(g, Source, a) => Known(g, Source, a)
<1>1. IsDocument(g[Source]) /\ IsTree(c, g[c]) /\ Complete(g, Source)
  BY DEF Faithful, Sound, Kept
<1>2. IsTree(Source, g[Source])
  BY <1>1 DEF IsDocument
<1>3. Places(g, Source) = Tree(g, Source)
  <2>1. Tree(g, Source) \subseteq Places(g, Source)
    BY <1>2, TreeClosed
  <2>2. Places(g, Source) \subseteq Tree(g, Source)
    BY <1>1, PlacesInTree
  <2> QED
    BY <2>1, <2>2
<1> QED
  BY <1>1, <1>2, <1>3 DEF InTree, Known

(* A value is where the source has it, unless it is the delay of the       *)
(* rule.                                                                   *)
LEMMA ValueKept ==
  ASSUME NEW g, NEW c, NEW rule, Faithful(g, c, rule), NEW a, Known(g, Source, a), NEW key,
         key # "for" \/ a # rule
  PROVE  mappingValue(g, At(c, a), key) = At(c, mappingValue(g, a, key))
<1>1. CASE a = Nothing
  BY <1>1 DEF At, mappingValue
<1>2. CASE a # Nothing /\ a = rule
  BY <1>2 DEF Faithful, Entries
<1>3. CASE a # Nothing /\ a # rule
  <2>1. a \in Places(g, Source) /\ Node(g, At(c, a)).content = MovedContent(g, c, a)
    BY <1>3 DEF Known, Faithful, Kept
  <2> QED
    BY <2>1, FaithfulFacts, KeptMapping DEF Faithful
<1> QED
  BY <1>1, <1>2, <1>3

(* So is its kind.                                                         *)
LEMMA KindKept ==
  ASSUME NEW g, NEW c, NEW rule, Faithful(g, c, rule), NEW a, Known(g, Source, a), NEW kind
  PROVE  IsKind(g, At(c, a), kind) <=> IsKind(g, a, kind)
<1>1. CASE a = Nothing
  BY <1>1 DEF At, IsKind
<1>2. CASE a # Nothing
  <2>1. a \in Places(g, Source) /\ Node(g, At(c, a)).kind = Node(g, a).kind
    BY <1>2 DEF Known, Faithful, Kept
  <2>2. At(c, a) # Nothing
    BY <2>1, FaithfulFacts, PlacesAreNodes DEF Faithful
  <2> QED
    BY <1>2, <2>1, <2>2 DEF IsKind
<1> QED
  BY <1>1, <1>2

(* An alias whose name no edit touches leads to the same node: a new node  *)
(* has no anchor, and no two nodes have the one it names.                  *)
LEMMA FollowKept ==
  ASSUME NEW g, NEW c, NEW rule, Faithful(g, c, rule), Complete(g, c),
         NEW a, InTree(g, Source, a), InTree(g, c, At(c, a)), a = Nothing \/ a \notin Touched(g, rule)
  PROVE  Follow(g, c, At(c, a)) = At(c, Follow(g, Source, a))
<1>0. Known(g, Source, a)
  BY FaithfulFacts
<1>1. CASE ~IsKind(g, a, "alias")
  <2>1. ~IsKind(g, At(c, a), "alias")
    BY <1>0, <1>1, KindKept
  <2> QED
    BY <1>1, <2>1 DEF Follow
<1>2. CASE IsKind(g, a, "alias")
  <2> DEFINE name == Node(g, a).value
  <2>1. /\ a # Nothing /\ a \in Tree(g, Source) /\ a \in Places(g, Source)
        /\ IsKind(g, At(c, a), "alias") /\ name # ""
    <3>1. a # Nothing /\ a \in Tree(g, Source) /\ a \in Places(g, Source)
      BY <1>0, <1>2 DEF IsKind, InTree, Known
    <3>2. IsKind(g, At(c, a), "alias")
      BY <1>0, <1>2, KindKept
    <3>3. name # ""
      BY <1>2, <3>1 DEF Faithful, Sound
    <3> QED
      BY <3>1, <3>2, <3>3
  <2>2. Node(g, At(c, a)).value = name
    BY <2>1 DEF Faithful, Kept
  <2>3. Anchored(g, Source, name) # {} /\ Anchored(g, c, name) # {}
    <3>1. Anchored(g, Source, name) # {}
      BY <1>2, <2>1, FaithfulFacts DEF Complete, Readable, IsKind
    <3>2. At(c, a) \in Tree(g, c) /\ Node(g, At(c, a)).kind = "alias"
      BY <2>1 DEF InTree, IsKind
    <3>3. Anchored(g, c, Node(g, At(c, a)).value) # {}
      BY <3>2 DEF Complete, Readable
    <3> QED
      BY <2>2, <3>1, <3>3
  <2> HIDE DEF name
  <2>4. PICK t \in Anchored(g, Source, name) : TRUE
    BY <2>3
  <2>5. t \in Tree(g, Source) /\ Node(g, t).anchor = name
    BY DEF Anchored
  <2>6. Anchored(g, Source, name) = {t}
    BY <2>1, <2>5 DEF Faithful, Sound
  <2>7. ASSUME NEW b \in Anchored(g, c, name) PROVE b = At(c, t)
    <3>1. b \in Places(g, c) /\ Node(g, b).anchor = name
      BY FaithfulFacts, TreeClosed DEF Anchored
    <3>2. b \notin Fresh(g, c)
      <4>1. \A text : Scalar(text).anchor = ""
        BY DEF Scalar
      <4> QED
        BY <2>1, <3>1, <4>1 DEF Fresh
    <3>3. PICK x \in Places(g, Source) : b = At(c, x)
      BY <3>1, <3>2 DEF Faithful, Kept
    <3>4. Node(g, x).anchor = name /\ x \in Tree(g, Source)
      BY <3>1, <3>3, FaithfulFacts DEF Faithful, Kept
    <3>5. x \in Anchored(g, Source, name)
      BY <3>4 DEF Anchored
    <3> QED
      BY <2>6, <3>3, <3>5
  <2>8. Anchored(g, c, name) = {At(c, t)}
    BY <2>3, <2>7
  <2>9. /\ Follow(g, c, At(c, a)) \in Anchored(g, c, name)
        /\ Follow(g, Source, a) \in Anchored(g, Source, name)
    <3>1. Follow(g, c, At(c, a)) = CHOOSE s \in Anchored(g, c, Node(g, At(c, a)).value) : TRUE
      BY <2>1 DEF Follow
    <3>2. Follow(g, Source, a) = CHOOSE s \in Anchored(g, Source, Node(g, a).value) : TRUE
      BY <1>2 DEF Follow
    <3> DEFINE Pick(S) == CHOOSE s \in S : TRUE
    <3>3. \A S : S # {} => Pick(S) \in S
      BY Zenon
    <3>4. Follow(g, c, At(c, a)) = Pick(Anchored(g, c, name))
      BY <2>2, <3>1, Zenon
    <3>5. Follow(g, Source, a) = Pick(Anchored(g, Source, name))
      BY <3>2, Zenon DEF name
    <3> HIDE DEF Pick
    <3> QED
      BY <2>3, <3>3, <3>4, <3>5
  <2> QED
    BY <2>6, <2>8, <2>9
<1> QED
  BY <1>1, <1>2

(* A value of another key is touched by no edit.                           *)
LEMMA OtherUntouched ==
  ASSUME NEW g, NEW c, NEW rule, Faithful(g, c, rule), NEW a, Known(g, Source, a), NEW key,
         key \notin {"expr", "for"} \/ a # rule
  PROVE  mappingValue(g, a, key) = Nothing \/ mappingValue(g, a, key) \notin Touched(g, rule)
<1> SUFFICES ASSUME mappingValue(g, a, key) # Nothing,
                    NEW other \in {"expr", "for"},
                    mappingValue(g, a, key) = mappingValue(g, rule, other)
             PROVE  FALSE
  BY DEF Touched
<1>1. a # Nothing
  BY DEF mappingValue
<1>2. a \in Places(g, Source) /\ rule \in Places(g, Source) /\ IsDocument(g[Source])
  BY <1>1, FaithfulFacts DEF Known, Faithful
<1>3. a = rule /\ key = other
  BY <1>2, ValuesApart
<1> QED
  BY <1>3

(* A field of the copy, its own or a merged one, is where the source has   *)
(* it.                                                                     *)
LEMMA FieldKept ==
  ASSUME NEW g, NEW c, NEW rule, Faithful(g, c, rule), Complete(g, c),
         NEW a, InTree(g, Source, a), InTree(g, c, At(c, a)), NEW key, key \notin {"expr", "for"}
  PROVE  Field(g, c, At(c, a), key) = At(c, Field(g, Source, a, key))
<1> DEFINE own    == mappingValue(g, a, key)
           base   == mappingValue(g, a, "<<")
           merged == mappingValue(g, Follow(g, Source, base), key)
           field  == IF own # Nothing THEN own ELSE merged
<1>1. Known(g, Source, a) /\ Complete(g, Source)
  BY FaithfulFacts
<1>2. /\ mappingValue(g, At(c, a), key) = At(c, own) /\ mappingValue(g, At(c, a), "<<") = At(c, base)
      /\ InTree(g, Source, own) /\ InTree(g, Source, base)
      /\ own = Nothing \/ own \notin Touched(g, rule)
      /\ base = Nothing \/ base \notin Touched(g, rule)
  BY <1>1, ValueKept, ValueInside, OtherUntouched
<1>3. InTree(g, c, At(c, own)) /\ InTree(g, c, At(c, base))
  <2>1. InTree(g, c, mappingValue(g, At(c, a), key)) /\ InTree(g, c, mappingValue(g, At(c, a), "<<"))
    BY ValueInside
  <2> QED
    BY <1>2, <2>1
<1> HIDE DEF own, base
<1> DEFINE target == Follow(g, Source, base)
<1>4. Follow(g, c, At(c, base)) = At(c, target) /\ InTree(g, Source, target)
      /\ InTree(g, c, At(c, target))
  <2>1. Follow(g, c, At(c, base)) = At(c, target)
    BY <1>2, <1>3, FollowKept
  <2>2. InTree(g, Source, target) /\ InTree(g, c, Follow(g, c, At(c, base)))
    BY <1>1, <1>2, <1>3, FollowInTree
  <2> QED
    BY <2>1, <2>2
<1> HIDE DEF target
<1>5. /\ mappingValue(g, At(c, target), key) = At(c, merged) /\ InTree(g, Source, merged)
      /\ InTree(g, c, At(c, merged))
      /\ merged = Nothing \/ merged \notin Touched(g, rule)
  <2>1. merged = mappingValue(g, target, key)
    BY DEF target
  <2> HIDE DEF merged
  <2>2. Known(g, Source, target)
    BY <1>4, FaithfulFacts
  <2>3. mappingValue(g, At(c, target), key) = At(c, merged)
    BY <2>1, <2>2, ValueKept
  <2>4. InTree(g, Source, merged)
    BY <1>1, <1>4, <2>1, ValueInside
  <2>5. InTree(g, c, mappingValue(g, At(c, target), key))
    BY <1>4, ValueInside
  <2>6. merged = Nothing \/ merged \notin Touched(g, rule)
    BY <2>1, <2>2, OtherUntouched
  <2> QED
    BY <2>3, <2>4, <2>5, <2>6
<1> HIDE DEF merged
<1>6. /\ InTree(g, Source, field) /\ InTree(g, c, At(c, field))
      /\ field = Nothing \/ field \notin Touched(g, rule)
  BY <1>2, <1>3, <1>5
<1>7. Field(g, Source, a, key) = Follow(g, Source, field)
  BY Zenon DEF Field, field, own, base, merged
<1>8. own # Nothing <=> At(c, own) # Nothing
  <2>1. own # Nothing => own \in Places(g, Source) /\ IsDocument(g[Source]) /\ c \in Copies
    BY <1>2, FaithfulFacts DEF InTree, Faithful
  <2> QED
    BY <2>1, PlacesAreNodes DEF At
<1>9. Field(g, c, At(c, a), key) = Follow(g, c, At(c, field))
  <2>1. Field(g, c, At(c, a), key)
          = Follow(g, c, IF mappingValue(g, At(c, a), key) # Nothing
                         THEN mappingValue(g, At(c, a), key)
                         ELSE mappingValue(g, Follow(g, c, mappingValue(g, At(c, a), "<<")), key))
    BY Zenon DEF Field
  <2>2. mappingValue(g, Follow(g, c, mappingValue(g, At(c, a), "<<")), key) = At(c, merged)
    BY <1>2, <1>4, <1>5
  <2>3. Field(g, c, At(c, a), key)
          = Follow(g, c, IF At(c, own) # Nothing THEN At(c, own) ELSE At(c, merged))
    BY <1>2, <2>1, <2>2
  <2>4. (IF At(c, own) # Nothing THEN At(c, own) ELSE At(c, merged)) = At(c, field)
    BY <1>8
  <2> HIDE DEF field
  <2> QED
    BY <2>3, <2>4
<1> HIDE DEF field
<1>10. Follow(g, c, At(c, field)) = At(c, Follow(g, Source, field))
  BY <1>6, FollowKept
<1> QED
  BY <1>7, <1>9, <1>10

(* So is a list, entry by entry.                                           *)
LEMMA ElementsKept ==
  ASSUME NEW g, NEW c, NEW rule, Faithful(g, c, rule), NEW a, Known(g, Source, a)
  PROVE  /\ DOMAIN Elements(g, At(c, a)) = DOMAIN Elements(g, a)
         /\ \A i \in DOMAIN Elements(g, a) :
              /\ Elements(g, At(c, a))[i] = At(c, Elements(g, a)[i])
              /\ Elements(g, a)[i] \notin Touched(g, rule)
<1>1. CASE ~IsKind(g, a, "sequence")
  <2>1. ~IsKind(g, At(c, a), "sequence")
    BY <1>1, KindKept
  <2> QED
    BY <1>1, <2>1 DEF Elements
<1>2. CASE IsKind(g, a, "sequence")
  <2>1. /\ IsKind(g, At(c, a), "sequence") /\ a \in Places(g, Source) /\ a # rule
        /\ Node(g, a).kind = "sequence"
    BY <1>2, KindKept DEF IsKind, Known, Faithful
  <2>2. Node(g, At(c, a)).content = MovedContent(g, c, a)
    BY <2>1 DEF Faithful, Kept
  <2>3. Elements(g, At(c, a)) = MovedContent(g, c, a) /\ Elements(g, a) = Node(g, a).content
    BY <1>2, <2>1, <2>2 DEF Elements
  <2>4. ASSUME NEW i \in DOMAIN Node(g, a).content
        PROVE  Node(g, a).content[i] \notin Touched(g, rule)
    <3>1. Node(g, a).content[i] # Nothing
      <4>1. Node(g, a).content \in Seq(Places(g, Source))
        BY <2>1, FaithfulFacts, NodeOfPlace
      <4>2. Node(g, a).content[i] \in Places(g, Source)
        BY <4>1
      <4> QED
        BY <4>2, FaithfulFacts, PlacesAreNodes DEF Faithful
    <3>2. \A key : mappingValue(g, rule, key) # Nothing =>
                     Node(g, a).content[i] # mappingValue(g, rule, key)
      BY <2>1, FaithfulFacts, ValuesApart DEF Faithful
    <3> QED
      BY <3>1, <3>2 DEF Touched
  <2> QED
    BY <2>3, <2>4 DEF MovedContent
<1> QED
  BY <1>1, <1>2

-----------------------------------------------------------------------------
(* Groups and rules, as promtool reads them.                               *)

ReadGroups(h, c)   == Elements(h, Field(h, c, Root(c), "groups"))
ReadGroup(h, c, g) == Follow(h, c, ReadGroups(h, c)[g])
ReadRules(h, c, g) == Elements(h, Field(h, c, ReadGroup(h, c, g), "rules"))
ReadRule(h, c, g, r)    == Follow(h, c, ReadRules(h, c, g)[r])
ReadText(h, c, g, r, k) == scalarValue(h, Field(h, c, ReadRule(h, c, g, r), k))

(* What promtool reads, in terms of these.                                 *)
LEMMA ReadInParts ==
  ASSUME NEW h, NEW c, Complete(h, c)
  PROVE  Reads(h, c) = [g \in DOMAIN ReadGroups(h, c) |-> [r \in DOMAIN ReadRules(h, c, g) |->
                         [k \in Fields |-> ReadText(h, c, g, r, k)]]]
BY Zenon DEF Complete, Reads, ReadGroups, ReadGroup, ReadRules, ReadRule, ReadText

(* The same lists, and the rule of the copy where the source has it.       *)
SameList(g, c, rule, a, b) ==
  /\ DOMAIN b = DOMAIN a
  /\ \A i \in DOMAIN a :
       /\ b[i] = At(c, a[i]) /\ InTree(g, Source, a[i]) /\ InTree(g, c, b[i])
       /\ a[i] \notin Touched(g, rule)

(* The list that a field of a node leads to.                               *)
LEMMA ListKept ==
  ASSUME NEW g, NEW c, NEW rule, Faithful(g, c, rule), Complete(g, c),
         NEW a, InTree(g, Source, a), InTree(g, c, At(c, a)),
         NEW key, key \notin {"expr", "for"}
  PROVE  SameList(g, c, rule, Elements(g, Field(g, Source, a, key)),
                  Elements(g, Field(g, c, At(c, a), key)))
<1> DEFINE x == Field(g, Source, a, key)
<1>1. Field(g, c, At(c, a), key) = At(c, x)
  BY FieldKept
<1>2. InTree(g, Source, x) /\ InTree(g, c, At(c, x))
  <2>1. InTree(g, Source, x)
    BY FaithfulFacts, FieldInTree
  <2>2. InTree(g, c, Field(g, c, At(c, a), key))
    BY FieldInTree
  <2> QED
    BY <1>1, <2>1, <2>2
<1> HIDE DEF x
<1>3. /\ DOMAIN Elements(g, At(c, x)) = DOMAIN Elements(g, x)
      /\ \A i \in DOMAIN Elements(g, x) :
           /\ Elements(g, At(c, x))[i] = At(c, Elements(g, x)[i])
           /\ Elements(g, x)[i] \notin Touched(g, rule)
  <2>1. Known(g, Source, x)
    BY <1>2, FaithfulFacts
  <2> QED
    BY <2>1, ElementsKept
<1>4. \A i \in DOMAIN Elements(g, x) : InTree(g, Source, Elements(g, x)[i])
  BY <1>2, FaithfulFacts, TreeElements
<1>5. \A i \in DOMAIN Elements(g, At(c, x)) : InTree(g, c, Elements(g, At(c, x))[i])
  BY <1>2, TreeElements
<1> QED
  BY <1>1, <1>3, <1>4, <1>5 DEF SameList, x

(* An edit neither adds nor removes nor moves a group or a rule.           *)
LEMMA StructureKept ==
  ASSUME NEW g, NEW c, NEW rule, Faithful(g, c, rule), Complete(g, c)
  PROVE  /\ DOMAIN ReadGroups(g, c) = DOMAIN ReadGroups(g, Source)
         /\ \A i \in DOMAIN ReadGroups(g, Source) :
              /\ DOMAIN ReadRules(g, c, i) = DOMAIN ReadRules(g, Source, i)
              /\ \A r \in DOMAIN ReadRules(g, Source, i) :
                   /\ ReadRule(g, c, i, r) = At(c, ReadRule(g, Source, i, r))
                   /\ InTree(g, Source, ReadRule(g, Source, i, r))
<1>1. /\ InTree(g, Source, Root(Source)) /\ InTree(g, c, At(c, Root(Source)))
      /\ Root(c) = At(c, Root(Source))
  <2>1. Root(Source) \in Tree(g, Source) /\ Root(c) \in Tree(g, c)
    BY FaithfulFacts, TreeClosed
  <2>2. Root(c) = At(c, Root(Source))
    <3>1. Root(Source) \in Places(g, Source)
      BY <2>1, FaithfulFacts
    <3>2. At(c, Root(Source)) = <<c, Root(Source)[2]>>
      BY <3>1, FaithfulFacts, PlacesAreNodes DEF Faithful
    <3> QED
      BY <3>2 DEF Root
  <2> QED
    BY <2>1, <2>2 DEF InTree
<1>2. SameList(g, c, rule, ReadGroups(g, Source), ReadGroups(g, c))
  <2>1. SameList(g, c, rule, Elements(g, Field(g, Source, Root(Source), "groups")),
                 Elements(g, Field(g, c, At(c, Root(Source)), "groups")))
    BY <1>1, ListKept
  <2> QED
    BY <1>1, <2>1 DEF ReadGroups
<1>3. ASSUME NEW x, NEW y, y = At(c, x), InTree(g, Source, x), InTree(g, c, y),
             x \notin Touched(g, rule)
      PROVE  /\ Follow(g, c, y) = At(c, Follow(g, Source, x))
             /\ InTree(g, Source, Follow(g, Source, x)) /\ InTree(g, c, Follow(g, c, y))
  <2>1. Follow(g, c, y) = At(c, Follow(g, Source, x))
    BY <1>3, FollowKept
  <2> QED
    BY <1>3, <2>1, FaithfulFacts, FollowInTree
<1>4. ASSUME NEW i \in DOMAIN ReadGroups(g, Source)
      PROVE  /\ ReadGroup(g, c, i) = At(c, ReadGroup(g, Source, i))
             /\ InTree(g, Source, ReadGroup(g, Source, i)) /\ InTree(g, c, ReadGroup(g, c, i))
  BY <1>2, <1>3 DEF SameList, ReadGroup
<1>5. ASSUME NEW i \in DOMAIN ReadGroups(g, Source)
      PROVE  SameList(g, c, rule, ReadRules(g, Source, i), ReadRules(g, c, i))
  <2>1. SameList(g, c, rule, Elements(g, Field(g, Source, ReadGroup(g, Source, i), "rules")),
                 Elements(g, Field(g, c, At(c, ReadGroup(g, Source, i)), "rules")))
    BY <1>4, ListKept
  <2> QED
    BY <1>4, <2>1 DEF ReadRules
<1>6. ASSUME NEW i \in DOMAIN ReadGroups(g, Source), NEW r \in DOMAIN ReadRules(g, Source, i)
      PROVE  /\ ReadRule(g, c, i, r) = At(c, ReadRule(g, Source, i, r))
             /\ InTree(g, Source, ReadRule(g, Source, i, r))
  BY <1>3, <1>5 DEF SameList, ReadRule
<1> QED
  BY <1>2, <1>5, <1>6 DEF SameList

(* A rule that shares no text is read as it is written.                    *)
Own(h, a) ==
  /\ mappingValue(h, a, "<<") = Nothing
  /\ \A key : ~IsKind(h, mappingValue(h, a, key), "alias")

(* A field that is there and no alias is taken from nowhere else.          *)
LEMMA OwnField ==
  ASSUME NEW h, NEW c, NEW a, mappingValue(h, a, "<<") = Nothing, NEW key,
         ~IsKind(h, mappingValue(h, a, key), "alias")
  PROVE  Field(h, c, a, key) = mappingValue(h, a, key)
<1> DEFINE own  == mappingValue(h, a, key)
           base == mappingValue(h, a, "<<")
<1>1. Follow(h, c, base) = Nothing
  BY DEF Follow, IsKind
<1>2. mappingValue(h, Follow(h, c, base), key) = Nothing
  BY <1>1 DEF mappingValue
<1>3. Field(h, c, a, key)
        = Follow(h, c, IF own # Nothing THEN own ELSE mappingValue(h, Follow(h, c, base), key))
  BY Zenon DEF Field
<1> HIDE DEF own, base
<1>4. Field(h, c, a, key) = Follow(h, c, own)
  BY <1>2, <1>3
<1> QED
  BY <1>4 DEF Follow, own

Changed(m, key, text) ==
  IF m.expr # "" THEN IF key = "expr" THEN m.expr ELSE text
  ELSE IF key = "for" THEN m.for ELSE text

(* The texts of such a rule: the new one if it is the rule of the          *)
(* mutation, and otherwise those of the source.                            *)
LEMMA TextRendered ==
  ASSUME NEW g, NEW c, NEW m, Faithful(g, c, RuleAt(g, m)), Written(g, c, RuleAt(g, m), m),
         NEW a \in Places(g, Source), Own(g, a), NEW key
  PROVE  /\ scalarValue(g, Field(g, Source, a, key)) = Text(g, a, key)
         /\ scalarValue(g, Field(g, c, At(c, a), key))
              = IF a = RuleAt(g, m) THEN Changed(m, key, Text(g, a, key)) ELSE Text(g, a, key)
<1> DEFINE rule == RuleAt(g, m)
<1>1. Field(g, Source, a, key) = mappingValue(g, a, key)
  BY OwnField DEF Own
<1>2. Known(g, Source, a) /\ c \in Copies /\ IsDocument(g[Source]) /\ Kept(g, c, rule)
  BY FaithfulFacts DEF Known, Faithful
<1> HIDE DEF rule
<1>3. mappingValue(g, At(c, a), "<<") = Nothing
  <2>1. mappingValue(g, At(c, a), "<<") = At(c, mappingValue(g, a, "<<"))
    BY <1>2, ValueKept DEF rule
  <2> QED
    BY <2>1 DEF Own, At
<1>4. CASE key = "for" /\ a = rule
  <2>1. /\ Text(g, At(c, rule), "for") = IF m.expr = "" THEN m.for ELSE Text(g, rule, "for")
        /\ ~IsKind(g, mappingValue(g, At(c, rule), "for"), "alias")
    BY <1>4 DEF Own, Written, rule
  <2>2. Field(g, c, At(c, a), key) = mappingValue(g, At(c, a), key)
    BY <1>3, <1>4, <2>1, OwnField
  <2> QED
    BY <1>1, <1>4, <2>1, <2>2 DEF Text, Changed, rule
<1>5. CASE key # "for" \/ a # rule
  <2>1. mappingValue(g, At(c, a), key) = At(c, mappingValue(g, a, key))
    BY <1>2, <1>5, ValueKept DEF rule
  <2>2. Field(g, c, At(c, a), key) = mappingValue(g, At(c, a), key)
    <3>1. ~IsKind(g, mappingValue(g, At(c, a), key), "alias")
      BY <1>2, <2>1, TextKept DEF Own
    <3> QED
      BY <1>3, <3>1, OwnField
  <2>3. CASE key = "expr" /\ a = rule
    BY <1>1, <2>2, <2>3 DEF Text, Changed, Written, rule
  <2>4. CASE key \notin {"expr", "for"} \/ a # rule
    <3>1. mappingValue(g, a, key) = Nothing \/ mappingValue(g, a, key) \notin Touched(g, rule)
      BY <1>2, <2>4, OtherUntouched DEF rule
    <3>2. mappingValue(g, a, key) # Nothing => mappingValue(g, a, key) \in Places(g, Source)
      BY <1>2, ValueFound DEF IsDocument
    <3>3. Text(g, At(c, a), key) = Text(g, a, key)
      BY <1>2, <2>1, <3>1, <3>2, TextKept DEF Kept
    <3> QED
      BY <1>1, <2>2, <2>4, <3>3 DEF Text, Changed, rule
  <2> QED
    BY <1>5, <2>3, <2>4
<1> QED
  BY <1>4, <1>5

-----------------------------------------------------------------------------
(* What comes of a render, by the tree of the source alone.                *)

OwnRule(h, i, r) ==
  IF i \in DOMAIN Groups(h, Source) /\ r \in DOMAIN RulesOf(h, Source, i)
  THEN RulesOf(h, Source, i)[r] ELSE Nothing

Shares(h, i, r) ==
  \/ OwnRule(h, i, r) = Nothing
  \/ OwnRule(h, i, r) \in Tree(h, Source) /\ mappingValue(h, OwnRule(h, i, r), "<<") # Nothing
  \/ \E a \in Tree(h, Source) :
       /\ Node(h, a).kind = "alias"
       /\ a = OwnRule(h, i, r) \/ a \in Range(Node(h, OwnRule(h, i, r)).content)

Simple(h) ==
  /\ NoSharing(h, Source)
  /\ \A a \in Tree(h, Source) :
       LET v == mappingValue(h, a, "for")
       IN  ~(IsKind(h, v, "scalar") /\ Node(h, v).tag = "null")

NewText(m, old) ==
  IF m.expr # "" THEN [old EXCEPT !.expr = m.expr] ELSE [old EXCEPT !.for = m.for]

Wish(h, m) ==
  LET read == Reads(h, Source)
  IN  [read EXCEPT ![m.group][m.rule] = NewText(m, @)]

Outcome(h, o, m) ==
  /\ Simple(h) => o = Wish(h, m)
  /\ o # Nothing =>
       /\ DOMAIN o = DOMAIN Reads(h, Source)
       /\ \A i \in DOMAIN Reads(h, Source) : \A r \in DOMAIN Reads(h, Source)[i] :
            \/ o[i][r] = Reads(h, Source)[i][r]
            \/ Shares(h, i, r)
            \/ /\ <<i, r>> = <<m.group, m.rule>>
               /\ o[i][r] = Wish(h, m)[i][r]

(* A list of its own is read as it is written.                             *)
LEMMA OwnList ==
  ASSUME NEW h, NEW c, NEW a, NEW key, NEW i \in DOMAIN Elements(h, mappingValue(h, a, key))
  PROVE  /\ IsKind(h, mappingValue(h, a, key), "sequence")
         /\ Field(h, c, a, key) = mappingValue(h, a, key) /\ Follow(h, c, a) = a
<1> DEFINE own    == mappingValue(h, a, key)
           merged == mappingValue(h, Follow(h, c, mappingValue(h, a, "<<")), key)
<1>1. IsKind(h, own, "sequence")
  BY DEF Elements
<1>2. Field(h, c, a, key) = Follow(h, c, IF own # Nothing THEN own ELSE merged)
  BY Zenon DEF Field
<1>3. a # Nothing /\ Node(h, a).kind = "mapping"
  BY <1>1 DEF IsKind, mappingValue
<1> HIDE DEF own, merged
<1>4. Field(h, c, a, key) = own
  BY <1>1, <1>2 DEF Follow, IsKind
<1>5. Follow(h, c, a) = a
  BY <1>3 DEF Follow, IsKind
<1> QED
  BY <1>1, <1>4, <1>5 DEF own

(* A rule that shares no text is one that promtool reads, at its indices.  *)
LEMMA UnsharedRule ==
  ASSUME NEW g, Sound(g), NEW i, NEW r, ~Shares(g, i, r)
  PROVE  LET a == RulesOf(g, Source, i)[r]
         IN  /\ i \in DOMAIN Groups(g, Source) /\ r \in DOMAIN RulesOf(g, Source, i)
             /\ i \in DOMAIN ReadGroups(g, Source) /\ r \in DOMAIN ReadRules(g, Source, i)
             /\ a \in Places(g, Source) /\ Own(g, a) /\ ReadRule(g, Source, i, r) = a
<1> DEFINE a == RulesOf(g, Source, i)[r]
<1>1. /\ i \in DOMAIN Groups(g, Source) /\ r \in DOMAIN RulesOf(g, Source, i)
      /\ OwnRule(g, i, r) = a /\ a # Nothing
  BY DEF Shares, OwnRule
<1>2. IsTree(Source, g[Source]) /\ IsDocument(g[Source])
  BY DEF Sound, IsDocument
<1>3. a \in Places(g, Source) /\ a \in Tree(g, Source)
  <2>1. SameTree(g, g, Source)
    BY <1>2 DEF SameTree
  <2>2. Known(g, Source, a)
    BY <1>1, <2>1, SameRules
  <2> HIDE DEF a
  <2> QED
    BY <1>1, <1>2, <2>2, PlacesInTree DEF Known
<1>4. ReadGroups(g, Source) = Groups(g, Source)
  BY <1>1, OwnList DEF Groups, ReadGroups
<1>5. ReadRules(g, Source, i) = RulesOf(g, Source, i)
  <2>1. /\ Field(g, Source, Groups(g, Source)[i], "rules")
             = mappingValue(g, Groups(g, Source)[i], "rules")
        /\ Follow(g, Source, Groups(g, Source)[i]) = Groups(g, Source)[i]
    BY <1>1, OwnList DEF RulesOf
  <2> QED
    BY <1>4, <2>1 DEF ReadRules, ReadGroup, RulesOf
<1>6. ReadRule(g, Source, i, r) = Follow(g, Source, a)
  BY <1>5 DEF ReadRule
<1> HIDE DEF a
<1>7. Follow(g, Source, a) = a
  BY <1>1, <1>3 DEF Shares, Follow, IsKind
<1>8. Own(g, a)
  <2>1. mappingValue(g, a, "<<") = Nothing
    BY <1>1, <1>3 DEF Shares
  <2>2. ASSUME NEW key, IsKind(g, mappingValue(g, a, key), "alias") PROVE FALSE
    <3> DEFINE v == mappingValue(g, a, key)
    <3>1. v # Nothing /\ Node(g, v).kind = "alias"
      BY <2>2 DEF IsKind
    <3>2. v \in Range(Node(g, a).content) /\ v \in Places(g, Source)
      BY <1>2, <1>3, <3>1, ValueFound
    <3> HIDE DEF v
    <3>3. v \in Tree(g, Source)
      BY <1>2, <3>2, PlacesInTree
    <3> QED
      BY <1>1, <3>1, <3>2, <3>3 DEF Shares
  <2> QED
    BY <2>1, <2>2 DEF Own
<1> QED
  BY <1>1, <1>3, <1>4, <1>5, <1>6, <1>7, <1>8 DEF a

(* Two rules of a document are two nodes.                                  *)
LEMMA RulesApart ==
  ASSUME NEW g, IsDocument(g[Source]),
         NEW i \in DOMAIN Groups(g, Source), NEW r \in DOMAIN RulesOf(g, Source, i),
         NEW j \in DOMAIN Groups(g, Source), NEW s \in DOMAIN RulesOf(g, Source, j),
         RulesOf(g, Source, i)[r] = RulesOf(g, Source, j)[s]
  PROVE  i = j /\ r = s
<1>1. IsTree(Source, g[Source]) /\ SameTree(g, g, Source)
  BY DEF IsDocument, SameTree
<1> DEFINE top     == mappingValue(g, Root(Source), "groups")
           list(k) == mappingValue(g, Groups(g, Source)[k], "rules")
<1>2. IsKind(g, top, "sequence") /\ IsKind(g, list(i), "sequence") /\ IsKind(g, list(j), "sequence")
  BY OwnList DEF Groups, RulesOf
<1>3. top \in Places(g, Source)
  <2>1. Root(Source) \in Places(g, Source)
    BY <1>1, TreeClosed
  <2>2. Known(g, Source, top)
    BY <1>1, <2>1, SameValues DEF Known
  <2> QED
    BY <1>2, <2>2 DEF Known, IsKind
<1>4. ASSUME NEW k \in DOMAIN Groups(g, Source), IsKind(g, list(k), "sequence")
      PROVE  /\ Groups(g, Source)[k] \in Places(g, Source) /\ list(k) \in Places(g, Source)
             /\ RulesOf(g, Source, k) = Node(g, list(k)).content /\ list(k) # Nothing
  <2>1. Known(g, Source, Groups(g, Source)[k])
    BY <1>1, SameRules
  <2>2. Known(g, Source, list(k))
    BY <1>1, <2>1, SameValues
  <2>3. Groups(g, Source)[k] # Nothing /\ list(k) # Nothing
    BY <1>4 DEF IsKind, mappingValue
  <2> QED
    BY <1>4, <2>1, <2>2, <2>3 DEF Known, RulesOf, Elements
<1>5. Groups(g, Source) = Node(g, top).content
  BY <1>2 DEF Groups, Elements
<1> HIDE DEF top
<1>6. list(i) = list(j) /\ r = s
  <2>1. /\ list(i) \in Places(g, Source) /\ list(j) \in Places(g, Source)
        /\ RulesOf(g, Source, i) = Node(g, list(i)).content
        /\ RulesOf(g, Source, j) = Node(g, list(j)).content
    BY <1>2, <1>4
  <2> HIDE DEF list
  <2> QED
    BY <2>1, PlacesApart
<1>7. Groups(g, Source)[i] = Groups(g, Source)[j]
  BY <1>2, <1>4, <1>6, ValuesApart
<1>8. i = j
  BY <1>3, <1>5, <1>7, PlacesApart
<1> QED
  BY <1>6, <1>8

-----------------------------------------------------------------------------
(* The outcome of a mutated copy.                                          *)

(* What was shown of the edits is what the readings use.                   *)
LEMMA RenderedIsFaithful ==
  ASSUME NEW g, NEW c \in Copies, NEW m, Rendered(g, c, m), Sound(g), Target(g, m)
  PROVE  Faithful(g, c, RuleAt(g, m)) /\ Written(g, c, RuleAt(g, m), m)
<1>1. IsDocument(g[Source])
  BY DEF Sound
<1>2. RuleAt(g, m) \in Places(g, Source) /\ Node(g, RuleAt(g, m)).kind = "mapping"
  BY <1>1, TargetIsRule
<1> QED
  BY <1>2 DEF Faithful, Rendered

(* The file as it should be, rule by rule.                                 *)
LEMMA WishInParts ==
  ASSUME NEW g, Sound(g), NEW m, NEW read, read = Reads(g, Source),
         m.group \in DOMAIN read, m.rule \in DOMAIN read[m.group]
  PROVE  /\ \A i \in DOMAIN read : \A r \in DOMAIN read[i] :
              Wish(g, m)[i][r] = IF i = m.group /\ r = m.rule THEN NewText(m, read[i][r])
                                 ELSE read[i][r]
         /\ Wish(g, m) = [i \in DOMAIN read |-> [r \in DOMAIN read[i] |-> Wish(g, m)[i][r]]]
<1> DEFINE text(i, r) == [k \in Fields |-> ReadText(g, Source, i, r, k)]
           rules(i)   == DOMAIN ReadRules(g, Source, i)
           groups     == DOMAIN ReadGroups(g, Source)
<1>1. read = [i \in groups |-> [r \in rules(i) |-> text(i, r)]]
  <2>1. Complete(g, Source)
    BY DEF Sound
  <2> QED
    BY <2>1, ReadInParts
<1>2. PICK new : new = NewText(m, read[m.group][m.rule])
  OBVIOUS
<1> HIDE DEF text, rules, groups
<1>3. /\ DOMAIN read = groups /\ \A i \in groups : DOMAIN read[i] = rules(i)
      /\ \A i \in groups : read[i] = [r \in rules(i) |-> read[i][r]]
  BY <1>1
<1>4. Wish(g, m) = [read EXCEPT ![m.group] = [read[m.group] EXCEPT ![m.rule] = new]]
  BY <1>2 DEF Wish
<1>5. Wish(g, m) = [i \in groups |-> IF i = m.group THEN [read[m.group] EXCEPT ![m.rule] = new]
                                     ELSE read[i]]
  BY <1>3, <1>4, <1>1
<1>6. [read[m.group] EXCEPT ![m.rule] = new]
        = [r \in rules(m.group) |-> IF r = m.rule THEN new ELSE read[m.group][r]]
  BY <1>3
<1>7. ASSUME NEW i \in groups
      PROVE  Wish(g, m)[i]
               = [r \in rules(i) |-> IF i = m.group /\ r = m.rule THEN new ELSE read[i][r]]
  BY <1>3, <1>5, <1>6
<1>8. ASSUME NEW i \in groups, NEW r \in rules(i)
      PROVE  Wish(g, m)[i][r] = IF i = m.group /\ r = m.rule THEN NewText(m, read[i][r])
                                ELSE read[i][r]
  <2>0. Wish(g, m)[i]
          = [q \in rules(i) |-> IF i = m.group /\ q = m.rule THEN new ELSE read[i][q]]
    BY <1>7
  <2>1. Wish(g, m)[i][r] = IF i = m.group /\ r = m.rule THEN new ELSE read[i][r]
    BY <2>0, <1>8
  <2>2. i = m.group /\ r = m.rule => new = NewText(m, read[i][r])
    BY <1>2
  <2> QED
    BY <2>1, <2>2
<1>9. Wish(g, m) = [i \in groups |-> Wish(g, m)[i]]
      /\ \A i \in groups : Wish(g, m)[i] = [r \in rules(i) |-> Wish(g, m)[i][r]]
  BY <1>5, <1>7
<1>10. Wish(g, m) = [i \in groups |-> [r \in rules(i) |-> Wish(g, m)[i][r]]]
  BY <1>9
<1> QED
  BY <1>3, <1>8, <1>10

(* The target is a rule that promtool reads, if it shares no text.         *)
LEMMA RuleOutcome ==
  ASSUME NEW g, NEW c \in Copies, NEW m, Rendered(g, c, m), Sound(g), Target(g, m),
         Complete(g, c), NEW i, NEW r, ~Shares(g, i, r),
         NEW read, read = Reads(g, Source)
  PROVE  Reads(g, c)[i][r]
           = IF i = m.group /\ r = m.rule THEN NewText(m, read[i][r]) ELSE read[i][r]
<1> DEFINE a    == RulesOf(g, Source, i)[r]
           rule == RuleAt(g, m)
<1>1. /\ i \in DOMAIN Groups(g, Source) /\ r \in DOMAIN RulesOf(g, Source, i)
      /\ i \in DOMAIN ReadGroups(g, Source) /\ r \in DOMAIN ReadRules(g, Source, i)
      /\ a \in Places(g, Source) /\ Own(g, a) /\ ReadRule(g, Source, i, r) = a
  BY UnsharedRule
<1>2. Faithful(g, c, rule) /\ Written(g, c, rule, m)
  BY RenderedIsFaithful
<1>3. /\ i \in DOMAIN ReadGroups(g, c) /\ r \in DOMAIN ReadRules(g, c, i)
      /\ ReadRule(g, c, i, r) = At(c, a)
  BY <1>1, <1>2, StructureKept
<1>4. /\ read[i][r] = [k \in Fields |-> scalarValue(g, Field(g, Source, a, k))]
      /\ Reads(g, c)[i][r] = [k \in Fields |-> scalarValue(g, Field(g, c, At(c, a), k))]
  <2>1. Complete(g, Source)
    BY DEF Sound
  <2>2. read[i][r] = [k \in Fields |-> ReadText(g, Source, i, r, k)]
    BY <1>1, <2>1, ReadInParts
  <2>3. Reads(g, c)[i][r] = [k \in Fields |-> ReadText(g, c, i, r, k)]
    BY <1>3, ReadInParts
  <2> QED
    BY <1>1, <1>3, <2>2, <2>3 DEF ReadText
<1>5. a = rule <=> i = m.group /\ r = m.rule
  <2>1. IsDocument(g[Source])
    BY DEF Sound
  <2>2. m.group \in DOMAIN Groups(g, Source) /\ m.rule \in DOMAIN RulesOf(g, Source, m.group)
    BY DEF Target
  <2>3. rule = RulesOf(g, Source, m.group)[m.rule]
    BY DEF RuleAt
  <2>4. ASSUME a = rule PROVE i = m.group /\ r = m.rule
    <3>1. RulesOf(g, Source, i)[r] = RulesOf(g, Source, m.group)[m.rule]
      BY <2>3, <2>4
    <3> QED
      BY <1>1, <2>1, <2>2, <3>1, RulesApart
  <2> QED
    BY <2>3, <2>4
<1>6. ASSUME NEW k
      PROVE  /\ scalarValue(g, Field(g, Source, a, k)) = Text(g, a, k)
             /\ scalarValue(g, Field(g, c, At(c, a), k))
                  = IF a = rule THEN Changed(m, k, Text(g, a, k)) ELSE Text(g, a, k)
  BY <1>1, <1>2, TextRendered
<1> HIDE DEF a, rule
<1>7. /\ read[i][r] = [k \in Fields |-> Text(g, a, k)]
      /\ Reads(g, c)[i][r] = [k \in Fields |-> IF a = rule THEN Changed(m, k, Text(g, a, k))
                                               ELSE Text(g, a, k)]
  BY <1>4, <1>6
<1>8. CASE a = rule
  <2>1. NewText(m, read[i][r]) = [k \in Fields |-> Changed(m, k, Text(g, a, k))]
    BY <1>7 DEF NewText, Changed, Fields
  <2> QED
    BY <1>5, <1>7, <1>8, <2>1
<1>9. CASE a # rule
  BY <1>5, <1>7, <1>9
<1> QED
  BY <1>8, <1>9

(* A plain document can be read when mutated.                              *)
LEMMA SimpleIsReadable ==
  ASSUME NEW g, NEW c \in Copies, NEW m, Rendered(g, c, m), Sound(g), Target(g, m), Simple(g)
  PROVE  Complete(g, c)
<1> DEFINE rule == RuleAt(g, m)
<1>1. Faithful(g, c, rule)
  BY RenderedIsFaithful
<1>2. /\ IsDocument(g[Source]) /\ IsTree(c, g[c]) /\ IsTree(Source, g[Source])
      /\ Places(g, Source) = Tree(g, Source) /\ Readable(g, Source)
  BY <1>1, FaithfulFacts DEF Complete
<1>3. /\ mappingValue(g, rule, "expr") \in Places(g, Source)
      /\ Node(g, mappingValue(g, rule, "expr")).value # ""
  BY <1>2, TargetIsRule
<1> HIDE DEF rule
<1> SUFFICES ASSUME NEW b \in Tree(g, c)
             PROVE  LET n == Node(g, b) IN
                    /\ n.kind = "alias" => Anchored(g, c, n.value) # {}
                    /\ n.tag = "null" => n.value = ""
                    /\ n.kind = "mapping" =>
                         \A i, j \in KeyPositions(g, b) : KeyAt(g, b, i) = KeyAt(g, b, j) => i = j
  BY <1>2, Zenon DEF Complete, Readable
<1>4. b \in Places(g, c)
  BY <1>2, TreeClosed
<1>5. CASE b \in Fresh(g, c)
  <2>1. \A text : Scalar(text).kind = "scalar" /\ Scalar(text).tag = "str"
    BY DEF Scalar
  <2>2. Node(g, b).kind = "scalar" /\ Node(g, b).tag = "str"
    BY <1>5, <2>1 DEF Fresh
  <2> QED
    BY <2>2
<1>6. CASE b \notin Fresh(g, c)
  <2>1. PICK x \in Places(g, Source) : b = At(c, x)
    BY <1>1, <1>4, <1>6 DEF Faithful, Kept
  <2>2. /\ Node(g, b).kind = Node(g, x).kind /\ Node(g, b).tag = Node(g, x).tag
        /\ x \notin Touched(g, rule) => Node(g, b).value = Node(g, x).value
        /\ x # rule => Node(g, b).content = MovedContent(g, c, x)
    BY <1>1, <2>1 DEF Faithful, Kept
  <2>3. /\ x \in Tree(g, Source) /\ Node(g, x).kind # "alias"
        /\ Node(g, x).tag = "null" => Node(g, x).value = ""
    BY <1>2 DEF Simple, NoSharing, Readable
  <2>4. Node(g, b).tag = "null" => Node(g, b).value = ""
    <3>1. SUFFICES ASSUME Node(g, x).tag = "null", x \in Touched(g, rule) PROVE FALSE
      BY <2>2, <2>3
    <3>2. x # mappingValue(g, rule, "expr")
      BY <1>3, <2>3, <3>1
    <3>3. x = mappingValue(g, rule, "for")
      BY <3>1, <3>2 DEF Touched
    <3>4. x # Nothing /\ rule \in Tree(g, Source)
      BY <1>1, <1>2, PlacesAreNodes DEF Faithful
    <3>5. Node(g, x).kind \in Kinds
      <4>1. x[2] \in DOMAIN g[Source] /\ Node(g, x) = g[Source][x[2]]
        BY <1>2, NodeOfPlace
      <4> QED
        BY <1>2, <4>1 DEF IsDocument
    <3>6. ~IsKind(g, x, "mapping") /\ ~IsKind(g, x, "sequence")
      BY <3>3, <3>4 DEF Sound
    <3>7. Node(g, x).kind = "scalar"
      BY <2>3, <3>4, <3>5, <3>6 DEF IsKind, Kinds
    <3> QED
      BY <3>1, <3>3, <3>4, <3>7 DEF Simple, IsKind
  <2>5. ASSUME Node(g, b).kind = "mapping" PROVE KeysOnce(g, b)
    <3>1. CASE x = rule
      BY <1>1, <2>1, <3>1 DEF Faithful, Entries
    <3>2. CASE x # rule
      <4>1. KeysOnce(g, x)
        BY <2>2, <2>5, SourceKeys
      <4>2. /\ KeyPositions(g, b) = KeyPositions(g, x)
            /\ \A i \in KeyPositions(g, x) : KeyAt(g, b, i) = KeyAt(g, x, i)
        BY <1>1, <1>2, <2>1, <2>2, <3>2, KeptMapping DEF Faithful
      <4> QED
        BY <4>1, <4>2 DEF KeysOnce
    <3> QED
      BY <3>1, <3>2
  <2> QED
    BY <2>2, <2>3, <2>4, <2>5 DEF KeysOnce
<1> QED
  BY <1>5, <1>6

(* A plain document has no rule that shares text.                          *)
LEMMA SimpleShares ==
  ASSUME NEW g, Sound(g), Simple(g)
  PROVE  /\ DOMAIN Reads(g, Source) = DOMAIN Groups(g, Source)
         /\ \A i \in DOMAIN Groups(g, Source) :
              /\ DOMAIN Reads(g, Source)[i] = DOMAIN RulesOf(g, Source, i)
              /\ \A r \in DOMAIN RulesOf(g, Source, i) : ~Shares(g, i, r)
<1>1. Complete(g, Source) /\ NoSharing(g, Source) /\ IsDocument(g[Source])
  BY DEF Sound, Simple
<1>2. Reads(g, Source) = [i \in DOMAIN Groups(g, Source) |-> [r \in DOMAIN RulesOf(g, Source, i) |->
                           [k \in Fields |-> Text(g, RulesOf(g, Source, i)[r], k)]]]
  BY <1>1, PlainReading
<1>3. ASSUME NEW i \in DOMAIN Groups(g, Source), NEW r \in DOMAIN RulesOf(g, Source, i)
      PROVE  ~Shares(g, i, r)
  <2>1. OwnRule(g, i, r) # Nothing
    <3>1. i \in DOMAIN Groups(g, Source) /\ r \in DOMAIN RulesOf(g, Source, i)
      OBVIOUS
    <3>2. IsKind(g, mappingValue(g, Groups(g, Source)[i], "rules"), "sequence")
      BY OwnList DEF RulesOf
    <3>3. RulesOf(g, Source, i)[r] \in Places(g, Source)
      <4> DEFINE list == mappingValue(g, Groups(g, Source)[i], "rules")
      <4>1. IsTree(Source, g[Source]) /\ SameTree(g, g, Source)
        BY <1>1 DEF IsDocument, SameTree
      <4>2. Known(g, Source, list)
        BY <4>1, SameRules, SameValues
      <4>3. list \in Places(g, Source) /\ RulesOf(g, Source, i) = Node(g, list).content
        BY <3>2, <4>2 DEF Known, IsKind, RulesOf, Elements
      <4> HIDE DEF list
      <4>4. Node(g, list).content \in Seq(Places(g, Source))
        BY <4>1, <4>3, NodeOfPlace
      <4> QED
        BY <4>3, <4>4
    <3>4. RulesOf(g, Source, i)[r] # Nothing
      <4>1. Source \in Copies
        BY DEF Copies
      <4> QED
        BY <1>1, <3>3, <4>1, PlacesAreNodes
    <3> QED
      BY <3>4 DEF OwnRule
  <2> QED
    BY <1>1, <2>1 DEF Shares, NoSharing
<1> QED
  BY <1>2, <1>3

(* So the outcome of a mutated copy is the one asked for.                  *)
LEMMA OutcomeOfCopy ==
  ASSUME NEW g, NEW c \in Copies, NEW m, Rendered(g, c, m), Sound(g), Target(g, m)
  PROVE  Outcome(g, Reads(g, c), m)
<1> DEFINE read == Reads(g, Source)
           o    == Reads(g, c)
<1>0. Complete(g, Source) /\ Faithful(g, c, RuleAt(g, m))
  BY RenderedIsFaithful DEF Sound
<1>1. ASSUME Complete(g, c)
      PROVE  /\ DOMAIN o = DOMAIN read
             /\ \A i \in DOMAIN read : DOMAIN o[i] = DOMAIN read[i]
             /\ o = [i \in DOMAIN read |-> [r \in DOMAIN read[i] |-> o[i][r]]]
  <2> DEFINE text(x, i, r) == [k \in Fields |-> ReadText(g, x, i, r, k)]
  <2>1. o = [i \in DOMAIN ReadGroups(g, c) |-> [r \in DOMAIN ReadRules(g, c, i) |-> text(c, i, r)]]
    BY <1>1, ReadInParts
  <2>2. read = [i \in DOMAIN ReadGroups(g, Source) |->
                 [r \in DOMAIN ReadRules(g, Source, i) |-> text(Source, i, r)]]
    BY <1>0, ReadInParts
  <2>3. /\ DOMAIN ReadGroups(g, c) = DOMAIN ReadGroups(g, Source)
        /\ \A i \in DOMAIN ReadGroups(g, Source) :
             DOMAIN ReadRules(g, c, i) = DOMAIN ReadRules(g, Source, i)
    BY <1>0, <1>1, StructureKept
  <2> HIDE DEF text, o, read
  <2> QED
    BY <2>1, <2>2, <2>3
<1>2. ASSUME Complete(g, c), NEW i \in DOMAIN read, NEW r \in DOMAIN read[i], ~Shares(g, i, r)
      PROVE  /\ o[i][r] = IF i = m.group /\ r = m.rule THEN NewText(m, read[i][r]) ELSE read[i][r]
             /\ i = m.group /\ r = m.rule => o[i][r] = Wish(g, m)[i][r]
  <2>1. o[i][r] = IF i = m.group /\ r = m.rule THEN NewText(m, read[i][r]) ELSE read[i][r]
    BY <1>2, RuleOutcome
  <2>2. ASSUME i = m.group, r = m.rule PROVE Wish(g, m)[i][r] = NewText(m, read[i][r])
    <3> HIDE DEF read
    <3> QED
      BY <2>2, WishInParts DEF read
  <2> HIDE DEF o, read
  <2> QED
    BY <2>1, <2>2
<1>3. ASSUME Simple(g) PROVE o = Wish(g, m)
  <2>1. Complete(g, c)
    BY <1>3, SimpleIsReadable
  <2>2. \A i \in DOMAIN read : \A r \in DOMAIN read[i] : ~Shares(g, i, r)
    BY <1>3, SimpleShares
  <2>3. m.group \in DOMAIN read /\ m.rule \in DOMAIN read[m.group]
    BY <1>3, SimpleShares DEF Target
  <2> HIDE DEF read
  <2>4. /\ \A i \in DOMAIN read : \A r \in DOMAIN read[i] :
             Wish(g, m)[i][r] = IF i = m.group /\ r = m.rule THEN NewText(m, read[i][r])
                                ELSE read[i][r]
        /\ Wish(g, m) = [i \in DOMAIN read |-> [r \in DOMAIN read[i] |-> Wish(g, m)[i][r]]]
    BY <2>3, WishInParts DEF read
  <2>5. o = [i \in DOMAIN read |-> [r \in DOMAIN read[i] |-> o[i][r]]]
    BY <1>1, <2>1
  <2>6. \A i \in DOMAIN read : \A r \in DOMAIN read[i] : o[i][r] = Wish(g, m)[i][r]
    BY <1>2, <2>1, <2>2, <2>4
  <2> HIDE DEF o
  <2> QED
    BY <2>4, <2>5, <2>6
<1>4. ASSUME o # Nothing PROVE Complete(g, c)
  <2>1. Readable(g, c)
    BY <1>4, Zenon DEF Reads
  <2> QED
    BY <1>0, <2>1, FaithfulFacts DEF Complete
<1> HIDE DEF o, read
<1>5. o # Nothing =>
        /\ DOMAIN o = DOMAIN read
        /\ \A i \in DOMAIN read : \A r \in DOMAIN read[i] :
             \/ o[i][r] = read[i][r]
             \/ Shares(g, i, r)
             \/ <<i, r>> = <<m.group, m.rule>> /\ o[i][r] = Wish(g, m)[i][r]
  BY <1>1, <1>2, <1>4
<1> QED
  BY <1>3, <1>5 DEF Outcome, o, read

-----------------------------------------------------------------------------
(* The outcome of a render depends on nothing but the source.              *)

(* Whether a document is plain,                                            *)
LEMMA SameSimple ==
  ASSUME NEW h, NEW g, SameTree(h, g, Source), Complete(h, Source)
  PROVE  Simple(g) <=> Simple(h)
<1>1. Tree(g, Source) = Tree(h, Source)
  BY SameComplete
<1>2. ASSUME NEW a \in Tree(h, Source)
      PROVE  /\ Node(g, a).kind # "alias" /\ mappingValue(g, a, "<<") = Nothing
                <=> Node(h, a).kind # "alias" /\ mappingValue(h, a, "<<") = Nothing
             /\ LET x == mappingValue(g, a, "for")
                    y == mappingValue(h, a, "for")
                IN  IsKind(g, x, "scalar") /\ Node(g, x).tag = "null"
                    <=> IsKind(h, y, "scalar") /\ Node(h, y).tag = "null"
  <2>1. Known(h, Source, a) /\ a \in Places(h, Source)
    BY TreeClosed DEF SameTree, Known
  <2>2. Node(g, a) = Node(h, a)
    BY <2>1, NodeOfPlace DEF Node, SameTree
  <2>3. /\ mappingValue(g, a, "<<") = mappingValue(h, a, "<<")
        /\ mappingValue(g, a, "for") = mappingValue(h, a, "for")
        /\ Known(h, Source, mappingValue(h, a, "for"))
    BY <2>1, SameValues
  <2>4. PICK x : x = mappingValue(h, a, "for")
    OBVIOUS
  <2>5. /\ IsKind(g, x, "scalar") <=> IsKind(h, x, "scalar")
        /\ x # Nothing => Node(g, x) = Node(h, x)
    BY <2>3, <2>4, SameValues
  <2> QED
    BY <2>2, <2>3, <2>4, <2>5 DEF IsKind
<1> QED
  BY <1>1, <1>2 DEF Simple, NoSharing

(* whether a rule shares text,                                             *)
LEMMA SameSharing ==
  ASSUME NEW h, NEW g, SameTree(h, g, Source), Complete(h, Source), NEW i, NEW r
  PROVE  Shares(g, i, r) <=> Shares(h, i, r)
<1>1. /\ Tree(g, Source) = Tree(h, Source)
      /\ \A a \in Tree(h, Source) : Node(g, a) = Node(h, a)
  <2>1. Tree(g, Source) = Tree(h, Source)
    BY SameComplete
  <2>2. ASSUME NEW a \in Tree(h, Source) PROVE Node(g, a) = Node(h, a)
    <3>1. a \in Places(h, Source)
      BY TreeClosed DEF SameTree
    <3> QED
      BY <3>1, NodeOfPlace DEF Node, SameTree
  <2> QED
    BY <2>1, <2>2
<1>2. OwnRule(g, i, r) = OwnRule(h, i, r) /\ Known(h, Source, OwnRule(h, i, r))
  BY SameRules DEF OwnRule, Known
<1>3. PICK rule : rule = OwnRule(h, i, r) /\ rule = OwnRule(g, i, r)
  BY <1>2
<1>4. /\ rule # Nothing => Node(g, rule) = Node(h, rule)
      /\ mappingValue(g, rule, "<<") = mappingValue(h, rule, "<<")
  BY <1>2, <1>3, SameValues
<1> QED
  BY <1>1, <1>3, <1>4 DEF Shares

(* and whether a mutation names a rule.                                    *)
LEMMA SameTarget ==
  ASSUME NEW h, NEW g, SameTree(h, g, Source), NEW m, Target(h, m)
  PROVE  Target(g, m) /\ RuleAt(g, m) = RuleAt(h, m)
<1>1. /\ Groups(g, Source) = Groups(h, Source)
      /\ RulesOf(g, Source, m.group) = RulesOf(h, Source, m.group)
      /\ Known(h, Source, RuleAt(h, m))
  <2>1. m.group \in DOMAIN Groups(h, Source) /\ m.rule \in DOMAIN RulesOf(h, Source, m.group)
    BY DEF Target
  <2> QED
    BY <2>1, SameRules DEF RuleAt
<1>2. RuleAt(g, m) = RuleAt(h, m)
  BY <1>1 DEF RuleAt
<1>3. Text(g, RuleAt(h, m), "expr") = Text(h, RuleAt(h, m), "expr")
  BY <1>1, SameText
<1> QED
  BY <1>1, <1>2, <1>3 DEF Target

(* What was rendered stays right while others render.                      *)
LEMMA SameOutcome ==
  ASSUME NEW h, NEW g, SameTree(h, g, Source), Complete(h, Source), NEW o, NEW m,
         Outcome(h, o, m)
  PROVE  Outcome(g, o, m)
<1>1. Reads(g, Source) = Reads(h, Source)
  BY SameReading
<1>2. Wish(g, m) = Wish(h, m)
  BY <1>1, Zenon DEF Wish
<1>3. (Simple(g) <=> Simple(h)) /\ \A i, r : Shares(g, i, r) <=> Shares(h, i, r)
  BY SameSimple, SameSharing
<1> QED
  BY <1>1, <1>2, <1>3 DEF Outcome

(* The tree of a worker, readable or not.                                  *)
LEMMA SameCopy ==
  ASSUME NEW h, NEW g, NEW c, SameTree(h, g, c)
  PROVE  Reads(g, c) = Reads(h, c)
<1>1. CASE Readable(h, c)
  BY <1>1, SameReading DEF Complete, SameTree
<1>2. CASE ~Readable(h, c)
  <2>1. SameTree(g, h, c)
    BY Zenon DEF SameTree
  <2>2. ~Readable(g, c)
    BY <1>2, <2>1, SameComplete DEF Complete, SameTree
  <2> QED
    BY <1>2, <2>2, Zenon DEF Reads
<1> QED
  BY <1>1, <1>2

-----------------------------------------------------------------------------
(* What each worker is about to write.                                     *)

Rendering(w) ==
  /\ pc[w] # "failed"
  /\ pc[w] \in {"edit", "encode", "done"} => IsLoaded /\ Target(heap, job[w])
  /\ pc[w] = "edit" => heap[w] = cloneNode(w)
  /\ pc[w] = "encode" => Outcome(heap, Reads(heap, w), job[w])
  /\ pc[w] = "done" => Outcome(heap, out[w], job[w])

RenderInv ==
  /\ DocumentInv /\ AlertsInv
  /\ DOMAIN job = Workers /\ DOMAIN out = Workers
  /\ \A w \in Workers : Rendering(w)

(* A worker is not disturbed by the others.                                *)
LEMMA OthersRender ==
  ASSUME RenderInv, NEW v \in Workers, alerts' = alerts, heap'[Source] = heap[Source],
         heap'[v] = heap[v], pc'[v] = pc[v], job'[v] = job[v], out'[v] = out[v]
  PROVE  Rendering(v)'
<1>1. CASE pc[v] \notin {"edit", "encode", "done"}
  BY <1>1 DEF Rendering, RenderInv
<1>2. CASE pc[v] \in {"edit", "encode", "done"}
  <2>1. alerts # Nothing /\ IsLoaded' /\ Target(heap, job[v])
    BY <1>2 DEF Rendering, RenderInv, IsLoaded
  <2>2. Complete(heap, Source) /\ SameTree(heap, heap', Source)
    <3>1. Complete(heap, Source)
      BY <2>1, LoadedIsComplete DEF RenderInv
    <3> QED
      BY <3>1 DEF SameTree, Complete
  <2>3. Target(heap', job[v])
    BY <2>1, <2>2, SameTarget
  <2>4. ASSUME pc[v] = "edit" PROVE heap'[v] = cloneNode(v)'
    <3>1. heap[v] = cloneNode(v)
      BY <2>4 DEF Rendering, RenderInv
    <3>2. cloneNode(v)' = cloneNode(v)
      BY Zenon DEF cloneNode
    <3> QED
      BY <3>1, <3>2
  <2>5. ASSUME pc[v] = "encode" PROVE Outcome(heap', Reads(heap', v), job[v])
    <3>1. IsTree(v, heap[v]) /\ SameTree(heap, heap', v)
      BY <2>5 DEF RenderInv, DocumentInv, SameTree
    <3>2. Reads(heap', v) = Reads(heap, v)
      BY <3>1, SameCopy
    <3>3. Outcome(heap, Reads(heap, v), job[v])
      BY <2>5 DEF Rendering, RenderInv
    <3>4. Outcome(heap', Reads(heap, v), job[v])
      BY <2>2, <3>3, SameOutcome
    <3> QED
      BY <3>2, <3>4
  <2>6. ASSUME pc[v] = "done" PROVE Outcome(heap', out[v], job[v])
    <3>1. Outcome(heap, out[v], job[v])
      BY <2>6 DEF Rendering, RenderInv
    <3> QED
      BY <2>2, <3>1, SameOutcome
  <2> QED
    BY <1>2, <2>1, <2>3, <2>4, <2>5, <2>6 DEF Rendering
<1> QED
  BY <1>1, <1>2

(* An edit of the worker's clone is neither refused nor beside the rule.   *)
LEMMA CloneIsMutated ==
  ASSUME RenderInv, NEW w \in Workers, ApplyMutation(w)
  PROVE  /\ pc' = [pc EXCEPT ![w] = "encode"] /\ heap'[Source] = heap[Source]
         /\ \A v \in Workers \ {w} : heap'[v] = heap[v]
         /\ Target(heap', job[w]) /\ Outcome(heap', Reads(heap', w), job[w])
<1> DEFINE m    == job[w]
           rule == RuleAt(heap, m)
           a    == At(w, rule)
<1>1. /\ pc[w] = "edit" /\ IsLoaded /\ Target(heap, m) /\ heap[w] = cloneNode(w) /\ alerts # Nothing
      /\ alerts' = alerts
  BY DEF ApplyMutation, Rendering, RenderInv, IsLoaded
<1>2. Sound(heap) /\ IsDocument(heap[Source]) /\ w \in Copies /\ w # Source /\ DOMAIN heap = Copies
  <2>1. Sound(heap)
    BY <1>1, LoadedIsSound DEF RenderInv
  <2> QED
    BY <2>1, SourceIsShared DEF Sound, Copies, RenderInv, DocumentInv
<1>3. Copied(heap, w) /\ IsTree(w, heap[w])
  <2>1. Copied(heap, w)
    BY <1>1, <1>2, CloneIsCopied
  <2> QED
    BY <2>1 DEF Copied
<1>4. locateRule(heap, w, m) = a
  BY <1>1, <1>2, <1>3, RuleLocated
<1>5. /\ rule \in Places(heap, Source) /\ a # Nothing /\ a \in Places(heap, w)
      /\ mappingValue(heap, a, "expr") # Nothing
  <2> HIDE DEF m
  <2>1. rule \in Places(heap, Source) /\ mappingValue(heap, rule, "expr") \in Places(heap, Source)
    BY <1>1, <1>2, TargetIsRule
  <2> HIDE DEF rule
  <2>2. a # Nothing /\ At(w, mappingValue(heap, rule, "expr")) # Nothing
    BY <1>2, <2>1, PlacesAreNodes
  <2>3. /\ Known(heap, w, a)
        /\ mappingValue(heap, a, "expr") = At(w, mappingValue(heap, rule, "expr"))
    BY <1>2, <1>3, <2>1, CopiedIsSame DEF Known
  <2> QED
    BY <2>1, <2>2, <2>3 DEF Known
<1>6. ~Refused(heap, a, m)
  BY <1>5 DEF Refused
<1>7. pc' = [pc EXCEPT ![w] = "encode"] /\ heap' = Mutated(heap, a, m)
  BY <1>4, <1>6 DEF ApplyMutation
<1> HIDE DEF m, rule, a
<1>8. Edited(heap, heap', w)
  BY <1>2, <1>3, <1>5, <1>6, <1>7, MutationEdits
<1>9. /\ heap'[Source] = heap[Source] /\ IsTree(w, heap'[w])
      /\ \A v \in Workers \ {w} : heap'[v] = heap[v]
  BY <1>2, <1>8 DEF Edited, Copies
<1>10. SameTree(heap, heap', Source)
  BY <1>2, <1>9 DEF SameTree, IsDocument
<1>11. Target(heap', m) /\ a = At(w, RuleAt(heap', m))
  <2>1. Target(heap', m) /\ RuleAt(heap', m) = RuleAt(heap, m)
    BY <1>1, <1>10, SameTarget DEF m
  <2> QED
    BY <2>1 DEF a, rule
<1>12. Sound(heap')
  <2>1. heap'[Source] \in Documents
    BY <1>1, <1>9 DEF RenderInv, DocumentInv
  <2> QED
    BY <2>1, DocumentIsSound
<1>13. Ready(heap, heap', w, m)
  BY <1>2, <1>3, <1>9, <1>11, <1>12 DEF Ready
<1>14. Rendered(heap', w, m)
  BY <1>7, <1>11, <1>13, MutationRenders
<1>15. Outcome(heap', Reads(heap', w), m)
  BY <1>2, <1>11, <1>12, <1>14, OutcomeOfCopy
<1> QED
  BY <1>7, <1>9, <1>11, <1>15 DEF m

(* Every step keeps the invariant, whichever worker makes it.              *)
LEMMA NextRenders ==
  ASSUME RenderInv, [Next]_vars, DocumentInv', AlertsInv'
  PROVE  RenderInv'
<1>0. \A w \in Workers : w # Source /\ w \in Copies
  BY SourceIsShared DEF Copies
<1>1. DOMAIN heap = Copies /\ DOMAIN pc = Workers /\ DOMAIN job = Workers /\ DOMAIN out = Workers
  BY DEF RenderInv, DocumentInv
<1> SUFFICES /\ DOMAIN job' = Workers /\ DOMAIN out' = Workers
             /\ \A v \in Workers : Rendering(v)'
  BY DEF RenderInv
<1>2. CASE UNCHANGED vars
  BY <1>1, <1>2, OthersRender DEF vars
<1>3. CASE Load
  <2>1. alerts = Nothing /\ UNCHANGED <<pc, job, out>>
    BY <1>3 DEF Load
  <2>2. ASSUME NEW v \in Workers PROVE pc[v] \notin {"failed", "edit", "encode", "done"}
    BY <2>1 DEF RenderInv, Rendering, IsLoaded
  <2> QED
    BY <1>1, <2>1, <2>2 DEF Rendering
<1>4. ASSUME NEW w \in Workers, BeginRender(w)
      PROVE  DOMAIN job' = Workers /\ DOMAIN out' = Workers /\ \A v \in Workers : Rendering(v)'
  <2>1. PICK alert \in alerts : \E x \in Mutations(alert) : job' = [job EXCEPT ![w] = x]
    BY <1>4 DEF BeginRender
  <2>0. PICK m \in Mutations(alert) : job' = [job EXCEPT ![w] = m]
    BY <2>1
  <2>2. /\ IsLoaded /\ alerts' = alerts /\ pc' = [pc EXCEPT ![w] = "edit"]
        /\ out' = [out EXCEPT ![w] = Nothing] /\ heap' = [heap EXCEPT ![w] = cloneNode(w)]
    BY <1>4 DEF BeginRender
  <2>3. /\ heap'[Source] = heap[Source] /\ heap'[w] = cloneNode(w) /\ pc'[w] = "edit"
        /\ job'[w] = m /\ DOMAIN job' = Workers /\ DOMAIN out' = Workers
    BY <1>0, <1>1, <2>0, <2>2
  <2>4. ASSUME NEW v \in Workers \ {w} PROVE Rendering(v)'
    <3>1. heap'[v] = heap[v] /\ pc'[v] = pc[v] /\ job'[v] = job[v] /\ out'[v] = out[v]
      BY <1>1, <2>0, <2>2
    <3> QED
      BY <2>2, <2>3, <3>1, OthersRender
  <2>5. Target(heap', m)
    <3>1. Target(heap, m)
      BY <2>2, MutationsAreTargets DEF RenderInv, AlertsInv, IsLoaded
    <3>2. SameTree(heap, heap', Source)
      BY <2>2, <2>3, LoadedIsComplete DEF SameTree, Complete, RenderInv, IsLoaded
    <3> QED
      BY <3>1, <3>2, SameTarget
  <2>6. heap'[w] = cloneNode(w)'
    <3>1. cloneNode(w)' = cloneNode(w)
      BY <2>3, Zenon DEF cloneNode
    <3> QED
      BY <2>3, <3>1
  <2>7. Rendering(w)'
    BY <2>2, <2>3, <2>5, <2>6 DEF Rendering, IsLoaded
  <2> QED
    BY <2>3, <2>4, <2>7
<1>5. ASSUME NEW w \in Workers, ApplyMutation(w)
      PROVE  DOMAIN job' = Workers /\ DOMAIN out' = Workers /\ \A v \in Workers : Rendering(v)'
  <2>1. /\ pc' = [pc EXCEPT ![w] = "encode"] /\ heap'[Source] = heap[Source]
        /\ \A v \in Workers \ {w} : heap'[v] = heap[v]
        /\ Target(heap', job[w]) /\ Outcome(heap', Reads(heap', w), job[w])
    BY <1>5, CloneIsMutated
  <2>2. alerts' = alerts /\ job' = job /\ out' = out /\ pc[w] = "edit"
    BY <1>5 DEF ApplyMutation
  <2>3. ASSUME NEW v \in Workers \ {w} PROVE Rendering(v)'
    BY <1>1, <2>1, <2>2, OthersRender
  <2>4. Rendering(w)'
    <3>1. IsLoaded' /\ pc'[w] = "encode"
      BY <1>1, <2>1, <2>2 DEF RenderInv, Rendering, IsLoaded
    <3> QED
      BY <2>1, <2>2, <3>1 DEF Rendering
  <2> QED
    BY <1>1, <2>2, <2>3, <2>4
<1>6. ASSUME NEW w \in Workers, Encode(w)
      PROVE  DOMAIN job' = Workers /\ DOMAIN out' = Workers /\ \A v \in Workers : Rendering(v)'
  <2>1. /\ pc[w] = "encode" /\ out' = [out EXCEPT ![w] = Reads(heap, w)]
        /\ heap' = [heap EXCEPT ![w] = Empty] /\ pc' = [pc EXCEPT ![w] = "done"]
        /\ alerts' = alerts /\ job' = job
    BY <1>6 DEF Encode
  <2>2. /\ heap'[Source] = heap[Source] /\ pc'[w] = "done" /\ out'[w] = Reads(heap, w)
        /\ DOMAIN out' = Workers
    BY <1>0, <1>1, <2>1
  <2>3. ASSUME NEW v \in Workers \ {w} PROVE Rendering(v)'
    <3>1. heap'[v] = heap[v] /\ pc'[v] = pc[v] /\ job'[v] = job[v] /\ out'[v] = out[v]
      BY <1>1, <2>1
    <3> QED
      BY <2>1, <2>2, <3>1, OthersRender
  <2>4. Rendering(w)'
    <3>1. IsLoaded /\ Target(heap, job[w]) /\ Outcome(heap, Reads(heap, w), job[w])
      BY <2>1 DEF RenderInv, Rendering
    <3>2. Complete(heap, Source) /\ SameTree(heap, heap', Source)
      BY <2>2, <3>1, LoadedIsComplete DEF SameTree, Complete, RenderInv, IsLoaded
    <3>3. Target(heap', job[w]) /\ Outcome(heap', Reads(heap, w), job[w])
      BY <3>1, <3>2, SameTarget, SameOutcome
    <3> QED
      BY <2>1, <2>2, <3>1, <3>3 DEF Rendering, IsLoaded
  <2> QED
    BY <1>1, <2>1, <2>2, <2>3, <2>4
<1> QED
  BY <1>2, <1>3, <1>4, <1>5, <1>6 DEF Next

(* It holds in every reachable state.                                      *)
LEMMA RenderInvariance == Spec => []RenderInv
<1>1. Init => RenderInv
  BY InitDocument DEF Init, AlertsInv, RenderInv, Rendering
<1>2. RenderInv /\ [Next]_vars => RenderInv'
  <2> SUFFICES ASSUME RenderInv, [Next]_vars PROVE RenderInv'
    OBVIOUS
  <2>1. DocumentInv'
    BY NextDocument DEF RenderInv
  <2>2. AlertsInv'
    BY <2>1, NextAlerts DEF RenderInv
  <2> QED
    BY <2>1, <2>2, NextRenders
<1> QED
  BY <1>1, <1>2, PTL DEF Spec

(* For all rule files with the assumptions above, all mutations and all    *)
(* workers: a render never fails; of a file without aliases, merges and    *)
(* null delays comes the file with the one change asked for; and of any    *)
(* other file comes one that promtool cannot read, or one in which only    *)
(* the mutated rule and rules that hold an alias or a merge are read       *)
(* differently.                                                            *)
THEOREM OnlySharedTextChanges == Spec => []OnlySharedTextFollows
<1>1. RenderInv => OnlySharedTextFollows
  <2> SUFFICES ASSUME RenderInv PROVE OnlySharedTextFollows
    OBVIOUS
  <2>1. Plain => Simple(heap)
    BY PlainIsNoSharing DEF Plain, NullDelays, Simple
  <2>2. ASSUME NEW i, NEW r PROVE Shares(heap, i, r) => Sharing(i, r)
    <3>1. OwnRule(heap, i, r) = RuleNode(i, r)
      <4>1. Groups(heap, Source) = Elements(heap, mappingValue(heap, Root(Source), "groups"))
        BY DEF Groups
      <4> QED
        BY <4>1 DEF OwnRule, RuleNode, RulesOf
    <3> QED
      BY <3>1 DEF Shares, Sharing, Aliases, Merges
  <2>3. ASSUME NEW m PROVE Wish(heap, m) = Intended(m)
    BY Zenon DEF Wish, Intended, Original, NewText
  <2>4. ASSUME NEW w \in Workers
        PROVE  /\ pc[w] # "failed"
               /\ pc[w] = "done" => Outcome(heap, out[w], job[w])
    BY DEF RenderInv, Rendering
  <2>5. ASSUME NEW w \in Workers, pc[w] = "done", Plain PROVE out[w] = Intended(job[w])
    BY <2>1, <2>3, <2>4, <2>5 DEF Outcome
  <2>6. ASSUME NEW w \in Workers, pc[w] = "done", out[w] # Nothing
        PROVE  /\ DOMAIN out[w] = DOMAIN Original
               /\ \A g \in DOMAIN Original : \A r \in DOMAIN Original[g] :
                    \/ out[w][g][r] = Original[g][r]
                    \/ Sharing(g, r)
                    \/ /\ <<g, r>> = <<job[w].group, job[w].rule>>
                       /\ out[w][g][r] = Intended(job[w])[g][r]
    BY <2>2, <2>3, <2>4, <2>6 DEF Outcome, Original
  <2> QED
    BY <2>4, <2>5, <2>6 DEF OnlySharedTextFollows
<1> QED
  BY <1>1, RenderInvariance, PTL
=============================================================================
