---------------------------- MODULE RuleDocument ----------------------------
(***************************************************************************)
(* internal/rules/file.go: a rule file as a tree of yaml.Node, loaded once *)
(* and rendered by all workers at the same time.                           *)
(*                                                                         *)
(* Memory is a set of trees: heap[Source] is File.document, heap[w] what   *)
(* worker w has cloned.  A pointer is a pair of a tree and a place in it,  *)
(* so that a clone could share nodes with its original.  A node has the    *)
(* fields kind, tag, value, anchor and content; a scalar map or list       *)
(* inside a rule (labels) is one scalar.  AliasNode.Alias is left out: no  *)
(* code follows it, and the encoder writes an alias by its name, its Value.*)
(***************************************************************************)
EXTENDS Integers, Sequences, FiniteSets, SequencesExt

CONSTANTS Workers,   (* the goroutines of the pool                         *)
          Source,    (* the loaded document                                *)
          Documents, (* contents of a rule file                            *)
          NewExprs,  (* mutated expressions                                *)
          Durations, (* texts that model.ParseDuration finds positive      *)
          NewDelays, (* contracted and expanded delays                     *)
          Nothing    (* nil, or no file                                    *)

ASSUME SourceIsShared == Source \notin Workers

(* A node of copy c, and a tree of such nodes that point to one another.   *)
IsNode(c, places, n) ==
  /\ n = [kind |-> n.kind, tag |-> n.tag, value |-> n.value, anchor |-> n.anchor,
          content |-> n.content]
  /\ n.content \in Seq({c} \X places)

IsTree(c, t) ==
  /\ <<>> \in DOMAIN t /\ t = [place \in DOMAIN t |-> t[place]]
  /\ \A place \in DOMAIN t : IsNode(c, DOMAIN t, t[place])

Kinds == {"mapping", "sequence", "scalar", "alias"}

(* yaml.Unmarshal shares no node: the place of a node is the path to it.   *)
(* A mapping has a value for each key, and only mappings and sequences     *)
(* have content, which is all they have.                                   *)
IsDocument(d) ==
  /\ IsTree(Source, d)
  /\ \A p \in DOMAIN d :
       /\ p \in Seq(Nat)
       /\ p = <<>> \/ \E q \in DOMAIN d : \E i \in DOMAIN d[q].content : p = Append(q, i)
       /\ \A i \in DOMAIN d[p].content : d[p].content[i] = <<Source, Append(p, i)>>
       /\ d[p].kind \in Kinds
       /\ d[p].kind = "mapping" => Len(d[p].content) % 2 = 0
       /\ IF d[p].kind \in {"mapping", "sequence"} THEN d[p].value = ""
          ELSE d[p].content = <<>>

ASSUME DocumentsAreTrees == \A d \in Documents : IsDocument(d)
ASSUME ChangesAreTexts == "" \notin NewExprs \cup NewDelays

VARIABLES document,  (* the file on disk                                   *)
          alerts,    (* File.Alerts; Nothing before Load, {} when refused  *)
          heap,      (* the trees                                          *)
          pc,        (* worker -> "idle", "edit", "encode", "failed", "done" *)
          job,       (* worker -> the mutation of its Render               *)
          out        (* worker -> its rendered file, as promtool reads it   *)

vars == <<document, alerts, heap, pc, job, out>>

Copies == {Source} \cup Workers
Root(c) == <<c, <<>>>>
Empty == [place \in {} |-> Nothing]

ASSUME NothingIsNoNode == Nothing \notin Copies \X Seq(Nat)

Init ==
  /\ document \in Documents
  /\ alerts = Nothing
  /\ heap = [c \in Copies |-> Empty]
  /\ pc = [w \in Workers |-> "idle"]
  /\ job = [w \in Workers |-> Nothing]
  /\ out = [w \in Workers |-> Nothing]

-----------------------------------------------------------------------------
(* Nodes.                                                                  *)

Node(h, a) == h[a[1]][a[2]]

KeyAt(h, a, i) == Node(h, Node(h, a).content[i]).value

(* The positions of the keys of a mapping: every other entry.              *)
KeyPositions(h, a) == {i \in 1..(Len(Node(h, a).content) - 1) : i % 2 = 1}

Position(h, a, key) ==
  LET hits == {i \in KeyPositions(h, a) : KeyAt(h, a, i) = key}
  IN  IF hits = {} THEN 0 ELSE Min(hits)

mappingValue(h, a, key) ==
  IF a = Nothing THEN Nothing
  ELSE IF Node(h, a).kind # "mapping" \/ Position(h, a, key) = 0 THEN Nothing
  ELSE Node(h, a).content[Position(h, a, key) + 1]

scalarValue(h, a) ==
  IF a = Nothing THEN ""
  ELSE IF Node(h, a).kind # "scalar" THEN "" ELSE Node(h, a).value

IsKind(h, a, kind) == a # Nothing /\ Node(h, a).kind = kind

-----------------------------------------------------------------------------
(* Load.                                                                   *)

(* Mutant: alerts are numbered as they are found.                          *)
RuleIndexCounted(found, r) == Cardinality({q \in found : q <= r})

(* Rules that are no alerts keep their index.                              *)
RuleIndex(found, r) == r

(* The alerts of a group; what is not a mapping or a sequence is skipped.  *)
AlertsOfGroup(h, g, group) ==
  LET list  == mappingValue(h, group, "rules")
      rules == IF IsKind(h, group, "mapping") /\ IsKind(h, list, "sequence")
               THEN Node(h, list).content ELSE <<>>
      field(r, key) == scalarValue(h, mappingValue(h, rules[r], key))
      found == {r \in DOMAIN rules :
                  IsKind(h, rules[r], "mapping") /\ field(r, "alert") # ""}
      alert(r) == [group |-> g, rule |-> RuleIndex(found, r),
                   name |-> field(r, "alert"), expr |-> field(r, "expr"),
                   for  |-> field(r, "for")]
  IN  {alert(r) : r \in found}

(* The alerts of a document, or none when Load returns an error.  Their    *)
(* order is left out: they are told apart by their indices.                *)
Loaded(h) ==
  LET groups == mappingValue(h, Root(Source), "groups")
      list   == Node(h, groups).content
      found  == IF IsKind(h, groups, "sequence")
                THEN UNION {AlertsOfGroup(h, g, list[g]) : g \in DOMAIN list} ELSE {}
  IN  IF \E a \in found : a.expr = "" THEN {} ELSE found

Load ==
  /\ alerts = Nothing
  /\ heap' = [heap EXCEPT ![Source] = document]
  /\ alerts' = Loaded(heap')
  /\ UNCHANGED <<document, pc, job, out>>

-----------------------------------------------------------------------------
(* Render.                                                                 *)

IsLoaded == alerts \notin {Nothing, {}}

(* The mutations of an alert: its expression, or its delay.                *)
Mutations(alert) ==
  LET same == [group |-> alert.group, rule |-> alert.rule,
               expr |-> "", for |-> "", removeFor |-> FALSE]
  IN  {[same EXCEPT !.expr = e] : e \in NewExprs}
      \cup (IF alert.for = "" THEN {[same EXCEPT !.for = "5m"]}
            ELSE IF alert.for \in Durations
            THEN {[same EXCEPT !.removeFor = TRUE]}
                 \cup {[same EXCEPT !.for = d] : d \in NewDelays}
            ELSE {})

(* Mutant: only the root is copied, its children are shared.               *)
cloneNodeShallow(c) == heap[Source]

cloneNode(c) ==
  [place \in DOMAIN heap[Source] |->
    [heap[Source][place] EXCEPT
      !.content = [i \in DOMAIN @ |-> <<c, @[i][2]>>]]]

BeginRender(w) ==
  /\ IsLoaded /\ pc[w] \in {"idle", "failed", "done"}
  /\ \E alert \in alerts : \E m \in Mutations(alert) : job' = [job EXCEPT ![w] = m]
  /\ heap' = [heap EXCEPT ![w] = cloneNode(w)]
  /\ pc' = [pc EXCEPT ![w] = "edit"]
  /\ out' = [out EXCEPT ![w] = Nothing]
  /\ UNCHANGED <<document, alerts>>

(* locateRule; Nothing when an index is out of range.                      *)
locateRule(h, c, m) ==
  LET groups == mappingValue(h, Root(c), "groups")
      group  == IF groups # Nothing /\ m.group \in DOMAIN Node(h, groups).content
                THEN Node(h, groups).content[m.group] ELSE Nothing
      list   == mappingValue(h, group, "rules")
  IN  IF list # Nothing /\ m.rule \in DOMAIN Node(h, list).content
      THEN Node(h, list).content[m.rule] ELSE Nothing

SetValue(h, a, value) == [h EXCEPT ![a[1]][a[2]].value = value]

Scalar(value) ==
  [kind |-> "scalar", tag |-> "str", value |-> value, anchor |-> "", content |-> <<>>]

setMappingScalar(h, a, key, value) ==
  LET existing == mappingValue(h, a, key)
      n == Len(Node(h, a).content)
      k == Append(a[2], n + 1)
      v == Append(a[2], n + 2)
      tree == [h[a[1]] EXCEPT ![a[2]].content = @ \o <<<<a[1], k>>, <<a[1], v>>>>]
  IN  IF existing # Nothing THEN SetValue(h, existing, value)
      ELSE [h EXCEPT ![a[1]] =
             [place \in DOMAIN tree \cup {k, v} |->
               IF place = k THEN Scalar(key) ELSE IF place = v THEN Scalar(value)
               ELSE tree[place]]]

(* Mutant: the key goes, its value stays.                                  *)
removeMappingKeyOnly(h, a, key) ==
  LET i == Position(h, a, key)
  IN  IF i = 0 THEN h ELSE [h EXCEPT ![a[1]][a[2]].content = RemoveAt(@, i)]

removeMappingKey(h, a, key) ==
  LET i == Position(h, a, key)
  IN  IF i = 0 THEN h
      ELSE [h EXCEPT ![a[1]][a[2]].content = RemoveAt(RemoveAt(@, i), i)]

(* An index out of range or a rule without expr is an error: no file.      *)
Refused(h, a, m) == a = Nothing \/ (m.expr # "" /\ mappingValue(h, a, "expr") = Nothing)

(* One mutation of the rule at an address.                                 *)
Mutated(h, a, m) ==
  LET h1 == IF m.expr = "" THEN h ELSE SetValue(h, mappingValue(h, a, "expr"), m.expr)
  IN  IF m.removeFor THEN removeMappingKey(h1, a, "for")
      ELSE IF m.for # "" THEN setMappingScalar(h1, a, "for", m.for)
      ELSE h1

ApplyMutation(w) ==
  LET rule == locateRule(heap, w, job[w])
  IN  /\ pc[w] = "edit"
      /\ IF Refused(heap, rule, job[w])
         THEN pc' = [pc EXCEPT ![w] = "failed"] /\ heap' = [heap EXCEPT ![w] = Empty]
         ELSE pc' = [pc EXCEPT ![w] = "encode"] /\ heap' = Mutated(heap, rule, job[w])
      /\ UNCHANGED <<document, alerts, job, out>>

-----------------------------------------------------------------------------
(* External: a tree written by the encoder and read by promtool.  An alias *)
(* means the node that carries its name as an anchor; "<<" merges a        *)
(* mapping behind the fields of another; a field left out is empty.        *)

Fields == {"alert", "record", "expr", "for", "labels"}

(* What an edit takes out of a mapping is written no more; it has no       *)
(* content of its own.                                                     *)
Tree(h, c) == {Root(c)} \cup UNION {Range(h[c][place].content) : place \in DOMAIN h[c]}

Anchored(h, c, name) == {a \in Tree(h, c) : Node(h, a).anchor = name}

(* An unknown alias, a key twice in a mapping, and a value under the tag   *)
(* of null are errors.                                                     *)
Readable(h, c) ==
  \A a \in Tree(h, c) :
    LET n == Node(h, a) IN
    /\ n.kind = "alias" => Anchored(h, c, n.value) # {}
    /\ n.tag = "null" => n.value = ""
    /\ n.kind = "mapping" =>
         \A i, j \in KeyPositions(h, a) : KeyAt(h, a, i) = KeyAt(h, a, j) => i = j

(* The baseline has made promtool read every document before one is        *)
(* rendered; a delay is a scalar to it.  No two anchors have one name      *)
(* (YAML would let the later one take over the name).                      *)
ASSUME DocumentsAreRead ==
  \A d \in Documents :
    LET h == [c \in {Source} |-> d]
    IN  /\ Readable(h, Source)
        /\ \A a \in Tree(h, Source) :
             LET delay == mappingValue(h, a, "for")
             IN  /\ ~IsKind(h, delay, "mapping") /\ ~IsKind(h, delay, "sequence")
                 /\ IsKind(h, a, "alias") => Node(h, a).value # ""
                 /\ Node(h, a).anchor # "" => Anchored(h, Source, Node(h, a).anchor) = {a}

Follow(h, c, a) ==
  IF IsKind(h, a, "alias") THEN CHOOSE t \in Anchored(h, c, Node(h, a).value) : TRUE ELSE a

Field(h, c, a, key) ==
  LET own    == mappingValue(h, a, key)
      merged == mappingValue(h, Follow(h, c, mappingValue(h, a, "<<")), key)
  IN  Follow(h, c, IF own # Nothing THEN own ELSE merged)

Elements(h, a) == IF IsKind(h, a, "sequence") THEN Node(h, a).content ELSE <<>>

Reads(h, c) ==
  LET groups == Elements(h, Field(h, c, Root(c), "groups"))
      list(g) == Elements(h, Field(h, c, Follow(h, c, groups[g]), "rules"))
  IN  IF ~Readable(h, c) THEN Nothing
      ELSE [g \in DOMAIN groups |-> [r \in DOMAIN list(g) |->
             [k \in Fields |-> scalarValue(h, Field(h, c, Follow(h, c, list(g)[r]), k))]]]

Encode(w) ==
  /\ pc[w] = "encode"
  /\ out' = [out EXCEPT ![w] = Reads(heap, w)]
  /\ heap' = [heap EXCEPT ![w] = Empty]
  /\ pc' = [pc EXCEPT ![w] = "done"]
  /\ UNCHANGED <<document, alerts, job>>

Next ==
  \/ Load
  \/ \E w \in Workers : BeginRender(w) \/ ApplyMutation(w) \/ Encode(w)

Spec == Init /\ [][Next]_vars

-----------------------------------------------------------------------------
(* Properties.                                                             *)

Original == Reads(heap, Source)

(* The file as it should be after a mutation.                              *)
Intended(m) ==
  [Original EXCEPT ![m.group][m.rule] =
     IF m.expr # "" THEN [@ EXCEPT !.expr = m.expr] ELSE [@ EXCEPT !.for = m.for]]

(* Rules whose text holds an alias or a merge; files without either and    *)
(* without a `for` that is null, whose tag would stay with the new value.  *)
RuleNode(g, r) ==
  LET groups == Elements(heap, mappingValue(heap, Root(Source), "groups"))
      rules  == IF g \notin DOMAIN groups THEN <<>>
                ELSE Elements(heap, mappingValue(heap, groups[g], "rules"))
  IN  IF r \in DOMAIN rules THEN rules[r] ELSE Nothing
Aliases == {a \in Tree(heap, Source) : Node(heap, a).kind = "alias"}
Merges  == {a \in Tree(heap, Source) : mappingValue(heap, a, "<<") # Nothing}
Sharing(g, r) ==
  LET rule == RuleNode(g, r)
  IN  \/ rule = Nothing \/ rule \in Merges
      \/ \E a \in Aliases : a = rule \/ a \in Range(Node(heap, rule).content)
NullDelays == {a \in Tree(heap, Source) :
                 LET v == mappingValue(heap, a, "for")
                 IN  IsKind(heap, v, "scalar") /\ Node(heap, v).tag = "null"}
Plain == Aliases = {} /\ Merges = {} /\ NullDelays = {}

(* Every pointer of a copy stays in the copy, and a worker that edits or   *)
(* encodes has one.                                                        *)
CopiesApart ==
  /\ \A c \in Copies : \A place \in DOMAIN heap[c] :
       \A i \in DOMAIN heap[c][place].content :
         /\ heap[c][place].content[i][1] = c
         /\ heap[c][place].content[i][2] \in DOMAIN heap[c]
  /\ \A w \in Workers : pc[w] \in {"edit", "encode"} => <<>> \in DOMAIN heap[w]

(* README.md:159, "The source rules and tests are never edited": the       *)
(* document that all workers share is what was loaded, whatever they       *)
(* render at the same time, for none holds a pointer into it.              *)
SourceIntact == CopiesApart /\ (alerts # Nothing => heap[Source] = document)

(* The alerts of a document without aliases and merges are those that      *)
(* promtool sees, at the indices, with the expression and delay it sees.   *)
AlertsOfPlainFilesLoaded ==
  IsLoaded /\ Plain =>
    {<<a.group, a.rule, a.name, a.expr, a.for>> : a \in alerts}
      = UNION {{<<g, r, Original[g][r].alert, Original[g][r].expr, Original[g][r].for>> :
                  r \in {n \in DOMAIN Original[g] : Original[g][n].alert # ""}} :
                 g \in DOMAIN Original}

(* docs/architecture.md:101, as far as it goes: while other workers render *)
(* from the same document, a file without aliases and merges comes out     *)
(* readable with the one change asked for; in any file that comes out      *)
(* readable, only the mutated rule and rules that hold one have changed.   *)
OnlySharedTextFollows ==
  \A w \in Workers :
    /\ pc[w] # "failed"
    /\ pc[w] = "done" /\ Plain => out[w] = Intended(job[w])
    /\ pc[w] = "done" /\ out[w] # Nothing =>
         /\ DOMAIN out[w] = DOMAIN Original
         /\ \A g \in DOMAIN Original : \A r \in DOMAIN Original[g] :
              \/ out[w][g][r] = Original[g][r]
              \/ Sharing(g, r)
              \/ /\ <<g, r>> = <<job[w].group, job[w].rule>>
                 /\ out[w][g][r] = Intended(job[w])[g][r]
=============================================================================
