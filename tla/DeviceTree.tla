---------------------------- MODULE DeviceTree ----------------------------
(***************************************************************************)
(* What libfdt promises about a device tree, whatever the bytes: a         *)
(* document of tokens that is written front to back while it is built, and *)
(* edited by node and property once it is complete.  A document lists, for *)
(* every node, its begin token, its properties, its subnodes and its end   *)
(* token.                                                                  *)
(***************************************************************************)
EXTENDS Integers, Sequences

CONSTANTS
    NodeNames, PropNames, Reservations,
    Values,         \* the values a property of each name is given
    Given           \* complete trees from elsewhere, as records [rsv, doc]

VARIABLES
    phase,          \* "memrsv", "struct", "complete" or "damaged"
    rsv,            \* reserved memory ranges
    doc             \* the document

vars == <<phase, rsv, doc>>

BeginTok(name) == [kind |-> "begin", name |-> name]
PropTok(name, value) == [kind |-> "prop", name |-> name, value |-> value]
EndTok == [kind |-> "end"]

\* A sequence whose items i .. j are replaced by those of s
Spliced(q, i, j, s) == SubSeq(q, 1, i - 1) \o s \o SubSeq(q, j + 1, Len(q))

Count(d, kind, i, j) == Len(SelectSeq(SubSeq(d, i, j), LAMBDA t : t.kind = kind))
Depth(d, i) == Count(d, "begin", 1, i) - Count(d, "end", 1, i)

Nodes(d) == {i \in DOMAIN d : d[i].kind = "begin"}

\* Where the node that begins at i ends
NodeEndOf(d, i) ==
    CHOOSE j \in i .. Len(d) :
        /\ Count(d, "begin", i, j) = Count(d, "end", i, j)
        /\ \A k \in i .. j - 1 : Count(d, "begin", i, k) # Count(d, "end", i, k)

\* The properties of a node stand behind its begin token
PropsOf(d, i) == {j \in i + 1 .. Len(d) : \A k \in i + 1 .. j : d[k].kind = "prop"}
Named(d, i, name) == {j \in PropsOf(d, i) : d[j].name = name}
----------------------------------------------------------------------------
Init ==
    \/ phase = "memrsv" /\ rsv = <<>> /\ doc = <<>>
    \/ phase = "complete" /\ \E t \in Given : rsv = t.rsv /\ doc = t.doc

Build(p, q, r, d) ==
    /\ phase = p
    /\ phase' = q
    /\ rsv' = r
    /\ doc' = d

\* Edits of the document or of the reservations of a complete tree
Edit(d) == Build("complete", "complete", rsv, d)

AddReserved == \E r \in Reservations : Build("memrsv", "memrsv", Append(rsv, r), doc)
EndReserved == Build("memrsv", "struct", rsv, doc)
Begin == \E n \in NodeNames : Build("struct", "struct", rsv, Append(doc, BeginTok(n)))
Property ==
    \E n \in PropNames : \E v \in Values[n] :
        Build("struct", "struct", rsv, Append(doc, PropTok(n, v)))
EndNode == Build("struct", "struct", rsv, Append(doc, EndTok))
Finish == Build("struct", "complete", rsv, doc)

\* The first property of a name gets a value; a new one comes first
SetProp ==
    \E i \in Nodes(doc), n \in PropNames : \E v \in Values[n] :
        \/ /\ Named(doc, i, n) = {}
           /\ Edit(Spliced(doc, i + 1, i, <<PropTok(n, v)>>))
        \/ \E j \in Named(doc, i, n) :
             /\ \A k \in Named(doc, i, n) : j <= k
             /\ \E w \in {v, doc[j].value \o v} : Edit([doc EXCEPT ![j].value = w])

DelProp == \E i \in Nodes(doc) : \E j \in PropsOf(doc, i) : Edit(Spliced(doc, j, j, <<>>))

\* A new node comes behind its parent's properties, in front of its siblings
AddNode ==
    \E i \in Nodes(doc), n \in NodeNames :
        \E j \in PropsOf(doc, i) \cup {i} :
            /\ \A k \in PropsOf(doc, i) : k <= j
            /\ Edit(Spliced(doc, j + 1, j, <<BeginTok(n), EndTok>>))

DelNode == \E i \in Nodes(doc) : Edit(Spliced(doc, i, NodeEndOf(doc, i), <<>>))
SetName == \E i \in Nodes(doc), n \in NodeNames : Edit([doc EXCEPT ![i].name = n])

Reserve ==
    \/ \E r \in Reservations : Build("complete", "complete", Append(rsv, r), doc)
    \/ \E i \in DOMAIN rsv : Build("complete", "complete", Spliced(rsv, i, i, <<>>), doc)

\* The names from the root to a node
PathTo(d, i) ==
    [k \in 1 .. Depth(d, i) |->
        d[CHOOSE j \in Nodes(d) :
            /\ j <= i
            /\ Depth(d, j) = k
            /\ \A m \in j + 1 .. i : m \in Nodes(d) => Depth(d, m) > k].name]
Paths(d) == {PathTo(d, i) : i \in Nodes(d)}

\* An overlay adds to a tree and removes no node, or it leaves a tree that is
\* not to be read; then a new one may be started
Merge ==
    /\ phase = "complete"
    /\ rsv' = rsv
    /\ \/ phase' = "complete" /\ Paths(doc) \subseteq Paths(doc')
       \/ phase' = "damaged"
StartOver ==
    /\ phase = "damaged"
    /\ rsv' = <<>>
    /\ \/ phase' = "memrsv" /\ doc' = <<>>
       \/ phase' = "complete" /\ doc' = <<BeginTok(<<>>), EndTok>>

Next ==
    \/ AddReserved \/ EndReserved \/ Begin \/ Property \/ EndNode \/ Finish
    \/ SetProp \/ DelProp \/ AddNode \/ DelNode \/ SetName \/ Reserve
    \/ Merge \/ StartOver

Spec == Init /\ [][Next]_vars
============================================================================
