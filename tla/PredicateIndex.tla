--------------------------- MODULE PredicateIndex ---------------------------
(***************************************************************************)
(* The predicate indexes of a schema vertex (SQLTableIndex.cpp): given the *)
(* value of the indexed field in a changed row, they return the ids of the *)
(* cached tables whose parameters the row may match.                      *)
(*                                                                         *)
(* An index is a record: eq is SQLTableEqualIndex's hash map (a function   *)
(* from the keys present to the ids added under them); low is the sorted   *)
(* node vector of SQLTableNoEqualIndex, or m_lowIndex of                   *)
(* SQLTableBetweenIndex, whose m_highIndex is high.  A node is a key and   *)
(* the ids added under it.  Vectors count from 0, sequences from 1.       *)
(* op is the operator of the vertex's index condition.  Keys and values   *)
(* are MyVariants, compared by MyVariant's operators.                     *)
(***************************************************************************)
EXTENDS Integers, Sequences, FiniteSets, SequencesExt, MyVariant

Ops == {"=", ">", ">=", "<", "<=", "BETWEEN"}

EmptyIndex == [eq |-> <<>>, low |-> <<>>, high |-> <<>>]

\* GreaterOperator::compare and LesserOperator::compare
GreaterCompare(incl, a, b) == IF incl THEN VGreaterEq(a, b) ELSE VGreater(a, b)
LesserCompare(incl, a, b) == IF incl THEN VLessEq(a, b) ELSE VLess(a, b)

\* BetweenOperator::compare and InOperator::compare of a value against the
\* parameters of the condition
BetweenCompare(a, ps) == VGreaterEq(a, ps[1]) /\ VLessEq(a, ps[2])
InCompare(a, ps) == \E i \in DOMAIN ps : VEqual(ps[i], a)

\* BinaryCompareOperator::buildOperator(op): the comparator's class and
\* its includeEqual; the parser hands it "<" and "<=" for op[0] == '<'
BuildOperator(op) ==
    CASE op = "=" -> [cls |-> "Equal", incl |-> FALSE]
      [] op = "<>" -> [cls |-> "UnEqual", incl |-> FALSE]
      [] op \in {"<", "<="} -> [cls |-> "Lesser", incl |-> op = "<="]
      [] op \in {">", ">="} -> [cls |-> "Greater", incl |-> op = ">="]
      [] op = "BETWEEN" -> [cls |-> "Between", incl |-> FALSE]
      [] op = "IN" -> [cls |-> "In", incl |-> FALSE]

\* ConstCondition::match(): with one parameter the comparator's
\* compare(v1, v2), with several compare(v1, v2s); BetweenOperator and
\* InOperator answer false to the first, the others to the second
Match(op, v, ps) ==
    LET c == BuildOperator(op)
    IN IF Len(ps) = 1
       THEN CASE c.cls = "Equal" -> VEqual(v, ps[1])
              [] c.cls = "UnEqual" -> ~VEqual(v, ps[1])
              [] c.cls = "Lesser" -> LesserCompare(c.incl, v, ps[1])
              [] c.cls = "Greater" -> GreaterCompare(c.incl, v, ps[1])
              [] OTHER -> FALSE
       ELSE CASE c.cls = "Between" -> BetweenCompare(v, ps)
              [] c.cls = "In" -> InCompare(v, ps)
              [] OTHER -> FALSE

\* locate(v, matched): binary search of the sorted nodes between left and
\* right (0-based); the position of v, or where it would be inserted
RECURSIVE LocateLoop(_, _, _, _)
LocateLoop(nodes, v, left, right) ==
    IF left > right THEN [pos |-> left, matched |-> FALSE]
    ELSE LET mid == left + (right - left) \div 2
             k == nodes[mid + 1].key
         IN IF VEqual(k, v) THEN [pos |-> mid, matched |-> TRUE]
            ELSE LocateLoop(nodes, v, IF VCompare(k, v) < 0 THEN mid + 1 ELSE left,
                                      IF VCompare(k, v) < 0 THEN right ELSE mid - 1)

Locate(nodes, v) == LocateLoop(nodes, v, 0, Len(nodes) - 1)

\* add(k, tableId) of the sorted indexes: a node for k is inserted where
\* locate() puts it, and the id appended to it
AddNode(nodes, k, id) ==
    LET l == Locate(nodes, k)
        withNode == IF l.matched THEN nodes
                    ELSE InsertAt(nodes, l.pos + 1, [key |-> k, ids |-> <<>>])
    IN [withNode EXCEPT ![l.pos + 1].ids = Append(@, id)]

\* m_index.find(k) of the unordered_map: a key in k's bucket that equals
\* it.  Keys whose hashes differ are taken to sit in different buckets.
EqFound(m, k) == {x \in DOMAIN m : VHash(x) = VHash(k) /\ VEqual(x, k)}

AddEqOverwrite(m, k, id) ==
    [x \in DOMAIN m \cup {k} |-> IF x = k THEN <<id>> ELSE m[x]]

\* SQLTableEqualIndex::add(k, tableId)
AddEq(m, k, id) ==
    IF EqFound(m, k) # {} THEN [m EXCEPT ![CHOOSE x \in EqFound(m, k) : TRUE] = Append(@, id)]
    ELSE [x \in DOMAIN m \cup {k} |-> IF x = k THEN <<id>> ELSE m[x]]

\* the ids of the nodes s .. e (0-based) in order
IdsOf(nodes, s, e) ==
    FlattenSeq([j \in 1 .. (IF e >= s THEN e - s + 1 ELSE 0) |->
                  nodes[s + j].ids])

\* SQLTableNoEqualIndex::find(k): from the located node to the end for a
\* greater index (past it when matched and not isEqual), from the start
\* to before it for a less index (to it when matched and isEqual)
NoEqualFind(nodes, v, isGreater, isEqual) ==
    LET l == Locate(nodes, v)
    IN IF isGreater
       THEN IdsOf(nodes, IF l.matched /\ ~isEqual THEN l.pos + 1 ELSE l.pos,
                  Len(nodes) - 1)
       ELSE IdsOf(nodes, 0,
                  IF ~l.matched \/ ~isEqual THEN l.pos - 1 ELSE l.pos)

\* SQLTableBetweenIndex::find(isLow, k): low from the located node to the
\* end, high from the start to the located node, inclusive even when it
\* did not match; past the last node that reads outside the vector
BetweenHalf(nodes, v, isLow) ==
    LET l == Locate(nodes, v)
        e == IF isLow THEN Len(nodes) - 1 ELSE l.pos
    IN [ids |-> ToSet(IdsOf(nodes, IF isLow THEN l.pos ELSE 0,
                            IF e < Len(nodes) THEN e ELSE Len(nodes) - 1)),
        oob |-> e >= Len(nodes)]

\* SQLTableIndexFactory::createIndex(kind) then find(k): the possible
\* results, one sequence of ids for each order the index can return
\* them in (SQLTableBetweenIndex walks an unordered_set), and whether the
\* search read outside a node vector
IndexFind(op, ix, v) ==
    CASE op = "=" ->
           [orders |-> {IF EqFound(ix.eq, v) # {}
                         THEN ix.eq[CHOOSE x \in EqFound(ix.eq, v) : TRUE] ELSE <<>>},
            oob |-> FALSE]
      [] op \in {">", ">="} ->
           [orders |-> {NoEqualFind(ix.low, v, TRUE, op = ">=")}, oob |-> FALSE]
      [] op \in {"<", "<="} ->
           [orders |-> {NoEqualFind(ix.low, v, FALSE, op = "<=")}, oob |-> FALSE]
      [] op = "BETWEEN" ->
           LET lo == BetweenHalf(ix.low, v, TRUE)
               hi == BetweenHalf(ix.high, v, FALSE)
           IN [orders |-> SetToSeqs(lo.ids \cap hi.ids), oob |-> hi.oob]

\* SQLSchemaVertex::addTableToIndex(table, tableId): BETWEEN adds the
\* bound pair, the other conditions add their one parameter; the equal
\* index ignores the pair form and the sorted ones the single form
IndexAdd(op, ix, ps, id) ==
    CASE op = "=" -> [ix EXCEPT !.eq = AddEq(@, ps[1], id)]
      [] op = "BETWEEN" -> [ix EXCEPT !.low = AddNode(@, ps[1], id),
                                      !.high = AddNode(@, ps[2], id)]
      [] OTHER -> [ix EXCEPT !.low = AddNode(@, ps[1], id)]

====
