------------------------------- MODULE MirWto -------------------------------
(***************************************************************************)
(* The weak topological order mirchecker iterates a function in            *)
(* (src/tools/mirchecker/src/analysis/wto.rs).                             *)
(*                                                                         *)
(* An order is written flat: a sequence of the blocks, each with the       *)
(* number of blocks behind it that are in the circle it is the head of.    *)
(* A graph maps each block to the list of its successors.                  *)
(***************************************************************************)
EXTENDS Integers, SequencesExt

VertexOf(b) == [block |-> b, loop |-> FALSE, size |-> 0]
CircleOf(b, body) == <<[block |-> b, loop |-> TRUE, size |-> Len(body)]>> \o body

(* The discovery number of a block whose component is complete.            *)
Closed == 100000

(* The blocks of the stack above v, and the stack below it.                *)
Above(stack, v) == {stack[i] : i \in {i \in DOMAIN stack : \E j \in 1 .. i - 1 : stack[j] = v}}
Under(stack, v) == SelectSeq(stack, LAMBDA w : w # v /\ w \notin Above(stack, v))

(* Slip for Reopened: the blocks of a circle are not visited again.        *)
ReopenedNot(st, v) ==
  [st EXCEPT !.dfn = [@ EXCEPT ![v] = Closed], !.stack = Under(@, v)]

(* The head v of a circle is closed, its other blocks are to be visited    *)
(* again, and all of them leave the stack.                                 *)
Reopened(st, v) ==
  [st EXCEPT
     !.dfn = [w \in DOMAIN @ |-> IF w = v THEN Closed
                                 ELSE IF w \in Above(st.stack, v) THEN 0 ELSE @[w]],
     !.stack = Under(@, v)]

(* Wto::visit and Wto::component.  The state has the numbers, the stack,   *)
(* the last number, the partition that is being filled (from the back) and *)
(* the number visit() returned.                                            *)
RECURSIVE Visit(_, _, _)

Component(g, v, st) ==
  LET inside ==
        FoldLeft(LAMBDA s, w : IF s.dfn[w] = 0 THEN Visit(g, w, s) ELSE s,
                 [st EXCEPT !.part = << >>], g[v])
  IN [inside EXCEPT !.part = CircleOf(v, inside.part) \o st.part]

Visit(g, v, st) ==
  LET me == st.num + 1
      Look(seen, w) ==
        LET s == IF seen.st.dfn[w] = 0 THEN Visit(g, w, seen.st)
                 ELSE [seen.st EXCEPT !.min = seen.st.dfn[w]]
        IN IF s.min <= seen.head THEN [st |-> s, head |-> s.min, loop |-> TRUE]
           ELSE [seen EXCEPT !.st = s]
      all == FoldLeft(Look,
               [st |-> [st EXCEPT !.stack = Append(@, v), !.num = me, !.dfn = [@ EXCEPT ![v] = me]],
                head |-> me, loop |-> FALSE],
               g[v])
      closing == all.head = all.st.dfn[v]
      closed ==
        IF ~ closing THEN all.st
        ELSE IF all.loop THEN Component(g, v, Reopened(all.st, v))
        ELSE [all.st EXCEPT !.dfn = [@ EXCEPT ![v] = Closed],
                            !.stack = Front(@),
                            !.part = <<VertexOf(v)>> \o @]
  IN [closed EXCEPT !.min = all.head]

(* Wto::new.                                                               *)
Wto(g) ==
  Visit(g, 0, [dfn |-> [b \in DOMAIN g |-> 0], stack |-> << >>, num |-> 0,
               part |-> << >>, min |-> 0]).part
=============================================================================
