--------------------------- MODULE MCFFIFixpoint ---------------------------
(* Instances of FFIFixpoint for TLC.                                       *)
EXTENDS FFIFixpoint

CONSTANTS
  Graphs,  \* control-flow graphs of the functions that are analysed
  Entry    \* effects of their entry blocks

(* Effects that keep all facts, add one or drop all, one in which a fact   *)
(* depends on another one, and one that is not monotone: like a borrow of  *)
(* what may be forgotten it replaces facts by others.                      *)
Sample ==
  {[s \in State |-> s \union gen] : gen \in {{}} \union {{x} : x \in Fact}}
    \union {[s \in State |-> {}]}
    \union {[s \in State |-> IF "given" \in s THEN Fact ELSE s],
            [s \in State |-> IF s = {} THEN {"given"} ELSE Fact \ s]}

(* The entry block is given one state only, so its constant effects stand  *)
(* for all of them.                                                        *)
Constant == {f \in Transfer : \A s \in State : f[s] = f[{}]}

(* The graphs in which the entry reaches every block.                      *)
Connected ==
  {g \in [Block -> SUBSET (Block \ {0})] :
     \A S \in SUBSET Block : 0 \in S /\ (\A b \in S : g[b] \subseteq S) => S = Block}

MCInit ==
  /\ init = {}
  /\ succ \in Graphs
  /\ \E entry \in Entry, rest \in [Block \ {0} -> Transfer] :
       effect = [b \in Block |-> IF b = 0 THEN entry ELSE rest[b]]
  /\ Init
MCSpec == MCInit /\ [][Next]_vars /\ WF_vars(Next)
=============================================================================
