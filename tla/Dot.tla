--------------------------------- MODULE Dot ---------------------------------
(***************************************************************************)
(* The serializer of src/CFGGenerator.py: ControlFlowGraph.to_dot with     *)
(* BasicBlock.get_id and get_label.  to_dot reads the graph and returns    *)
(* the DOT text; it changes no state, so it is a pure operator here.       *)
(*                                                                         *)
(* Data abstraction.  The document is a record of its statements: the      *)
(* function name of the header, one node statement per block and one edge  *)
(* statement per edge, in the order the two loops emit them.  The fixed    *)
(* header lines (rankdir, node shape) and the layout are left out.  A node *)
(* id "block_<hex start>" is the pair <<"block", start>> (the formatting   *)
(* is injective); a label is its sequence of lines                         *)
(* "0x<address>: <mnemonic> <operands>", each line the triple of its      *)
(* three fields.  An edge statement without label="..." has label "".      *)
(***************************************************************************)
EXTENDS Sequences

(* BasicBlock.get_id, for the block starting at address. *)
BlockId(address) == <<"block", address>>

get_id(b) == BlockId(b.start_address)

(* BasicBlock.get_label: one line per instruction, joined by "\n". *)
get_label(b) ==
    [k \in DOMAIN b.instructions |->
        <<b.instructions[k].address, b.instructions[k].mnemonic,
          b.instructions[k].operands>>]

(* The fill colour of a node: the if/elif chain on block_type. *)
NodeColor(block_type) ==
    CASE block_type = "entry"       -> "lightblue"
      [] block_type = "return"      -> "lightcoral"
      [] block_type = "conditional" -> "lightyellow"
      [] OTHER                      -> "lightgray"

Style(color, style, label) == [color |-> color, style |-> style, label |-> label]

(* Mutant of EdgeStyle: the T/F choice tests the wrong kind. *)
EdgeStyle_labels_swapped(edge_type) ==
    CASE edge_type = "fallthrough" -> Style("green", "solid", "")
      [] edge_type \in {"conditional_true", "conditional_false"} ->
            Style("red", "solid",
                  IF edge_type = "conditional_false" THEN "T" ELSE "F")
      [] edge_type = "unconditional" -> Style("red", "bold", "")
      [] edge_type = "call"          -> Style("blue", "dashed", "call")
      [] OTHER                       -> Style("black", "solid", "")

(* The colour, style and label of an edge: the if/elif chain on edge_type. *)
EdgeStyle(edge_type) ==
    CASE edge_type = "fallthrough" -> Style("green", "solid", "")
      [] edge_type \in {"conditional_true", "conditional_false"} ->
            Style("red", "solid",
                  IF edge_type = "conditional_true" THEN "T" ELSE "F")
      [] edge_type = "unconditional" -> Style("red", "bold", "")
      [] edge_type = "call"          -> Style("blue", "dashed", "call")
      [] OTHER                       -> Style("black", "solid", "")

(* ControlFlowGraph.to_dot for the graph (blocks, edges) of function_name; *)
(* an edge records the start addresses of its two blocks.                  *)
to_dot(function_name, blocks, edges) ==
    [graph |-> function_name,
     nodes |-> [j \in DOMAIN blocks |->
                  [id        |-> get_id(blocks[j]),
                   label     |-> get_label(blocks[j]),
                   fillcolor |-> NodeColor(blocks[j].block_type)]],
     edges |-> [j \in DOMAIN edges |->
                  LET s == EdgeStyle(edges[j].edge_type) IN
                  [from  |-> BlockId(edges[j].from), to |-> BlockId(edges[j].to),
                   color |-> s.color, style |-> s.style, label |-> s.label]]]

=============================================================================
