------------------------------- MODULE CFGMain -------------------------------
(***************************************************************************)
(* The driver of src/CFGGenerator.py: main runs example_simple_function,   *)
(* example_loop_function, example_switch_case and                          *)
(* example_nested_conditions in turn.  Each does                           *)
(*     builder = CFGBuilder(instructions, name)                            *)
(*     cfg = builder.build()                                               *)
(*     cfg.save_dot(file)                                                  *)
(* composing the builder (module CFGBuilder, whose steps run unchanged)    *)
(* with the serializer (module Dot).  todo holds the functions main has    *)
(* still to process, written the documents save_dot has written, in order. *)
(***************************************************************************)
EXTENDS CFGBuilder, Dot

VARIABLES
    function_name,  \* self.function_name of the graph being built
    todo,           \* the example functions main has not yet called
    written         \* the DOT documents written so far, in order

main_vars == <<instructions, pc, idx, block_starts, sorted_starts, new_blocks, blocks,
               block_map, edges, function_name, todo, written>>

(***************************************************************************)
(* The example inputs.  Every address of the examples is 0x1_xxxx_xxxx,    *)
(* beyond TLC's 32-bit integers; A(low) stands for 0x100000000 + low and   *)
(* is 0x10000000 + low.  The code compares addresses only with each other  *)
(* (and + 4), and tests one for 0 ("if target:"), so any such shift that   *)
(* keeps every address non-zero gives the same graph.                      *)
(* Operand text is tokenised as in module Instruction: "SP, SP, #0x20" is  *)
(* <<Reg, Reg, Hex(32)>>, "loc_100000020" is Loc(A(32)), "X0, #0" and      *)
(* "sub_100002000" have no 0x or loc_ and are registers.                   *)
(***************************************************************************)
A(low) == 268435456 + low

I(low, mnemonic, operands) ==
    [address |-> A(low), mnemonic |-> mnemonic, operands |-> operands]

SubSP == <<Reg, Reg, Hex(32)>>      \* "SP, SP, #0x20"
PairSP == <<Reg, Reg, Reg, Hex(16)>> \* "X29, X30, [SP, #0x10]"

example_simple_function ==
    [name |-> "simple_if_else",
     instructions |->
       << I(0, "SUB", SubSP), I(4, "STP", PairSP), I(8, "CMP", <<Reg, Reg>>),
          I(12, "B.EQ", <<Loc(A(32))>>),
          I(16, "MOV", <<Reg, Reg>>), I(20, "B", <<Loc(A(40))>>),
          I(32, "MOV", <<Reg, Reg>>),
          I(40, "LDP", PairSP), I(44, "ADD", SubSP), I(48, "RET", <<>>) >>]

example_loop_function ==
    [name |-> "loop_function",
     instructions |->
       << I(4096, "SUB", SubSP), I(4100, "STP", PairSP),
          I(4104, "MOV", <<Reg, Reg>>),
          I(4108, "CMP", <<Reg, Reg>>), I(4112, "B.GE", <<Loc(A(4132))>>),
          I(4116, "BL", <<Reg>>), I(4120, "ADD", <<Reg, Reg, Reg>>),
          I(4124, "B", <<Loc(A(4108))>>),
          I(4132, "LDP", PairSP), I(4136, "ADD", SubSP), I(4140, "RET", <<>>) >>]

example_switch_case ==
    [name |-> "switch_case",
     instructions |->
       << I(8192, "SUB", SubSP),
          I(8196, "CMP", <<Reg, Reg>>), I(8200, "B.EQ", <<Loc(A(8224))>>),
          I(8204, "CMP", <<Reg, Reg>>), I(8208, "B.EQ", <<Loc(A(8240))>>),
          I(8212, "CMP", <<Reg, Reg>>), I(8216, "B.EQ", <<Loc(A(8256))>>),
          I(8220, "B", <<Loc(A(8272))>>),
          I(8224, "MOV", <<Reg, Reg>>), I(8228, "B", <<Loc(A(8280))>>),
          I(8240, "MOV", <<Reg, Reg>>), I(8244, "B", <<Loc(A(8280))>>),
          I(8256, "MOV", <<Reg, Reg>>), I(8260, "B", <<Loc(A(8280))>>),
          I(8272, "MOV", <<Reg, Reg>>),
          I(8280, "ADD", SubSP), I(8284, "RET", <<>>) >>]

example_nested_conditions ==
    [name |-> "nested_conditions",
     instructions |->
       << I(12288, "SUB", SubSP),
          I(12292, "CMP", <<Reg, Reg>>), I(12296, "B.LE", <<Loc(A(12336))>>),
          I(12300, "CMP", <<Reg, Reg>>), I(12304, "B.LE", <<Loc(A(12320))>>),
          I(12308, "MOV", <<Reg, Reg>>), I(12312, "B", <<Loc(A(12344))>>),
          I(12320, "MOV", <<Reg, Reg>>), I(12324, "B", <<Loc(A(12344))>>),
          I(12336, "MOV", <<Reg, Reg>>),
          I(12344, "ADD", SubSP), I(12348, "RET", <<>>) >>]

(* The calls of main, in order. *)
Examples == <<example_simple_function, example_loop_function,
              example_switch_case, example_nested_conditions>>

-----------------------------------------------------------------------------
(* main is about to call the functions fs in order; no builder exists. *)
Idle(fs) ==
    /\ todo = fs
    /\ written = <<>>
    /\ function_name = ""
    /\ instructions = <<>>
    /\ pc = "main"
    /\ idx = 1
    /\ block_starts = {}
    /\ sorted_starts = <<>>
    /\ new_blocks = <<>>
    /\ blocks = <<>>
    /\ block_map = <<>>
    /\ edges = <<>>

MainInit == Idle(Examples)

(* An example function starts: CFGBuilder(instructions, name) and the     *)
(* call to build(), which enters _find_block_starts.                       *)
BuildFunction ==
    /\ pc = "main"
    /\ todo # <<>>
    /\ instructions' = Head(todo).instructions
    /\ function_name' = Head(todo).name
    /\ todo' = Tail(todo)
    /\ pc' = "find_starts"
    /\ idx' = 1
    /\ block_starts' = {Head(todo).instructions[1].address}
    /\ sorted_starts' = <<>>
    /\ new_blocks' = <<>>
    /\ blocks' = <<>>
    /\ block_map' = <<>>
    /\ edges' = <<>>
    /\ UNCHANGED written

(* cfg.save_dot(file): the text of to_dot is written; the example returns *)
(* to main.                                                               *)
save_dot ==
    /\ pc = "done"
    /\ written' = Append(written, to_dot(function_name, blocks, edges))
    /\ pc' = "main"
    /\ UNCHANGED <<instructions, idx, block_starts, sorted_starts, new_blocks,
                   blocks, block_map, edges, function_name, todo>>

MainNext ==
    \/ BuildFunction
    \/ save_dot
    \/ Next /\ UNCHANGED <<function_name, todo, written>>

MainSpec == MainInit /\ [][MainNext]_main_vars

-----------------------------------------------------------------------------
(***************************************************************************)
(* Properties.                                                             *)
(***************************************************************************)

(* What a reader of a document recovers (the legend of spec.md 4.6): the  *)
(* block kinds a fill colour may stand for; and the edge kinds an edge     *)
(* statement may stand for: "T", "F" and "call" name their kind, and an    *)
(* unlabelled edge is told by its colour and style.                        *)
(* A reader of a node statement takes label="..." to end at the first     *)
(* double quote: it recovers the lines before the first line holding a     *)
(* quote token, and that line cut before the token.                        *)
ReadLabel(label) ==
    LET HasQuote(line) == \E k \in DOMAIN line[3] : line[3][k].kind = "quote"
        q == SelectInSeq(label, HasQuote)
        p == SelectInSeq(label[q][3], LAMBDA t : t.kind = "quote")
    IN  IF q = 0 THEN label
        ELSE Append(SubSeq(label, 1, q - 1),
                    <<label[q][1], label[q][2], SubSeq(label[q][3], 1, p - 1)>>)

KindsOfFill(color) == {t \in BlockTypes : NodeColor(t) = color}

ReadKinds(st) ==
    CASE st.label = "T"    -> {"conditional_true"}
      [] st.label = "F"    -> {"conditional_false"}
      [] st.label = "call" -> {"call"}
      [] OTHER -> {t \in {"fallthrough", "unconditional"} :
                     EdgeStyle(t) = [color |-> st.color, style |-> st.style, label |-> ""]}

(* The document save_dot wrote last describes the graph build() returned:  *)
(* the header names the function; the node ids are those of the blocks in *)
(* ascending address order, and the label a reader recovers from each is  *)
(* the block's instructions, address, mnemonic and operands; every         *)
(* edge statement joins two declared nodes and its styling names its kind  *)
(* alone, so the edges read back are exactly the graph's edges; and the    *)
(* fill tells entry, return and conditional blocks from each other and     *)
(* from the rest (spec.md 4.6).                                            *)
DotRoundTrip ==
    pc = "main" /\ written # <<>> =>
        LET doc == Last(written)
            ids == {doc.nodes[j].id : j \in DOMAIN doc.nodes}
        IN  /\ doc.graph = function_name
            /\ \A j \in DOMAIN doc.nodes :
                  /\ j > 1 => doc.nodes[j - 1].id[2] < doc.nodes[j].id[2]
                  /\ \E b \in ToSet(blocks) :
                        /\ doc.nodes[j].id = BlockId(b.start_address)
                        /\ ReadLabel(doc.nodes[j].label)
                           = [k \in DOMAIN b.instructions |->
                                <<b.instructions[k].address, b.instructions[k].mnemonic,
                                  b.instructions[k].operands>>]
                        /\ \/ KindsOfFill(doc.nodes[j].fillcolor) = {b.block_type}
                           \/ KindsOfFill(doc.nodes[j].fillcolor)
                                = {"normal", "unconditional"}
            /\ Len(doc.nodes) = Len(blocks)
            /\ \A j \in DOMAIN doc.edges : {doc.edges[j].from, doc.edges[j].to} \subseteq ids
            /\ {[from |-> doc.edges[j].from[2], to |-> doc.edges[j].to[2],
                 kinds |-> ReadKinds(doc.edges[j])]
                   : j \in DOMAIN doc.edges}
               = {[from |-> e.from, to |-> e.to, kinds |-> {e.edge_type}] : e \in ToSet(edges)}

(* spec.md 8, scenario (if/else): the graph of the if-else example has     *)
(* exactly 4 blocks and 4 edges, one of each kind taken, not taken, jump   *)
(* and fallthrough, and its end block has no out-edge.                     *)
IfElseScenario ==
    pc = "main" /\ function_name = "simple_if_else" =>
        /\ Len(blocks) = 4
        /\ Len(edges) = 4
        /\ {e.edge_type : e \in ToSet(edges)}
              = {"conditional_true", "conditional_false", "unconditional", "fallthrough"}
        /\ \A e \in ToSet(edges) : e.from # Last(blocks).start_address

=============================================================================
