------------------------------ MODULE CFGBuilder ------------------------------
(***************************************************************************)
(* CFGBuilder.build() of src/CFGGenerator.py as a state machine.  The      *)
(* builder runs three loops one after the other, and every iteration of    *)
(* every loop is one step:                                                 *)
(*   "find_starts"    _find_block_starts: one instruction per step         *)
(*   "create_blocks"  _create_basic_blocks: one block start per step       *)
(*   "build_edges"    _build_edges: one block per step, one action per     *)
(*                    arm of the if/elif chain on the block's terminator   *)
(* and then "done", when build() returns the ControlFlowGraph.  The        *)
(* graph container (ControlFlowGraph.add_block/add_edge/get_block_at) is   *)
(* the pair of variables blocks, edges.                                    *)
(*                                                                         *)
(* A block is identified by its start_address, as get_id() does; an edge  *)
(* records the start addresses of its two blocks.                          *)
(***************************************************************************)
EXTENDS Instruction

VARIABLES
    instructions,   \* self.instructions, the input list (never changes)
    pc,             \* which loop of build() is running
    idx,            \* 1-based index of the loop's current element
    block_starts,   \* the set returned by _find_block_starts
    sorted_starts,  \* sorted(block_starts)
    new_blocks,     \* the list _create_basic_blocks builds and returns
    blocks,         \* self.cfg.blocks, in insertion order
    block_map,      \* self.cfg.block_map: start_address -> block
    edges           \* self.cfg.edges, in insertion order

vars == <<instructions, pc, idx, block_starts, sorted_starts, new_blocks, blocks,
          block_map, edges>>

BlockTypes == {"entry", "normal", "conditional", "unconditional", "return"}
EdgeTypes  == {"fallthrough", "conditional_true", "conditional_false",
               "unconditional", "call"}

(* self.instr_map: address -> instruction; a later duplicate wins. *)
instr_map ==
    [a \in {instructions[k].address : k \in DOMAIN instructions} |->
        instructions[SelectLastInSeq(instructions, LAMBDA i : i.address = a)]]

(* self.start_address *)
start_address == IF instructions = <<>> THEN 0 ELSE instructions[1].address

Code == DOMAIN instr_map

-----------------------------------------------------------------------------
(* Mutant of get_block_at: the end of a range is taken as exclusive. *)
get_block_at_exclusive_end(address) ==
    SelectInSeq(blocks, LAMBDA b : b.start_address <= address
                                   /\ address < b.end_address)

(* ControlFlowGraph.get_block_at: index of the first block whose           *)
(* [start_address, end_address] contains address, 0 for None.             *)
get_block_at(address) ==
    SelectInSeq(blocks, LAMBDA b : b.start_address <= address
                                   /\ address <= b.end_address)

(* The edge from block b to the block containing address, if there is one. *)
EdgeTo(b, address, type) ==
    LET j == get_block_at(address) IN
    IF j = 0 THEN <<>>
    ELSE <<[from |-> b.start_address, to |-> blocks[j].start_address,
            edge_type |-> type]>>

(* The edge to the resolved branch target: "if target: ... get_block_at".  *)
TargetEdge(b, type) ==
    LET target == get_branch_target(Last(b.instructions)) IN
    IF Truthy(target) THEN EdgeTo(b, target, type) ELSE <<>>

(* The edge to the next address: "if next_addr in self.instr_map: ...".    *)
NextEdge(b, type) ==
    LET next_addr == Last(b.instructions).address + 4 IN
    IF next_addr \in Code THEN EdgeTo(b, next_addr, type) ELSE <<>>

(* The arm of the if/elif chain of _build_edges a terminator falls in. *)
Terminator(i) ==
    CASE is_conditional_branch(i)   -> "conditional"
      [] is_unconditional_branch(i) -> "unconditional"
      [] is_call(i)                 -> "call"
      [] is_return(i)               -> "return"
      [] OTHER                      -> "other"

(* Mutant of Collect: a gap is stepped over instead of ending the block. *)
RECURSIVE Collect_across_gaps(_, _)
Collect_across_gaps(addr, end) ==
    IF addr <= end
    THEN (IF addr \in Code THEN <<instr_map[addr]>> ELSE <<>>)
         \o Collect_across_gaps(addr + 4, end)
    ELSE <<>>

(* The sequence of instructions collected by the while loop of             *)
(* _create_basic_blocks from addr up to end, stopping at a gap.            *)
RECURSIVE Collect(_, _)
Collect(addr, end) ==
    IF addr <= end /\ addr \in Code
    THEN <<instr_map[addr]>> \o Collect(addr + 4, end)
    ELSE <<>>

(* Mutant of BlockType: the return test is placed before the entry test. *)
BlockType_return_first(start, last_instr) ==
    CASE is_return(last_instr)             -> "return"
      [] start = start_address             -> "entry"
      [] is_conditional_branch(last_instr) -> "conditional"
      [] is_unconditional_branch(last_instr) -> "unconditional"
      [] OTHER                             -> "normal"

(* The block_type decision of _create_basic_blocks. *)
BlockType(start, last_instr) ==
    CASE start = start_address            -> "entry"
      [] is_return(last_instr)            -> "return"
      [] is_conditional_branch(last_instr) -> "conditional"
      [] is_unconditional_branch(last_instr) -> "unconditional"
      [] OTHER                             -> "normal"

-----------------------------------------------------------------------------
(* CFGBuilder.__init__ and the entry to build(): the list is stored and    *)
(* block_starts is seeded with the function entry (the first statement of  *)
(* _find_block_starts).                                                    *)
Start ==
    /\ pc = "find_starts"
    /\ idx = 1
    /\ block_starts = {start_address}
    /\ sorted_starts = <<>>
    /\ new_blocks = <<>>
    /\ blocks = <<>>
    /\ block_map = <<>>
    /\ edges = <<>>

(* The input contract (spec.md 6): a non-empty list of instructions in     *)
(* ascending address order, addresses unique.  The code checks none of it. *)
ValidInput(list) ==
    /\ list # <<>>
    /\ \A k \in 1..(Len(list) - 1) : list[k].address < list[k + 1].address

Init ==
    /\ instructions \in Seq(Instr)
    /\ ValidInput(instructions) \/ instructions = <<>>
    /\ Start

(* Mutant of FindStartsStep: the address after a branch is added without *)
(* checking that an instruction is there.                                 *)
FindStartsStep_unchecked_next ==
    /\ pc = "find_starts"
    /\ idx <= Len(instructions)
    /\ LET instr == instructions[idx]
           after == IF is_branch(instr) \/ is_return(instr)
                    THEN {instr.address + 4} ELSE {}
           at    == IF is_branch(instr) /\ Truthy(get_branch_target(instr))
                       /\ get_branch_target(instr) \in Code
                    THEN {get_branch_target(instr)} ELSE {}
       IN  block_starts' = block_starts \cup after \cup at
    /\ idx' = idx + 1
    /\ UNCHANGED <<instructions, pc, sorted_starts, new_blocks, blocks, block_map,
                   edges>>

(* Mutant of FindStartsStep: branch targets do not start blocks. *)
FindStartsStep_no_targets ==
    /\ pc = "find_starts"
    /\ idx <= Len(instructions)
    /\ LET instr == instructions[idx]
           after == IF (is_branch(instr) \/ is_return(instr))
                       /\ instr.address + 4 \in Code
                    THEN {instr.address + 4} ELSE {}
       IN  block_starts' = block_starts \cup after
    /\ idx' = idx + 1
    /\ UNCHANGED <<instructions, pc, sorted_starts, new_blocks, blocks, block_map,
                   edges>>

(* One iteration of the loop of _find_block_starts. *)
FindStartsStep ==
    /\ pc = "find_starts"
    /\ idx <= Len(instructions)
    /\ LET instr     == instructions[idx]
           next_addr == instr.address + 4
           target    == get_branch_target(instr)
           after     == IF (is_branch(instr) \/ is_return(instr))
                           /\ next_addr \in Code
                        THEN {next_addr} ELSE {}
           at        == IF is_branch(instr) /\ Truthy(target)
                           /\ target \in Code
                        THEN {target} ELSE {}
       IN  block_starts' = block_starts \cup after \cup at
    /\ idx' = idx + 1
    /\ UNCHANGED <<instructions, pc, sorted_starts, new_blocks, blocks, block_map,
                   edges>>

(* Python's sorted() of a set of integers: the element of rank k - 1 at k. *)
sorted(S) ==
    [k \in 1..Cardinality(S) |-> CHOOSE x \in S : Cardinality({y \in S : y < x}) = k - 1]

(* _find_block_starts returns; _create_basic_blocks sorts the starts and *)
(* begins its own, empty, list of blocks.                                  *)
FindStartsDone ==
    /\ pc = "find_starts"
    /\ idx > Len(instructions)
    /\ pc' = "create_blocks"
    /\ idx' = 1
    /\ sorted_starts' = sorted(block_starts)
    /\ new_blocks' = <<>>
    /\ UNCHANGED <<instructions, block_starts, blocks, block_map, edges>>

(* ControlFlowGraph.add_block: append, and file under start_address (a     *)
(* later block with the same start replaces the earlier one).              *)
add_block(block) ==
    /\ blocks' = Append(blocks, block)
    /\ block_map' = (block.start_address :> block) @@ block_map

(* One iteration of the loop of _create_basic_blocks: the block goes to   *)
(* the local list and, through add_block, to self.cfg.                     *)
(* A start that collects no instruction is skipped ("continue").           *)
CreateBlock ==
    /\ pc = "create_blocks"
    /\ idx <= Len(sorted_starts)
    /\ instructions # <<>>
    /\ LET start == sorted_starts[idx]
           end   == IF idx + 1 <= Len(sorted_starts)
                    THEN sorted_starts[idx + 1] - 4
                    ELSE Last(instructions).address
           block_instrs == Collect(start, end)
           blk == [start_address |-> start,
                   end_address   |-> Last(block_instrs).address,
                   instructions  |-> block_instrs,
                   block_type    |-> BlockType(start, Last(block_instrs))]
       IN  IF block_instrs = <<>> THEN UNCHANGED <<new_blocks, blocks, block_map>>
           ELSE /\ new_blocks' = Append(new_blocks, blk)
                /\ add_block(blk)
    /\ idx' = idx + 1
    /\ UNCHANGED <<instructions, pc, block_starts, sorted_starts, edges>>

(* The same iteration on an empty list: the only start is 0, it is the    *)
(* last, and self.instructions[-1] raises IndexError out of build().       *)
CreateBlockIndexError ==
    /\ pc = "create_blocks"
    /\ idx <= Len(sorted_starts)
    /\ instructions = <<>>
    /\ pc' = "raised"
    /\ UNCHANGED <<instructions, idx, block_starts, sorted_starts, new_blocks, blocks,
                   block_map, edges>>

CreateBlocksDone ==
    /\ pc = "create_blocks"
    /\ idx > Len(sorted_starts)
    /\ pc' = "build_edges"
    /\ idx' = 1
    /\ UNCHANGED <<instructions, block_starts, sorted_starts, new_blocks, blocks,
                   block_map, edges>>

(* One iteration of the loop of _build_edges over the list returned by     *)
(* _create_basic_blocks, for a block whose terminator falls in arm kind,   *)
(* appending the edges new to self.cfg.edges.                              *)
BuildEdgesStep(kind, new) ==
    /\ pc = "build_edges"
    /\ idx <= Len(new_blocks)
    /\ Terminator(Last(new_blocks[idx].instructions)) = kind
    /\ edges' = edges \o new
    /\ idx' = idx + 1
    /\ UNCHANGED <<instructions, pc, block_starts, sorted_starts, new_blocks, blocks,
                   block_map>>

(* The block the loop of _build_edges is at. *)
block == new_blocks[idx]

EdgesConditional ==
    BuildEdgesStep("conditional",
        TargetEdge(block, "conditional_true") \o NextEdge(block, "conditional_false"))

EdgesUnconditional ==
    BuildEdgesStep("unconditional", TargetEdge(block, "unconditional"))

(* No edge to the callee, only the fallthrough. *)
EdgesCall == BuildEdgesStep("call", NextEdge(block, "fallthrough"))

EdgesReturn == BuildEdgesStep("return", <<>>)

EdgesOther == BuildEdgesStep("other", NextEdge(block, "fallthrough"))

(* The loop of _build_edges ends and build() returns self.cfg. *)
BuildEdgesDone ==
    /\ pc = "build_edges"
    /\ idx > Len(new_blocks)
    /\ pc' = "done"
    /\ UNCHANGED <<instructions, idx, block_starts, sorted_starts, new_blocks, blocks,
                   block_map, edges>>

Next ==
    \/ FindStartsStep
    \/ FindStartsDone
    \/ CreateBlock
    \/ CreateBlockIndexError
    \/ CreateBlocksDone
    \/ EdgesConditional
    \/ EdgesUnconditional
    \/ EdgesCall
    \/ EdgesReturn
    \/ EdgesOther
    \/ BuildEdgesDone

Spec == Init /\ [][Next]_vars

(* A further call of build() on the same builder, after the first returned *)
(* self.cfg: the three loops run again, from the seed of                   *)
(* _find_block_starts, on the same self.cfg, which nothing resets.         *)
Rebuild ==
    /\ pc = "done"
    /\ pc' = "find_starts"
    /\ idx' = 1
    /\ block_starts' = {start_address}
    /\ UNCHANGED <<instructions, sorted_starts, new_blocks, blocks, block_map, edges>>


-----------------------------------------------------------------------------
(***************************************************************************)
(* Properties.                                                             *)
(***************************************************************************)

(* Every variable holds a value of the type the code gives it. *)
TypeOK ==
    /\ instructions \in Seq(Instr)
    /\ pc \in {"find_starts", "create_blocks", "build_edges", "done", "raised"}
    /\ idx \in Nat \ {0}
    /\ block_starts \subseteq Code \cup {start_address}
    /\ sorted_starts \in Seq(Code \cup {start_address})
    /\ \A j \in DOMAIN blocks :
          blocks[j] \in [start_address : Code, end_address : Code,
                         instructions : Seq(Instr), block_type : BlockTypes]
    /\ \A j \in DOMAIN edges :
          edges[j] \in [from : Code, to : Code, edge_type : EdgeTypes]
    /\ DOMAIN block_map \subseteq Code

(* The blocks that _create_basic_blocks adds are non-empty runs of input   *)
(* instructions at consecutive addresses from start_address to            *)
(* end_address, added in ascending address order with pairwise disjoint   *)
(* ranges (the end of one block is computed from the next start).         *)
BlocksAreOrderedDisjointRuns ==
    /\ \A j \in DOMAIN blocks :
          LET b == blocks[j] IN
          /\ b.instructions # <<>>
          /\ b.instructions[1].address = b.start_address
          /\ Last(b.instructions).address = b.end_address
          /\ \A k \in DOMAIN b.instructions :
                /\ b.instructions[k] = instr_map[b.instructions[k].address]
                /\ k > 1 => b.instructions[k].address
                              = b.instructions[k - 1].address + 4
    /\ \A j1, j2 \in DOMAIN blocks :
          j1 < j2 => blocks[j1].end_address < blocks[j2].start_address

(* Where an ARM64 branch goes: the label, which is its last operand. *)
Destination(i) ==
    LET ts == SelectSeq(i.operands, LAMBDA t : t.kind \in {"hex", "loc"}) IN
    IF ts = <<>> THEN None ELSE Last(ts).val

(* Every block built is a basic block: control leaves it only from its     *)
(* last instruction (no branch or return sits inside it) and enters it     *)
(* only at its first (no branch of the function lands inside it).          *)
SingleEntrySingleExit ==
    \A j \in DOMAIN blocks :
        LET ins == blocks[j].instructions IN
        \A k \in DOMAIN ins :
            /\ k < Len(ins) => ~is_branch(ins[k]) /\ ~is_return(ins[k])
            /\ k > 1 => \A m \in DOMAIN instructions :
                           is_branch(instructions[m])
                           => Destination(instructions[m]) # ins[k].address

(* The successors of instruction i under ARM64 semantics, as records of    *)
(* the address control reaches and the kind of edge the design gives it:  *)
(* B, BR and B.AL always branch, B.<cond>/CB(N)Z/TB(N)Z may, BL/BLR return *)
(* to the next instruction, RET leaves the function.                       *)
Successors(i) ==
    LET dest == Destination(i)
        next == i.address + 4
    IN  CASE i.mnemonic \in {"B", "BR", "B.AL"} ->
               {[addr |-> dest, kind |-> "unconditional"]}
          [] i.mnemonic \in BranchMnemonics \ {"BL", "BLR"} ->
               {[addr |-> dest, kind |-> "conditional_true"],
                [addr |-> next, kind |-> "conditional_false"]}
          [] i.mnemonic = "RET" -> {}
          [] OTHER -> {[addr |-> next, kind |-> "fallthrough"]}

(* When build() returns, the out-edges of every block are exactly one edge *)
(* per successor of its last instruction that is code of the function,     *)
(* each to the block that starts at that address: no branch with a target *)
(* in the function is missing its edge, no edge leads into the middle of a *)
(* block or to the wrong place, and no edge is duplicated.                 *)
EdgesFollowControlFlow ==
    pc = "done" =>
        \A j \in DOMAIN blocks :
            LET b    == blocks[j]
                out  == SelectSeq(edges, LAMBDA e : e.from = b.start_address)
                succ == {s \in Successors(Last(b.instructions)) : s.addr \in Code}
            IN  /\ {[addr |-> e.to, kind |-> e.edge_type] : e \in ToSet(out)} = succ
                /\ Len(out) = Cardinality(succ)

(* spec.md 8, partition: when build() returns, every input instruction     *)
(* belongs to exactly one block.                                           *)
InstructionsPartitioned ==
    pc = "done" =>
        \A a \in Code :
            Cardinality({j \in DOMAIN blocks :
                a \in {i.address : i \in ToSet(blocks[j].instructions)}}) = 1

(* spec.md 3: no two edges join the same ordered pair of blocks.  A       *)
(* conditional branch to the next instruction gets a taken and a not-taken *)
(* edge, both to the block that starts there.                              *)
NoParallelEdges ==
    pc = "done" =>
        \A j1, j2 \in DOMAIN edges :
            j1 # j2 => <<edges[j1].from, edges[j1].to>> # <<edges[j2].from, edges[j2].to>>

(* spec.md 7: a list that breaks the input contract (duplicate addresses,  *)
(* or not in ascending order) is rejected before any graph state is made; *)
(* build() never returns a graph for one.                                  *)
BuildRejectsInvalidInput == pc = "done" => ValidInput(instructions)

(* The refinement mapping: the graph exists once build() has returned. *)
Abstract == INSTANCE CFGSpec WITH
    input <- instructions,
    built <- pc = "done",
    graph <- IF pc = "done"
             THEN [blocks |-> {[start |-> b.start_address, end |-> b.end_address,
                                kind |-> b.block_type] : b \in ToSet(blocks)},
                   edges  |-> {[from |-> e.from, to |-> e.to, kind |-> e.edge_type]
                                : e \in ToSet(edges)}]
             ELSE [blocks |-> {}, edges |-> {}]

(* The three loops of build() compute the graph the design defines with   *)
(* sets (spec.md 4.2-4.4): same blocks, same kinds, same edges.            *)
ImplementsCFGSpec == Abstract!Spec

=============================================================================
