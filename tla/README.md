# TLA+ models of the ARM64 CFG generator

This directory holds TLA+ models of `src/CFGGenerator.py`. It turns a list of
decoded ARM64 instructions for one function into a control-flow graph (basic
blocks and classified edges) and renders it as Graphviz DOT. Everything is
checked with TLC.

## 1. Inventory

### Components (leaf first) and their state

| Component | Code | State | Operations |
|---|---|---|---|
| Instruction model | `Instruction` (l. 31-85) | immutable record `address, mnemonic, operands` | `is_branch`, `is_conditional_branch`, `is_unconditional_branch`, `is_call`, `is_return`, `get_branch_target` (pure) |
| Block-boundary detector | `CFGBuilder._find_block_starts` (l. 246-263) | the set `block_starts` | one loop over the instructions |
| Block constructor | `CFGBuilder._create_basic_blocks` (l. 265-312) | `sorted(block_starts)`, the blocks | one loop over the sorted starts: compute the end, collect instructions until the end or a gap, skip empty blocks, decide `block_type`, `add_block` |
| Edge constructor | `CFGBuilder._build_edges` (l. 314-366) | the edges | one loop over the blocks: an if/elif chain on the last instruction, edges found through `get_block_at` |
| Graph container | `ControlFlowGraph` (l. 122-146) | `blocks`, `edges`, `block_map` (start address → block; written, never read by the code) | `add_block`, `add_edge`, `get_block_at` (first block whose inclusive range holds the address) |
| Serializer | `to_dot`, `save_dot`, `BasicBlock.get_id/get_label` (l. 96-108, 148-217) | none (reads the graph) | DOT text: one node per block, one edge statement per edge, styled by kind |
| Examples / main | `example_*` (l. 373-562) | fixed inputs | build four graphs and write them |
| APK repository list | `src/app/gen_apk_repositories.py` | none | a build script that writes two constant lines to a file |

### How the components interact

`CFGBuilder.build()` runs three loops in sequence. Data flows one way:
instructions → `block_starts` → blocks → edges. The loops share the builder's
`instr_map` (address → instruction; a later duplicate wins) and the
container's `blocks` list. The edge loop finds its target blocks with
`get_block_at`, which searches the ranges of the blocks built in the second
loop. Nothing is concurrent and nothing is persisted. The program is a pure
function of its input list, plus one file write in `save_dot`.

### What is hard here

There is no concurrency, failure or timing. What is hard is the interplay of
the three phases over unusual inputs:

* the boundary loop decides leaders from `instr_map`, but the edge loop
  resolves the same addresses through block *ranges*;
* Python truthiness: `if target:` rejects address 0;
* the classifier lists: `B.AL` is a branch, but it is in none of the three
  sub-classes;
* regex order in `get_branch_target`: the first `0x` wins, even when it is a
  TBZ bit number;
* gaps (non-code regions) end block collection, and the code after a gap is
  a block only if something makes it a leader;
* input shape (sorted, unique, non-empty) is assumed and never checked.

The hazards in `PROJECT.json` list each of these at its line.

### What makes each component correct

* Boundaries and blocks: every block is a run of consecutive instructions.
  Blocks are added in ascending order, their ranges are disjoint, and they
  are *basic* blocks: no branch or return sits inside one, and no branch
  lands inside one. Per spec.md 8, every instruction lies in exactly one
  block.
* Edges: the out-edges of a block are exactly the in-function successors of
  its last instruction under ARM64 semantics. Each edge has the kind of
  spec.md 4.4 and goes to the block that *starts* at the successor address.
  There are no duplicates.
* The whole build equals the set-based definition of spec.md 4.2-4.4.
* Serializer: one node per block in ascending order and one edge statement
  per edge, styled so that a reader can tell each edge's kind and each
  block's kind class (spec.md 4.6). Determinism holds by construction: in
  the code `to_dot` is a pure function of the graph, and in the model it is
  an operator.
* Driver: `main` builds and saves every example function.

## 2. Modules

| Module | Models | Notes |
|---|---|---|
| `Instruction.tla` | the instruction model | The operand text is a sequence of tokens abstracted to what the regexes see: `hex` (contains `0x..`), `loc` (`loc_..`), `quote` (holds a double quote but no `0x` or `loc_`, as in IDA's string comment `ADR X0, aHello ; "Hello"`) or `reg`. `Truthy` is Python's `if target`. |
| `CFGBuilder.tla` | `CFGBuilder.build()` and the graph container | The variables are `instructions`, `pc` (which loop), `idx` (the loop index), `block_starts`, `sorted_starts`, `new_blocks`, `blocks`, `block_map` and `edges`. `new_blocks` is the local list that `_create_basic_blocks` builds and returns, and that `_build_edges` loops over. `blocks` is `self.cfg.blocks`, which `get_block_at` scans. The two are equal after a single call, and differ after a second call (`Rebuild`). `add_block` appends a block and files it under its start address in `block_map`. Each loop iteration is one action: `FindStartsStep`, `CreateBlock`, and `EdgesConditional / EdgesUnconditional / EdgesCall / EdgesReturn / EdgesOther` (one per arm of the if/elif chain). Each loop exit is one action: `FindStartsDone` (which includes the `sorted()` call), `CreateBlocksDone` and `BuildEdgesDone`. The inner `while` loop of block collection is the recursive operator `Collect`. |
| `CFGSpec.tla` | the abstract specification | In one step the graph appears, defined with sets: `Leaders`, `Run(s)`, `Blocks` and `Edges` (spec.md 4.2-4.4). |
| `Dot.tla` | the serializer `to_dot`, `get_id`, `get_label` | `to_dot` is an operator from the graph to a record of its statements. The record holds the header's function name, one node per block (its id, label lines and fill colour) and one edge statement per edge (its endpoint ids, colour, style and label; `""` means no label). An id `block_<hex>` is the pair `<<"block", start>>`. A label line is the triple (address, mnemonic, operand tokens). The fixed header lines and the text layout are left out. |
| `CFGMain.tla` | the `example_*` functions and `main` | Composes `CFGBuilder` and `Dot`. `todo` holds the example functions not yet run, and `written` holds the documents saved so far. `BuildFunction` is `CFGBuilder(...)` plus the call to `build()`. After it, the builder's own actions run unchanged. `save_dot` appends `to_dot(...)` to `written` and returns to `main`. The four example lists are data translated from the source. Their addresses are shifted below 2^31 (`A(low)`), which does not change the graph: the code compares addresses only with each other and tests one for 0. |
| `MCCFGMain.tla` | model-checking instance of `CFGMain` | `main` on the four examples. |
| `MCCFGBuilder.tla` | model-checking instance | Functions of `NSlots` slots at `Base`. Slot 0 holds the entry and every other slot holds an instruction or is a gap. The empty list is enumerated as well. Each instruction is drawn from a choice set. |

`CFGBuilder` is checked against `CFGSpec` through `INSTANCE CFGSpec WITH` a
refinement mapping. Before `pc = "done"` the abstract graph is empty. After
it, the graph is the set of `(start, end, kind)` of the blocks and the set of
the edges. The abstract spec's `Build` step corresponds to `BuildEdgesDone`.
Every other step is a stutter.

Data abstraction: mnemonics are the upper-case strings of the code. The
`upper()` call is the identity on them, so it is not modelled. A block is
identified by its start address, as `get_id()` does. The prints in `build()`
are omitted.

## 3. Runs

| Run | Cfg | Expect | What it shows |
|---|---|---|---|
| build_invariants | `MCCFGBuilder.cfg` | pass | `TypeOK`, `BlocksAreOrderedDisjointRuns`, `SingleEntrySingleExit` and `EdgesFollowControlFlow` hold for every function of up to 4 slots at 0x1000, gaps included (78,608 inputs, 1.19M states). |
| build_refines_spec | `MCCFGBuilderRefines.cfg` | pass | `ImplementsCFGSpec`: the loops compute exactly the graph of spec.md 4.2-4.4. |
| gap_drops_code | `MCGapPartition.cfg` | violation | `InstructionsPartitioned` (spec.md 8) fails. In `[B loc_1000 @0x1000, gap, MOV @0x1008]`, the MOV is in no block. Spec.md 4.3 describes exactly this, so spec.md contradicts itself, and the code follows 4.3. |
| target_zero | `MCTargetZero.cfg` | violation | With `Base = 0`, `B loc_0` gets no edge, because `if target:` is false for 0. |
| always_branch | `MCAlwaysBranch.cfg` | violation | A block ending in `B.AL` gets a fallthrough edge instead of its jump edge. |
| test_bit_immediate | `MCTestBit.cfg` | violation | `TBZ W0, #0x3, loc_X` resolves to 3, so `loc_X` lands inside a block. |
| parallel_edges | `MCParallelEdges.cfg` | violation | `NoParallelEdges` (spec.md 3) fails. For `B.EQ` to the next instruction, the code adds a taken and a not-taken edge between the same two blocks. |
| label_quote | `MCLabelQuote.cfg` | violation | `DotRoundTrip` fails for a function whose `ADR` operand carries a string comment (`"Hello"`, `MCStringRefInit`). `to_dot` writes the label inside `label="..."` without escaping (l. 169). A reader's label ends at the quote, so it no longer lists the block's instructions. |
| input_not_validated | `MCInvalidInput.cfg` | violation | `BuildRejectsInvalidInput` (spec.md 7) fails. For a list with a repeated or descending address, `build()` returns a graph, here one with no blocks: the last block's end comes from `instructions[-1]`, and the empty start is skipped by the `continue` of l. 286. |
| main_examples | `MCCFGMainExamples.cfg` | pass | `main` builds and saves the four examples, and each document reads back as its graph (`DotRoundTrip`). 119 states. |
| if_else_scenario | `MCIfElse.cfg` | violation | `IfElseScenario` (spec.md 8) fails. The if-else example has a gap after its else block (0x..24), so that block gets no fallthrough, and the graph has 3 edges, not 4. The switch and nested examples lose a fallthrough the same way. |
| rebuild | `MCRebuild.cfg` | violation | `BlocksAreOrderedDisjointRuns` fails when `build()` is called a second time on the same builder (`ReuseNext`, at most two calls). `self.cfg` is created once, in `__init__` (l. 227), and nothing resets it. The second call appends a second copy of every block and edge to the graph the first call returned. spec.md 30 says that graph is read-only once returned. |

The properties:

* `BlocksAreOrderedDisjointRuns`: every block is a non-empty run of input
  instructions at consecutive addresses from `start_address` to
  `end_address`. Blocks are in ascending order with disjoint ranges.
* `SingleEntrySingleExit`: inside a block there is no branch or return
  except the last instruction. No branch destination (the label, which is
  the last operand) falls after a block's first instruction.
* `EdgesFollowControlFlow`: at the end of the build, the out-edges of each
  block equal the successors of its terminator that are code of the
  function, as (address, kind) pairs, with no duplicates. Successors follow
  ARM64 semantics: B/BR/B.AL jump, B.cond/CB(N)Z/TB(N)Z may jump or fall
  through, BL/BLR fall through, RET ends. This does not use the code's
  classifier.
* `ImplementsCFGSpec`: refinement of `CFGSpec!Spec`.
* `InstructionsPartitioned` (violation run only): the partition property of
  spec.md 8.
* `DotRoundTrip`: the last document written names the function. Its node
  ids are the blocks' ids in ascending order. For each node, the label a
  DOT reader recovers (`ReadLabel`: the quoted attribute ends at the first
  double quote) is the block's instructions: address, mnemonic and
  operands. Every edge statement joins declared nodes.
  Reading each statement with the legend of spec.md 4.6 gives back exactly
  the graph's edges with their kinds: `T`, `F` and `call` name their kind,
  and unlabelled edges are told apart by colour and style. The fill colour
  tells entry, return and conditional blocks from each other and from the
  rest.
* Violation runs only: `NoParallelEdges`, `BuildRejectsInvalidInput`,
  `IfElseScenario`. Each is a sentence of spec.md,
  cited in its comment.

Every property of a passing run has a mutant in `CFGBuilder.tla`, defined
just before the definition it replaces and listed in `PROJECT.json`.

### Bounds and why they are enough

* Four slots are enough for every shape of interest: a branch back to the
  entry, a forward branch over a block, a gap followed by targeted or
  untargeted code, a call inside a block, an unresolved branch, a return in
  the middle, and a branch to the address just past the function.
* Each classifier arm has one representative mnemonic: the code treats all
  mnemonics of one list the same.
* The choices are `MOV`, `RET`, `BR x8`, `BL sub_..`, `B.EQ x8`
  (unresolved), `B`/`B.EQ` to every slot and to the address past the end,
  and `BL` to a label inside the function.
* The violation runs use three slots and one extra choice each.
  `MCInitInvalid` enumerates every list of three instructions over the
  three slots that breaks the contract, either by a repeated or by a
  descending address.
* The `main` runs use exactly the program's four inputs. The exception is
  label_quote, which runs `main`'s loop on one added function,
  `example_string_ref` in `MCCFGMain.tla`. It is the shape IDA gives a
  string reference: `STP`, `ADR X0, aHello ; "Hello"`, `BL _puts`, `LDP`,
  `RET`.

### Fairness and deadlock

No run assumes fairness, and no liveness property is checked. That `main`
ends with every example saved holds by construction: it is a sequence of
Python `for` loops over four fixed, non-empty lists. A mutant that breaks
it would have to change a loop bound that Python's `for` does not have.
Every property checked is a safety property.

The states `pc = "done"` and `pc = "raised"` (builder runs) and `main` with nothing left to do
(`main` runs) have no successor, because the program has returned. For that
reason the cfgs set `CHECK_DEADLOCK FALSE`.

## 4. Not modelled, and why

* The DOT text itself: the fixed header lines, the layout, and the
  `print`s of `save_dot` and `main`. Of the quoting, only what a reader
  sees is modelled: a quote token ends the label (`ReadLabel`). The
  unescaped function name in the header (l. 151) is not exercised,
  because the example names are fixed.
* The text of the IndexError for the empty list. It is modelled as the
  error state `pc = "raised"` (`CreateBlockIndexError`).
* More than two calls of `build()` on one builder. The rebuild run bounds
  the calls at two, which is enough to show the duplication. No caller in
  the repository calls `build()` more than once.
* Distinct colours for the two conditional edge kinds (spec.md 4.6).
  `to_dot` draws both kinds red and solid, and tells them apart only by
  the T/F label. No run checks this, because the property would only
  restate the style table of l. 186-189. `DotRoundTrip` checks that the
  labels give each edge's kind back.
* Misaligned branch targets (a `loc_` inside an instruction). An earlier
  version of the project checked them, and the run was dropped. ARM64
  instructions are 4-byte aligned, and IDA names `loc_` labels only at
  instruction addresses, so the tool never meets this input.
* `gen_apk_repositories.py` is a packaging script with no CFG logic. It
  writes two constant lines to a file named by environment variables. Its
  `trim` helper is never called. It has no state to check.
* Case folding (`upper()`): the inputs are upper case.

## 5. Plan

Done:

1. `Instruction`, `CFGBuilder`, `CFGSpec` with its refinement, and the four
   divergence runs.
2. Input validation and parallel edges: violation runs.
3. Serializer `Dot` and the driver `CFGMain`: the round trip
   and the spec.md scenario divergence. A termination property under
   weak fairness was dropped, because it held by construction.

7. `block_map` is now a variable written by `add_block`. The code never
   reads it, so no property is stated about it. Unescaped quotes in
   labels (label_quote).

8. A second `build()` on one builder (`Rebuild`, run rebuild). The
   edge loop now runs over `_create_basic_blocks`' own list
   (`new_blocks`), as the code does.

Next:

4. Done: the empty list's IndexError is the state `pc = "raised"`. Both
   builder runs include the empty list. `CFGSpec` never builds for it
   (spec.md 7), so `ImplementsCFGSpec` checks that no graph is returned.
5. Larger instances of the round trip: the builder's exhaustive inputs fed
   through `save_dot`. This has to fit the limit on the number of runs.
6. A scenario for an unresolved conditional target (spec.md 8). No example
   exercises it; the exhaustive runs cover it through `B.EQ x8`.
