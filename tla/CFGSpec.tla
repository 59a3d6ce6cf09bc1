------------------------------- MODULE CFGSpec -------------------------------
(***************************************************************************)
(* The abstract specification of CFG construction: what the design says    *)
(* build() computes, stated as sets rather than loops (spec.md 4.2-4.4).   *)
(* In one step the graph appears, equal to a function of the input list:   *)
(*   Leaders  the boundary set of 4.2,                                     *)
(*   Blocks   one block per leader: the run of present, contiguous         *)
(*            addresses from it that stops before the next leader or a     *)
(*            gap (4.3), tagged by its last instruction, entry first,      *)
(*   Edges    the table of 4.4, each to the block containing the address.  *)
(* The instruction classifier is shared with the code (module Instruction).*)
(***************************************************************************)
EXTENDS Instruction, FiniteSets

VARIABLES input, built, graph

Addrs == {input[k].address : k \in DOMAIN input}

InstrAt(a) == input[CHOOSE k \in DOMAIN input : input[k].address = a]

Entry == input[1].address

(* 4.2: the entry, the address after every branch or return, and every     *)
(* resolved branch target, each only if an instruction is there.           *)
Leaders ==
    {Entry}
    \cup ({input[k].address + 4 : k \in {k \in DOMAIN input :
              is_branch(input[k]) \/ is_return(input[k])}} \cap Addrs)
    \cup ({get_branch_target(input[k]) : k \in {k \in DOMAIN input :
              is_branch(input[k])}} \cap Addrs)

(* 4.3: the addresses of the block that starts at leader s. *)
Run(s) ==
    {a \in Addrs :
        /\ a >= s
        /\ (a - s) % 4 = 0
        /\ \A n \in 1..((a - s) \div 4) :
              s + 4 * n \in Addrs \ Leaders}

Kind(s, last) ==
    CASE s = Entry                      -> "entry"
      [] is_return(last)                -> "return"
      [] is_conditional_branch(last)    -> "conditional"
      [] is_unconditional_branch(last)  -> "unconditional"
      [] OTHER                          -> "normal"

Blocks ==
    {[start |-> s, end |-> Max(Run(s)), kind |-> Kind(s, InstrAt(Max(Run(s))))]
        : s \in Leaders}

Containing(a) == {b \in Blocks : b.start <= a /\ a <= b.end}

(* 4.4: an edge of kind k from b to the block containing address a. *)
EdgesTo(b, a, k) == {[from |-> b.start, to |-> c.start, kind |-> k] : c \in Containing(a)}

TakenEdges(b, k) ==
    LET t == get_branch_target(InstrAt(b.end)) IN
    IF t = None THEN {} ELSE EdgesTo(b, t, k)

NotTakenEdges(b, k) ==
    IF b.end + 4 \in Addrs THEN EdgesTo(b, b.end + 4, k) ELSE {}

EdgesOf(b) ==
    LET last == InstrAt(b.end) IN
    CASE is_conditional_branch(last)   -> TakenEdges(b, "conditional_true")
                                          \cup NotTakenEdges(b, "conditional_false")
      [] is_unconditional_branch(last) -> TakenEdges(b, "unconditional")
      [] is_return(last)               -> {}
      [] OTHER                         -> NotTakenEdges(b, "fallthrough")

Edges == UNION {EdgesOf(b) : b \in Blocks}

NoGraph == [blocks |-> {}, edges |-> {}]

(* Any input list; the graph does not exist yet. *)
Init ==
    /\ input \in Seq(Instr)
    /\ built = FALSE
    /\ graph = NoGraph

(* spec.md 7: an empty list is rejected, so no graph is ever built for it. *)
Build ==
    /\ input # <<>>
    /\ ~built
    /\ built' = TRUE
    /\ graph' = [blocks |-> Blocks, edges |-> Edges]
    /\ UNCHANGED input

Spec == Init /\ [][Build]_<<input, built, graph>>

=============================================================================
