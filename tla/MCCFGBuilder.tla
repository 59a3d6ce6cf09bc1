---------------------------- MODULE MCCFGBuilder ----------------------------
(***************************************************************************)
(* Model-checking instance of CFGBuilder.  The function occupies NSlots    *)
(* instruction slots at Base, Base+4, ...; the first slot always holds the *)
(* entry instruction and every other slot holds an instruction or is a     *)
(* gap.  Each instruction is one of a set of choices, so Init enumerates   *)
(* every sorted, duplicate-free list over those slots (spec.md 6).         *)
(***************************************************************************)
EXTENDS CFGBuilder

CONSTANTS Base, NSlots, InstrChoices

ASSUME Base \in Nat /\ NSlots \in Nat \ {0}

Slot(k) == Base + 4 * k

(* Branch targets: every slot, and the address just past the function. *)
Targets == {Slot(k) : k \in 0..NSlots}

Choice(m, ops) == [mnemonic |-> m, operands |-> ops]

(* Representatives of each arm of the classifier: a plain instruction,    *)
(* RET, BR x8 and BL sub_xxx (unresolved), B.EQ with an operand naming no *)
(* address, B and B.EQ to every target, and BL to a label inside the       *)
(* function (which makes a block start there, as any branch target does).  *)
BaseChoices ==
    {Choice("MOV", <<Reg, Reg>>), Choice("RET", <<>>), Choice("BR", <<Reg>>),
     Choice("BL", <<Reg>>), Choice("B.EQ", <<Reg>>), Choice("BL", <<Loc(Slot(2))>>)}
    \cup {Choice(m, <<Loc(t)>>) : m \in {"B", "B.EQ"}, t \in Targets}

(* B.AL, the always-taken form of B.<cond>, to every target. *)
AlwaysBranchChoices ==
    BaseChoices \cup {Choice("B.AL", <<Loc(t)>>) : t \in Targets}

(* TBZ/TBNZ take the bit number before the label; a disassembler in the   *)
(* Hopper style prints it in hex: "TBZ W0, #0x3, loc_...".                 *)
TestedBit == 3

TestBitChoices ==
    BaseChoices \cup {Choice("TBZ", <<Reg, Hex(TestedBit), Loc(t)>>) : t \in Targets}

(* An empty slot. *)
Gap == Choice("", <<>>)

(* The list of the instructions of the present slots of p, in order. *)
ListOf(p) ==
    LET order == SelectSeq([n \in 1..NSlots |-> n - 1], LAMBDA k : p[k] # Gap) IN
    [n \in 1..Len(order) |->
        [address  |-> Slot(order[n]),
         mnemonic |-> p[order[n]].mnemonic,
         operands |-> p[order[n]].operands]]

(* Init of CFGBuilder for every list with the entry at Base whose other    *)
(* slots each hold one of InstrChoices or are a gap (all valid inputs),    *)
(* and for the empty list.                                                 *)
MCInit ==
    /\ \/ \E p \in [0..(NSlots - 1) -> InstrChoices \cup {Gap}] :
             /\ p[0] # Gap
             /\ instructions = ListOf(p)
       \/ instructions = <<>>
    /\ Start

(* Init of CFGBuilder for every list of NSlots instructions, each at one   *)
(* of the slots, that breaks the input contract: an address repeats or the *)
(* addresses are not ascending.                                            *)
MCInitInvalid ==
    /\ \E at \in [1..NSlots -> 0..(NSlots - 1)], c \in [1..NSlots -> InstrChoices] :
          /\ instructions = [n \in 1..NSlots |->
                [address |-> Slot(at[n]), mnemonic |-> c[n].mnemonic,
                 operands |-> c[n].operands]]
          /\ ~ValidInput(instructions)
    /\ Start

(* The builder's steps and a second call of build() on the same builder.   *)
(* Bound: build() is called at most twice; the second call is taken while  *)
(* self.cfg holds the blocks of one call only.                             *)
ReuseNext == Next \/ (Rebuild /\ Len(blocks) = Len(new_blocks))

=============================================================================
