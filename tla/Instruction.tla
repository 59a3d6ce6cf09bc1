----------------------------- MODULE Instruction -----------------------------
(***************************************************************************)
(* The instruction model of src/CFGGenerator.py (class Instruction): the   *)
(* control-flow classification of a decoded ARM64 instruction and the     *)
(* extraction of its branch target from the operand text.                  *)
(*                                                                         *)
(* Data abstraction.  An instruction is a record                           *)
(*     [address |-> Int, mnemonic |-> STRING, operands |-> Seq(Token)]      *)
(* Mnemonics are the upper-case strings the code compares against (the     *)
(* call to upper() is the identity on them).  The operand text is the      *)
(* sequence of its comma-separated tokens, each abstracted to what the two *)
(* regular expressions of get_branch_target can see in it:                 *)
(*   kind "hex": the token contains "0x<digits>" (a literal such as        *)
(*               0x100000020, or an immediate such as #0x3); val = digits  *)
(*   kind "loc": the token is a label loc_<digits>; val = digits           *)
(*   kind "quote": a token with a double quote and neither pattern, such   *)
(*               as the string comment of IDA's ADR X0, aHello ; "Hello"   *)
(*   kind "reg": anything else (a register, sub_<name>, ...)               *)
(***************************************************************************)
EXTENDS Integers, Sequences, SequencesExt

CONSTANT None           \* Python's None, a model value

Token(kind, val) == [kind |-> kind, val |-> val]
Hex(a) == Token("hex", a)
Loc(a) == Token("loc", a)
Reg    == Token("reg", 0)
Quote  == Token("quote", 0)

Instr == [address : Int, mnemonic : STRING,
          operands : Seq([kind : {"hex", "loc", "reg", "quote"}, val : Int])]

(* The mnemonic lists of is_branch .. is_return. *)
BranchMnemonics ==
    { "B", "BR", "BL", "BLR",
      "B.EQ", "B.NE", "B.CS", "B.CC", "B.MI", "B.PL",
      "B.VS", "B.VC", "B.HI", "B.LS", "B.GE", "B.LT",
      "B.GT", "B.LE", "B.AL",
      "CBZ", "CBNZ", "TBZ", "TBNZ" }

ConditionalMnemonics ==
    { "B.EQ", "B.NE", "B.CS", "B.CC", "B.MI", "B.PL",
      "B.VS", "B.VC", "B.HI", "B.LS", "B.GE", "B.LT",
      "B.GT", "B.LE",
      "CBZ", "CBNZ", "TBZ", "TBNZ" }

is_branch(i)               == i.mnemonic \in BranchMnemonics
is_conditional_branch(i)   == i.mnemonic \in ConditionalMnemonics
is_unconditional_branch(i) == i.mnemonic \in {"B", "BR"}
is_call(i)                 == i.mnemonic \in {"BL", "BLR"}
is_return(i)               == i.mnemonic = "RET"

(***************************************************************************)
(* get_branch_target: the first token matching 0x<hex> wins; only when     *)
(* there is none is a loc_<hex> label looked for; otherwise None.          *)
(***************************************************************************)
get_branch_target(i) ==
    LET h == SelectInSeq(i.operands, LAMBDA t : t.kind = "hex")
        l == SelectInSeq(i.operands, LAMBDA t : t.kind = "loc")
    IN  IF h # 0 THEN i.operands[h].val
        ELSE IF l # 0 THEN i.operands[l].val
        ELSE None

(* Python truthiness of a target, as in "if target": None and 0 are false. *)
Truthy(target) == target # None /\ target # 0

=============================================================================
