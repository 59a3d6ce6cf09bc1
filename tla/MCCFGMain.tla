------------------------------ MODULE MCCFGMain ------------------------------
(***************************************************************************)
(* Model-checking instance of CFGMain: MainInit runs main on the four      *)
(* example functions of src/CFGGenerator.py, in the order main calls them. *)
(***************************************************************************)
EXTENDS CFGMain

(* A function as IDA disassembles a reference to a C string: the operand  *)
(* text of ADR carries the string as a comment,                            *)
(*     ADR X0, aHello ; "Hello"                                            *)
(* that is <<Reg, Reg, Quote>>; "_puts" is a register-kind token.          *)
example_string_ref ==
    [name |-> "string_ref",
     instructions |->
       << I(0, "STP", PairSP), I(4, "ADR", <<Reg, Reg, Quote>>),
          I(8, "BL", <<Reg>>), I(12, "LDP", PairSP), I(16, "RET", <<>>) >>]

(* main's loop, on the string-reference function alone. *)
MCStringRefInit == Idle(<<example_string_ref>>)

=============================================================================
