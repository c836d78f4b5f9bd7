------------------------------ MODULE MCBinding -----------------------------
(* Instances of Binding for TLC: the two entry points whose methods take   *)
(* every path, since a result may also have no bytes and no relocations.   *)
EXTENDS Binding
SomeApis == {"create", "assemble_with_relocs", "assemble_to_instructions_with_relocs"}
=============================================================================
