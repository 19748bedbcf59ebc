-------------------------- MODULE MCRemoveCommand --------------------------
(* Small instances of RemoveCommand: slots are the VasDolly pair and the     *)
(* suffix of the ZIP comment.                                                *)
EXTENDS RemoveCommand, TLC

(* Two in-place removals of one APK, a third one that puts its result of     *)
(* another APK in the same place, and a get.                                 *)
MCCommands == {"again", "copy", "get", "inplace"}

MCOp == [c \in MCCommands |-> IF c = "get" THEN "get" ELSE "remove"]

MCSource == [c \in MCCommands |-> IF c = "copy" THEN "b" ELSE "a"]

MCDest == [c \in MCCommands |-> "a"]

MCMode ==
    [c \in MCCommands |-> CASE c = "inplace" -> "v2" [] c = "copy" -> "v1" [] OTHER -> "auto"]

MCTarget == [c \in MCCommands |-> "pair"]

MCOrder == [c \in MCCommands |-> <<"pair", "suffix">>]

MCPaths == {"a", "b"}

(* Once with temporary files that are always removed, once without.          *)
MCFaultSets ==
    {{"open", "write", "sync", "rename"}, {"transform", "create", "write", "cleanup", "kill"}}
=============================================================================
