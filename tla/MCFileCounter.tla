---------------------------- MODULE MCFileCounter ----------------------------
(***************************************************************************)
(* An instance of FileCounter: the root has a file and two directories,    *)
(* one of which has a deeper one; with its seven files the count overflows *)
(* an exit status of two bits.                                             *)
(***************************************************************************)
EXTENDS FileCounter

MCContents ==
  [d \in Dirs |-> CASE d = "root" -> {"f1", "A", "B"}
                    [] d = "A"    -> {"f2", "f3", "C"}
                    [] d = "B"    -> {"f4"}
                    [] d = "C"    -> {"f5", "f6", "f7"}]

=============================================================================
