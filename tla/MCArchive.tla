------------------------------ MODULE MCArchive ------------------------------
(***************************************************************************)
(* All projects over two names: of files, links and empty directories on   *)
(* two levels, of files on three; packed without a folder around them, in  *)
(* one, in three, and from a sibling directory ("../w").  The last ones    *)
(* have something the operating system has left in them.                   *)
(***************************************************************************)
EXTENDS Archive

MCNames == {"a", "b"}
MCPaths(depth) == UNION {[1 .. n -> MCNames] : n \in 1 .. depth}
MCInside(p, q) == Len(p) < Len(q) /\ SubSeq(q, 1, Len(p)) = p
MCTrees(depth) == {s \in SUBSET MCPaths(depth) : \A p, q \in s : ~ MCInside(p, q)}

MCProjects ==
  UNION {{{[path |-> p, kind |-> k[p]] : p \in tree} : k \in [tree -> Kinds]} : tree \in MCTrees(2)}
  \cup {{[path |-> p, kind |-> "file"] : p \in tree} : tree \in MCTrees(3)}
  \cup {{[path |-> p, kind |-> "file"] : p \in {<<"a", "junk">>} \cup tree} :
             tree \in SUBSET {<<"a", "a">>, <<"b">>}}

MCWrappers == {<<>>, <<"w">>, <<"..", "w">>, <<"w", "w", "w">>}
=============================================================================
