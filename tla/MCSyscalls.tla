----------------------------- MODULE MCSyscalls -----------------------------
(***************************************************************************)
(* Two descriptors over a tree of at most four nodes, with buffers that    *)
(* overwrite a file, fit the allocation of fs_touch and outgrow it.        *)
(***************************************************************************)
EXTENDS Syscalls

MCNames == {"a", "..", "/", "README", ""}
MCStored == [n \in MCNames |-> n]

MCPaths == {<<"/">>, <<"/", "a", "/">>, <<"/", "a", "/", "a">>, <<"/", "README", "/">>}

MCBuffers == {<<1>>, <<2, 2, 2>>}
=============================================================================
