------------------------------ MODULE MCUpload ------------------------------
(* Two peers whose interest changes; and one, with or without the Fast     *)
(* extension, that makes requests.                                         *)
EXTENDS Upload, TLC

CONSTANTS p1, p2

MCPeer == {p1, p2}
Load(turns, cancels, reqs, fast, ends) ==
    [turns |-> turns, cancels |-> cancels, reqs |-> reqs, fast |-> fast, ends |-> ends]
Others == Load(0, 0, {}, TRUE, FALSE)
MCLoads ==
    {[p \in MCPeer |-> Load(1, 0, {}, FALSE, p = p1)],
     p1 :> Load(1, 0, {1}, TRUE, FALSE) @@ p2 :> Load(1, 0, {}, TRUE, FALSE),
     p1 :> Load(3, 0, {1, 2}, TRUE, FALSE) @@ p2 :> Others,
     p1 :> Load(2, 1, {1, 2}, TRUE, FALSE) @@ p2 :> Others,
     p1 :> Load(2, 1, {1, 2}, FALSE, FALSE) @@ p2 :> Others}
=============================================================================
