------------------------------ MODULE MCLogin -------------------------------
(* Instances of Login for TLC. *)
EXTENDS Login, TLC

CONSTANT l1

File == [opens |-> TRUE, type |-> "file", uid |-> User, private |-> TRUE,
         bytes |-> "header", kdf |-> [m |-> 64, t |-> 3, p |-> 1]]
Refused == [File EXCEPT !.kdf.t = 9]
Stalled == [File EXCEPT !.bytes = "stalls"]

MCDirectories == {<<File, File, Refused>>, <<File, Stalled, File>>}

Arg(n, v) == [name |-> n, value |-> v]
MCArguments == {<<Arg("collection", 2), Arg("auto_start", "maybe")>>,
                <<Arg("auto_start", "off"), Arg("collection", 0)>>}

MCDatabase == {[found |-> TRUE, home |-> "absolute", uid |-> User],
               [found |-> TRUE, home |-> "relative", uid |-> User]}
=============================================================================
