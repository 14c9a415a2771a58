------------------------------ MODULE MCMount -------------------------------
EXTENDS Mount

(* Bodies of no byte, below and at the hash's length, for a shard and for  *)
(* parts; the last part of the last one is empty.                          *)
MCBodies == {<<>>, <<65>>, <<65, 66>>, <<67, 68, 69>>, <<70, 71, 72, 73, 74, 75>>}

(* A body with a byte that is a negative char. *)
MCHighBodies == {<<65>>, <<200>>}

Absent == [k \in Keys |-> 0]
Set(k1, k2, f) == [f EXCEPT !["username"] = k1, !["password"] = k2]
Full == [Set(1, 1, Absent) EXCEPT !["proxyurl"] = 1, !["max-upload-rate"] = 2,
                                  !["max-download-rate"] = 3]
Started(cli, file) == [usage |-> FALSE, cli |-> cli, readable |-> TRUE, file |-> file]

MCSettings ==
    {Started([Set(1, 1, Absent) EXCEPT !["proxyurl"] = 2], Full),
     [Started(Set(1, 1, Absent), Full) EXCEPT !.readable = FALSE],
     [Started(Set(1, 1, Absent), Absent) EXCEPT !.usage = TRUE],
     Started([Absent EXCEPT !["proxyurl"] = Empty], Full),
     Started([Set(1, 1, Absent) EXCEPT !["max-upload-rate"] = 2], Absent),
     Started(Set(1, 0, Absent), Absent),
     Started(Set(1, Empty, Absent), Absent),
     Started(Absent, [Full EXCEPT !["max-upload-rate"] = Wrong]),
     Started(Absent, [Full EXCEPT !["cachedir"] = NoDirectory])}

MCOne == {Started(Set(1, 1, Absent), Absent)}
=============================================================================
