---------------------------- MODULE MCHttpdConn ----------------------------
(* Small instances of HttpdConn: the requests the clients of the runs send. *)
EXTENDS HttpdConn

Kind(line, fields, units) == [line |-> line, fields |-> fields, body |-> units]

Get        == Kind("GET", <<>>, 0)
GetKeep    == Kind("GET", <<<<"keep", 0>>>>, 0)
GetClose   == Kind("GET", <<<<"agent", 0>>, <<"close", 0>>>>, 0)
GetNoColon == Kind("GET", <<<<"nocolon", 0>>, <<"agent", 0>>>>, 0)
BadLine    == Kind("BAD", <<<<"agent", 0>>>>, 0)
Post(n)    == Kind("POST", <<<<"length", n>>>>, n)
PostClose  == Kind("POST", <<<<"close", 0>>, <<"length", 2>>>>, 2)
PostBare   == Kind("POST", <<>>, 0)

PipelineKinds == {GetKeep, GetClose, GetNoColon, BadLine, Post(1), Post(2)}
LiveKinds     == {Get, PostClose, PostBare}
PostKinds     == {Get, Post(2)}
StaleKinds    == {Post(1), PostBare}
BadKinds      == {BadLine}
EmptyPost     == {Post(0)}
=============================================================================
