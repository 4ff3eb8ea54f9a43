------------------------------ MODULE MCRunRecord ------------------------------
(* Small instances of RunRecord: every shape of request that PlanAgent parses,  *)
(* some outputs of other agents, and workspaces from closed to open.            *)
EXTENDS RunRecord

SomeRequests == {
    <<"hello">>, <<"dev">>, <<"test">>,
    <<"inspect", "p">>, <<"inspect", "test">>, <<"inspect", "test", "py">>,
    <<"dev", "inspect", "p", "test", "py", "-m">>,
    <<"propose-create", "p">>, <<"propose-create", "out", "of">>,
    <<"dev", "propose-create", "p", "test", "py">>,
    <<"propose-create", "p", "test", "py", "-m", "x">>,
    <<"dev", "propose-modify", "p", "--content", "txt", "test", "py", "-m">>,
    <<"propose-modify", "p", "--content", "'run", "suite'">>,
    <<"propose-modify", "p", "--content", "'run", "test", "suite'">>,
    <<"propose-modify", "p", "txt">>, <<"dev", "dev", "inspect", "p">>,
    <<"dev", "test", "rm", "p">>}

Output(mode, changes, effects) ==
    [agent |-> "plan", policy |-> "serial", mode |-> mode, changes |-> changes, effects |-> effects]
Create(path) == [path |-> path, operation |-> "create"]
Modify(path) == [path |-> path, operation |-> "modify"]
Py == TestEffect(<<"py">>, {})
PyWrites == TestEffect(<<"py", "-m">>, {"cache"})

AcceptedOutputs == [agent : {"plan"}, policy : {"serial"}, mode : {"dev", "default"},
    changes : {<<>>, <<Create(<<"p">>)>>, <<Create(<<"p">>), Modify(<<"q">>)>>,
               <<Modify(<<"q">>), Create(<<"p">>), Modify(<<"q">>)>>},
    effects : {<<>>, <<Py>>, <<Py, PyWrites>>, <<InspectEffect(<<"p">>), Py>>,
               <<Py, InspectEffect(<<"p">>), InspectEffect(<<"q">>)>>}]
RefusedOutputs == {
    Output("dev", <<[path |-> <<"p">>, operation |-> "delete"]>>, <<Py>>),
    Output("default", <<Create(<<>>)>>, <<>>),
    Output("default", <<>>, <<Py, [Py EXCEPT !.kind = "shell"]>>),
    Output("dev", <<>>, <<InspectEffect(<<>>)>>),
    [Output("dev", <<Create(<<"p">>)>>, <<Py>>) EXCEPT !.agent = "coder"],
    [Output("dev", <<Create(<<"p">>)>>, <<Py>>) EXCEPT !.policy = "parallel"]}
AnyOutput == AcceptedOutputs \union RefusedOutputs

Config(provider, network, scheme, host) ==
    [provider |-> provider, network |-> network,
     endpoint |-> [scheme |-> scheme, host |-> host]]
SomeConfigs == {Config("local", FALSE, "stub", "local"),
                Config("local", TRUE, "stub", "local"),
                Config("local", FALSE, "http", "localhost.evil"),
                Config("cloud", FALSE, "http", "localhost")}

Closed == [inspect |-> FALSE, test |-> FALSE, scope |-> {<<"p">>, <<"q">>},
           argvs |-> {}, prefixes |-> {}, writable |-> {}]
Exact == [Closed EXCEPT !.inspect = TRUE, !.test = TRUE, !.argvs = {<<"py">>}]
Open == [Closed EXCEPT !.inspect = TRUE, !.test = TRUE, !.prefixes = {<<"py">>, <<>>},
                       !.writable = {"cache"}]
Longer == [Open EXCEPT !.prefixes = {<<"py", "-m">>}, !.scope = {<<"p">>}]
SomeRecords == {Closed, Exact, Open, Longer}
SomeApprovals == {{}, {<<"p">>}, {<<"q">>}, {<<"p">>, <<"q">>}}
===============================================================================
