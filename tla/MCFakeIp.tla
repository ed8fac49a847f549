------------------------------ MODULE MCFakeIp -------------------------------
(* The fake-IP table on two addresses and a ring of two: three names that   *)
(* may be faked, one of them a second spelling of another, one that may     *)
(* not, and two threads.                                                    *)
EXTENDS FakeIp, TLC

CONSTANTS t1, t2

MCThreads == {t1, t2}
Symmetric == Permutations(MCThreads)

Www == <<"www", "example", "com">>
MCNames == {[labels |-> Www, root |-> FALSE], [labels |-> Www, root |-> TRUE],
            [labels |-> <<"api", "example", "com">>, root |-> FALSE],
            [labels |-> <<"printer", "local">>, root |-> FALSE],
            [labels |-> <<"dc1", "corp", "com">>, root |-> FALSE]}
MCAdSuffix == <<"corp", "com">>
=============================================================================
