-------------------------- MODULE MCRequestRouting --------------------------
(* Instances of RequestRouting for TLC.                                    *)
EXTENDS RequestRouting, TLC

CONSTANTS s1, s2, h1, u1, u2, u3, u4, g1

TwoServers == <<s1, s2>>
SmallPaths == {<<"/">>, <<"/", "a">>, <<"/", "a", "b">>}

OneOf(type, path, group) == [type |-> type, path |-> path, group |-> group]
Up(id, priority) == [id |-> id, group |-> g1, priority |-> priority]

\* Routes that overlap, with three upstreams of one priority and one of the next
\* and the host; a pair of upstreams, a path without a route, and no host.
Rotating == [names |-> {h1},
    routes |-> <<OneOf("prefix", <<"/">>, g1), OneOf("full", <<"/", "a">>, None),
                 OneOf("prefix", <<"/", "a">>, g1)>>,
    upstreams |-> <<Up(u4, 2), Up(u1, 1), Up(u2, 1), Up(u3, 1)>>]
Pair == [names |-> {},
    routes |-> <<OneOf("prefix", <<"/", "a", "b">>, None), OneOf("prefix", <<"/", "a">>, g1)>>,
    upstreams |-> <<Up(u1, 1), Up(u2, 1)>>]
SmallConfigurations == {Rotating, Pair}

Symmetry == Permutations(Requests)
=============================================================================
