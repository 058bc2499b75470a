------------------------------ MODULE MCRadiosity ------------------------------
(* Instances of RadiosityCache.                                            *)
EXTENDS RadiosityCache

S(at, radius) == [at |-> at, bound |-> 1, distance |-> radius, radius |-> radius]

\* A query with a low weight looks farther than samples are filed.
Low(at) == [at |-> at, bound |-> 2, distance |-> 1, radius |-> 1]

\* +HR: a pass with one thread, one with two, and the final pass.
HRWork == << << <<S(9, 1), S(3, 2)>> >>,
             << <<S(12, 1), S(13, 1)>>, <<S(13, 2), S(5, 1), S(24, 1)>> >>,
             << <<S(14, 1)>>, <<S(11, 1)>> >> >>

\* Without it, two threads begin together.
RaceWork == << << <<S(1, 1), S(6, 1)>>, <<S(14, 2), S(5, 1)>> >> >>

\* +HR with more tiles than a block can tell apart.
CutWork == << << <<S(5, 1)>>, <<S(12, 1)>>, <<S(5, 1), S(6, 2)>> >> >>

\* +HR with queries of a low weight, in a tree that is small at first, and one
\* from the node beside the sample's.
LowWork == << << <<S(7, 2)>> >>, << <<Low(4), S(20, 1)>>, <<Low(10), S(8, 1)>> >> >>

MCRenders == << [highReproducibility |-> TRUE, work |-> HRWork],
                [highReproducibility |-> FALSE, work |-> RaceWork],
                [highReproducibility |-> TRUE, work |-> CutWork],
                [highReproducibility |-> TRUE, work |-> LowWork] >>

ASSUME OneIsDetermined == {r \in DOMAIN MCRenders : Determined(r)} = {1}
=============================================================================
