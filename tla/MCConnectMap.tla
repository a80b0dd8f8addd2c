---------------------------- MODULE MCConnectMap ----------------------------
EXTENDS ConnectMap, TLC

\* Two resources share server 1, with one and with two sockets; the other entries are a
\* repeated server, one without an address and a resource too many.
Entry(r, s, n) == [name |-> r, server |-> s, socknum |-> n, long |-> TRUE]
MCConfig == <<Entry("a", 1, 1), Entry("b", 1, 3), Entry("a", 0, 1), Entry("a", 2, 1),
              Entry("a", 1, 2), Entry("c", 2, 1)>>
Symmetry == Permutations(Threads)
=============================================================================
