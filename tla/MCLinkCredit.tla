---------------------------- MODULE MCLinkCredit ----------------------------
(* LinkCredit on small instances. *)
EXTENDS LinkCredit

\* The receiver of link 1 grants credit by hand, that of link 2 prefetches two messages.
ByHandAndTwo == [l \in Links |-> IF l = 1 THEN 0 ELSE 2]

\* Every receiver prefetches four messages.
PrefetchFour == [l \in Links |-> 4]
=============================================================================
