------------------------- MODULE MCSessionTransfer -------------------------
(* SessionTransfer on small instances. *)
EXTENDS SessionTransfer

\* The receiver of link 0 prefetches one message, that of link 2 five, of which two
\* make a quarter; the receiver of link 1 grants credit by hand.
MixedCredit == [l \in Links |-> CASE l = 0 -> 1 [] l = 1 -> 0 [] l = 2 -> 5]

\* Link 0 asks for a flow after every message and link 1 after every second one, so
\* that on link 1 the window has to come back by itself.
OneAndEight == [l \in Links |-> IF l = 0 THEN 1 ELSE 8]

\* Every receiver prefetches two messages.
PrefetchTwo == [l \in Links |-> 2]
=============================================================================
