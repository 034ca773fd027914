------------------------ MODULE LinkLifecycle_proof ------------------------
(***************************************************************************)
(* Proofs about LinkLifecycle, for any two peers, any names, any token     *)
(* times, any number of calls, and whatever liberties the applications     *)
(* take.  First the types, with Typed, the invariant they need.  Then      *)
(* Following: in each direction, what the frames on the stream will do to  *)
(* the remote handles and to the remote ends of the links, if none of them *)
(* is refused, leads every detach to the link that its writer meant.  Then *)
(* Tidy: what a peer still owes before it may forget a link.  Last, for    *)
(* applications that take fewer liberties, Phased: attach and detach take  *)
(* turns in each direction, so that nothing is refused, and at rest both   *)
(* sides agree.                                                            *)
(***************************************************************************)
EXTENDS LinkLifecycle, Induction_proof, SequenceTheorems

\* What the handlers rely on when they follow a name: a link has a handle, and a name
\* without a link has the state of one that was never opened.
Named ==
    \A p \in Peers, n \in Names :
        IF n \in links[p] THEN handle[p][n] \in Handles ELSE state[p][n] = Fresh

\* No handle is that of two links.
HandlesDiffer ==
    \A p \in Peers : \A m, n \in links[p] : handle[p][m] = handle[p][n] => m = n

\* A marker is set only where the peer has closed its end.
MarkedIsClosed ==
    \A p \in Peers, n \in Names :
        /\ state[p][n].marker # 0 => ~ state[p][n].remote_open
        /\ ~ state[p][n].was_open

Typed == TypeOK /\ Named /\ HandlesDiffer /\ MarkedIsClosed

-----------------------------------------------------------------------------
(* Peers, ends and handles.                                                 *)

LEMMA Others ==
    ASSUME NEW p \in Peers
    PROVE  /\ Other(p) \in Peers /\ Other(p) # p /\ Other(Other(p)) = p
           /\ \A q \in Peers : q = p \/ q = Other(p)
<1>1. PICK q \in Peers : p # q /\ Peers = {p, q}
    BY TwoPeers
<1>2. Other(p) = q
    BY <1>1 DEF Other
<1>3. Other(q) = p
    BY <1>1 DEF Other
<1> QED BY <1>1, <1>2, <1>3

LEMMA OpenEnds ==
    ASSUME NEW e \in EndpointStates
    PROVE  Open(e) \in EndpointStates
<1>1. \A x \in Nat : [e EXCEPT !.marker = 0, !.local_open = TRUE, !.open_requests = x]
                         \in EndpointStates
    BY DEF EndpointStates, Marker
<1>2. e.open_requests \in Nat /\ e.open_requests + 1 \in Nat
    BY DEF EndpointStates
<1> QED BY <1>1, <1>2 DEF Open

\* What the methods of an end do to it.
LEMMA Ends ==
    ASSUME NEW e \in EndpointStates
    PROVE  /\ Open(e) \in EndpointStates /\ Close(e) \in EndpointStates
           /\ RemoteOpened(e) \in EndpointStates /\ RemoteClosed(e) \in EndpointStates
           /\ Attached(e) \in EndpointStates /\ Settled(e) \in EndpointStates
           /\ \A t \in Nat : Mark(RemoteClosed(e), t) \in EndpointStates
<1>1. Open(e) \in EndpointStates
    BY OpenEnds
<1>2. Close(e) \in EndpointStates
  <2>1. \A x \in Nat : [e EXCEPT !.marker = 0, !.local_open = FALSE, !.close_requests = x]
                           \in EndpointStates
    BY DEF EndpointStates, Marker
  <2>2. e.close_requests \in Nat /\ e.close_requests + 1 \in Nat
    BY DEF EndpointStates
  <2> QED BY <2>1, <2>2 DEF Close
<1>3. RemoteOpened(e) \in EndpointStates /\ RemoteClosed(e) \in EndpointStates
    BY DEF EndpointStates, Marker, RemoteOpened, RemoteClosed
<1>4. Attached(e) \in EndpointStates
  <2>1. \A d \in EndpointStates : Open(d) \in EndpointStates
    BY OpenEnds
  <2> QED BY <1>3, <2>1 DEF Attached
<1>5. Settled(e) \in EndpointStates
    BY DEF EndpointStates, Marker, Settled
<1>6. \A t \in Nat : Mark(RemoteClosed(e), t) \in EndpointStates
    BY DEF EndpointStates, Marker, Mark, RemoteClosed
<1> QED BY <1>1, <1>2, <1>3, <1>4, <1>5, <1>6

LEMMA OpenIs ==
    ASSUME NEW e \in EndpointStates
    PROVE  /\ Open(e).local_open /\ Open(e).marker = 0
           /\ Open(e).remote_open = e.remote_open /\ Open(e).was_open = e.was_open
           /\ Open(e).close_requests = e.close_requests
           /\ Open(e).open_requests = e.open_requests + (IF e.local_open THEN 0 ELSE 1)
BY DEF EndpointStates, Marker, Open

LEMMA CloseIs ==
    ASSUME NEW e \in EndpointStates
    PROVE  /\ ~ Close(e).local_open /\ Close(e).marker = 0
           /\ Close(e).remote_open = e.remote_open /\ Close(e).was_open = e.was_open
           /\ Close(e).open_requests = e.open_requests
           /\ Close(e).close_requests = e.close_requests + (IF e.local_open THEN 1 ELSE 0)
BY DEF EndpointStates, Marker, Close

LEMMA AttachedIs ==
    ASSUME NEW e \in EndpointStates
    PROVE  /\ Attached(e).local_open /\ Attached(e).marker = 0
           /\ Attached(e).remote_open /\ Attached(e).was_open = e.was_open
           /\ Attached(e).close_requests = e.close_requests
           /\ Attached(e).open_requests = e.open_requests + (IF e.local_open THEN 0 ELSE 1)
BY DEF EndpointStates, Marker, Attached, Open, RemoteOpened

LEMMA DetachedIs ==
    ASSUME NEW e \in EndpointStates, NEW t \in Nat
    PROVE  LET m == Mark(RemoteClosed(e), t)
           IN  /\ m.local_open = e.local_open /\ m.marker = t
               /\ ~ m.remote_open /\ m.was_open = e.was_open
               /\ m.open_requests = e.open_requests /\ m.close_requests = e.close_requests
BY DEF EndpointStates, Marker, Mark, RemoteClosed

LEMMA SettledIs ==
    ASSUME NEW e \in EndpointStates
    PROVE  /\ Settled(e).local_open = e.local_open /\ Settled(e).marker = e.marker
           /\ Settled(e).remote_open = e.remote_open /\ Settled(e).was_open = e.was_open
           /\ Settled(e).open_requests = 0 /\ Settled(e).close_requests = 0
BY DEF EndpointStates, Marker, Settled

LEMMA FreshIs ==
    /\ Fresh \in EndpointStates /\ ~ Fresh.local_open /\ ~ Fresh.remote_open
    /\ ~ Fresh.was_open /\ Fresh.marker = 0
    /\ Fresh.open_requests = 0 /\ Fresh.close_requests = 0
BY DEF EndpointStates, Marker, Fresh

LEMMA FreshSettled == Settled(Fresh) = Fresh
<1> DEFINE once == [Fresh EXCEPT !.open_requests = 0]
<1>1. once = Fresh
    BY DEF Fresh
<1>2. Settled(Fresh) = [once EXCEPT !.close_requests = 0]
    BY DEF Settled
<1>3. [Fresh EXCEPT !.close_requests = 0] = Fresh
    BY DEF Fresh
<1> HIDE DEF once
<1> QED BY <1>1, <1>2, <1>3

\* There is a handle for one link more, and no link has it.
LEMMA FreeHandleIsFree ==
    ASSUME NEW p \in Peers, links[p] \subseteq Names, NEW n \in Names, n \notin links[p]
    PROVE  /\ FreeHandle(p) \in Handles
           /\ \A m \in links[p] : handle[p][m] # FreeHandle(p)
<1> DEFINE used == {handle[p][m] : m \in links[p]}
           f == [m \in links[p] |-> handle[p][m]]
<1>1. /\ IsFiniteSet(Names) /\ IsFiniteSet(links[p])
      /\ Cardinality(Names) \in Nat /\ Cardinality(links[p]) \in Nat
      /\ Cardinality(links[p]) < Cardinality(Names)
  <2>1. IsFiniteSet(Names) /\ IsFiniteSet(links[p]) /\ Cardinality(links[p]) <= Cardinality(Names)
    BY LinkNames, FS_Subset
  <2>2. Cardinality(Names) # Cardinality(links[p])
    BY LinkNames, FS_Subset
  <2> QED BY <2>1, <2>2, FS_CardinalityType
<1>2. f \in Surjection(links[p], used)
    BY DEF Surjection
<1>3. IsFiniteSet(used) /\ Cardinality(used) <= Cardinality(links[p])
    BY <1>1, <1>2, FS_Surjection
<1> HIDE DEF used, f
<1>4. IsFiniteSet(Handles) /\ Cardinality(Handles) = Cardinality(Names) /\ Handles \subseteq Nat
  <2>1. PICK c : c = Cardinality(Names)
    OBVIOUS
  <2>2. c \in Nat /\ c - 1 \in Int /\ 0 \in Int
    BY <1>1, <2>1
  <2>3. /\ IsFiniteSet(0..(c - 1))
        /\ Cardinality(0..(c - 1)) = IF 0 > c - 1 THEN 0 ELSE (c - 1) - 0 + 1
    BY <2>2, FS_Interval
  <2> QED BY <2>1, <2>2, <2>3 DEF Handles
<1>5. ~ (Handles \subseteq used)
  <2>1. Cardinality(used) \in Nat
    BY <1>3, FS_CardinalityType
  <2>2. Handles \subseteq used => Cardinality(Handles) <= Cardinality(used)
    BY <1>3, FS_Subset
  <2> QED BY <1>1, <1>3, <1>4, <2>1, <2>2
<1>6. PICK h \in Handles \ used : \A g \in Handles \ used : h <= g
  <2>1. Handles \ used \in SUBSET Nat /\ Handles \ used # {}
    BY <1>4, <1>5
  <2> QED BY <2>1, LeastExists
<1>7. \A m \in links[p] : handle[p][m] # h
    BY <1>6 DEF used
<1>8. \A g \in 0..(h - 1) : \E m \in links[p] : handle[p][m] = g
  <2>1. SUFFICES ASSUME NEW g \in 0..(h - 1)
                 PROVE  \E m \in links[p] : handle[p][m] = g
    OBVIOUS
  <2>2. g \in Handles /\ ~ (h <= g)
    BY <1>1, <1>6 DEF Handles
  <2>3. g \in used
    BY <1>6, <2>2
  <2> QED BY <2>3 DEF used
<1>9. \E x \in Handles :
          /\ \A m \in links[p] : handle[p][m] # x
          /\ \A g \in 0..(x - 1) : \E m \in links[p] : handle[p][m] = g
    BY <1>6, <1>7, <1>8
<1> QED BY <1>9 DEF FreeHandle

-----------------------------------------------------------------------------
(* The queue of ticks and a batch of requests.                              *)

LEMMA OneMoreTask ==
    ASSUME NEW queue \in Seq(Tasks), NEW t \in Tasks
    PROVE  Append(queue, t) \in Seq(Tasks)
OBVIOUS

LEMMA RegisterIs ==
    ASSUME NEW queue \in Seq(Tasks), NEW changed \in BOOLEAN
    PROVE  RegisterIf(changed, queue) \in Seq(Tasks)
<1>1. Append(queue, Process) \in Seq(Tasks)
    BY DEF Tasks
<1> QED BY <1>1 DEF RegisterIf, Register

LEMMA RegisterIsOne ==
    ASSUME NEW queue \in Seq(Tasks)
    PROVE  Register(queue) \in Seq(Tasks)
<1>1. Append(queue, Process) \in Seq(Tasks)
    BY DEF Tasks
<1> QED BY <1>1 DEF Register

\* There is one request for each frame that is due, and so finitely many.
LEMMA RequestsAre ==
    ASSUME Typed, NEW p \in Peers
    PROVE  /\ IsFiniteSet(Requests(p))
           /\ \A r \in Requests(p) :
                  /\ r.name \in links[p] /\ r.name \in Names /\ r.index \in Nat \ {0}
                  /\ r.index <= state[p][r.name].open_requests + state[p][r.name].close_requests
                  /\ r = [name |-> r.name, index |-> r.index]
           /\ \A n \in links[p], i \in Nat \ {0} :
                  i <= state[p][n].open_requests + state[p][n].close_requests
                      => [name |-> n, index |-> i] \in Requests(p)
<1> DEFINE due(n) == state[p][n].open_requests + state[p][n].close_requests
           part(n) == [name : {n}, index : 1..due(n)]
           parts == {part(n) : n \in links[p]}
<1>1. /\ links[p] \subseteq Names /\ IsFiniteSet(links[p])
      /\ \A n \in Names : due(n) \in Nat
  <2>1. links[p] \subseteq Names /\ \A n \in Names : state[p][n] \in EndpointStates
    BY DEF Typed, TypeOK
  <2> QED BY <2>1, LinkNames, FS_Subset DEF EndpointStates
<1>2. Requests(p) = UNION parts
    BY DEF Requests
<1> HIDE DEF due
<1>3. \A n \in links[p] : IsFiniteSet(part(n))
  <2>1. SUFFICES ASSUME NEW n \in links[p]
                 PROVE  IsFiniteSet(part(n))
    OBVIOUS
  <2> DEFINE g == [i \in 1..due(n) |-> [name |-> n, index |-> i]]
  <2>2. g \in Surjection(1..due(n), part(n))
    BY DEF Surjection
  <2>3. IsFiniteSet(1..due(n))
    BY <1>1, FS_Interval
  <2> QED BY <2>2, <2>3, FS_Surjection
<1>4. IsFiniteSet(parts)
  <2> DEFINE f == [n \in links[p] |-> part(n)]
  <2>1. f \in Surjection(links[p], parts)
    BY DEF Surjection
  <2> QED BY <2>1, <1>1, FS_Surjection
<1>5. IsFiniteSet(UNION parts)
  <2>1. \A T \in parts : IsFiniteSet(T)
    BY <1>3
  <2> HIDE DEF parts
  <2> QED BY <2>1, <1>4, FS_UNION
<1>6. \A r \in Requests(p) : /\ r.name \in links[p] /\ r.index \in 1..due(r.name)
                            /\ r = [name |-> r.name, index |-> r.index]
    BY <1>2
<1>7. \A n \in links[p] : \A i \in 1..due(n) : [name |-> n, index |-> i] \in Requests(p)
    BY <1>2
<1>8. /\ \A r \in Requests(p) : /\ r.name \in Names /\ r.index \in Nat \ {0}
                                /\ r.index <= due(r.name)
      /\ \A n \in links[p], i \in Nat \ {0} : i <= due(n) => i \in 1..due(n)
    BY <1>1, <1>6
<1> QED BY <1>2, <1>5, <1>6, <1>7, <1>8 DEF due

\* A batch holds every request once.
LEMMA BatchIs ==
    ASSUME NEW S, IsFiniteSet(S), NEW s \in SetToSeqs(S)
    PROVE  /\ Len(s) \in Nat /\ DOMAIN s = 1..Len(s)
           /\ \A i \in 1..Len(s) : s[i] \in S
           /\ \A i, j \in 1..Len(s) : s[i] = s[j] => i = j
           /\ \A r \in S : \E i \in 1..Len(s) : s[i] = r
<1>1. PICK c : c = Cardinality(S)
    OBVIOUS
<1>2. c \in Nat /\ s \in [1..c -> S] /\ \A i, j \in 1..c : i # j => s[i] # s[j]
    BY <1>1, FS_CardinalityType DEF SetToSeqs
<1>3. Len(s) = c /\ DOMAIN s = 1..c
    BY <1>2
<1>4. s \in Injection(1..c, S)
    BY <1>2 DEF Injection, IsInjective
<1>5. IsFiniteSet(1..c) /\ Cardinality(1..c) = c
    BY <1>2, FS_Interval
<1>6. s \in Surjection(1..c, S)
    BY <1>1, <1>4, <1>5, FS_Injection
<1>7. \A r \in S : \E i \in 1..c : s[i] = r
    BY <1>6 DEF Surjection
<1> QED BY <1>2, <1>3, <1>7

\* The frames of a batch are frames.
LEMMA BatchType ==
    ASSUME Typed, NEW p \in Peers, NEW requests \in SetToSeqs(Requests(p))
    PROVE  LET u == [i \in DOMAIN requests |-> FrameFor(p, requests[i])]
           IN  /\ u \in Seq(Frames) /\ Len(u) = Len(requests)
               /\ \A i \in 1..Len(u) :
                      /\ u[i].type = FrameType(state[p][requests[i].name], requests[i].index)
                      /\ u[i].name = requests[i].name
                      /\ u[i].handle = handle[p][requests[i].name]
<1> DEFINE u == [i \in DOMAIN requests |-> FrameFor(p, requests[i])]
<1>1. /\ Len(requests) \in Nat /\ DOMAIN requests = 1..Len(requests)
      /\ \A i \in 1..Len(requests) : requests[i] \in Requests(p)
    BY BatchIs, RequestsAre
<1>2. \A i \in 1..Len(requests) : /\ requests[i].name \in links[p]
                                  /\ requests[i].name \in Names
    BY <1>1, RequestsAre
<1>3. \A n \in links[p] : handle[p][n] \in Handles
    BY DEF Typed, Named, TypeOK
<1>4. \A i \in 1..Len(requests) : FrameFor(p, requests[i]) \in Frames
    BY <1>2, <1>3 DEF FrameFor, FrameType, Frames
<1>5. u \in [1..Len(requests) -> Frames]
    BY <1>1, <1>4
<1>6. u \in Seq(Frames) /\ Len(u) = Len(requests)
    BY <1>1, <1>5
<1>7. \A i \in 1..Len(u) : u[i] = FrameFor(p, requests[i])
    BY <1>1, <1>6
<1>8. \A i \in 1..Len(u) :
          /\ u[i].type = FrameType(state[p][requests[i].name], requests[i].index)
          /\ u[i].name = requests[i].name /\ u[i].handle = handle[p][requests[i].name]
    BY <1>7 DEF FrameFor
<1> QED BY <1>6, <1>8

-----------------------------------------------------------------------------
(* Types.                                                                   *)

LEMMA TypedInit == Init => Typed
<1> SUFFICES ASSUME Init PROVE Typed
    OBVIOUS
<1>1. Cardinality(Names) \in Nat
    BY LinkNames, FS_CardinalityType
<1>2. TypeOK
    BY FreshIs, CallBound DEF Init, TypeOK
<1>3. Named /\ HandlesDiffer
    BY DEF Init, Named, HandlesDiffer
<1>4. MarkedIsClosed
    BY FreshIs DEF Init, MarkedIsClosed
<1> QED BY <1>2, <1>3, <1>4 DEF Typed

LEMMA CalledIs ==
    ASSUME Typed, NEW p \in Peers, Call(p)
    PROVE  calls' \in 0..MaxCalls
<1>1. calls \in 0..MaxCalls
    BY DEF Typed, TypeOK
<1>2. calls < MaxCalls /\ calls' = calls + 1
    BY DEF Call
<1> QED BY <1>1, <1>2, CallBound

LEMMA TypedSame ==
    ASSUME Typed, UNCHANGED vars
    PROVE  Typed'
BY DEF vars, Typed, TypeOK, Named, HandlesDiffer, MarkedIsClosed

LEMMA TypedOpen ==
    ASSUME Typed, NEW p \in Peers, NEW n \in Names, OpenLink(p, n)
    PROVE  Typed'
<1>1. FreeHandle(p) \in Handles /\ \A m \in links[p] : handle[p][m] # FreeHandle(p)
    BY FreeHandleIsFree DEF OpenLink, Typed, TypeOK
<1>2. Open(Fresh) \in EndpointStates
    BY FreshIs, Ends
<1>3. Register(ticks[p]) \in Seq(Tasks)
    BY RegisterIsOne DEF Typed, TypeOK
<1>4. calls' \in 0..MaxCalls
    BY CalledIs DEF OpenLink
<1>5. TypeOK'
    BY <1>1, <1>2, <1>3, <1>4 DEF OpenLink, Typed, TypeOK
<1>6. Named'
  <2>1. \A q \in Peers, m \in Names :
            IF q = p /\ m = n THEN m \in links'[q] /\ handle'[q][m] = FreeHandle(p)
            ELSE /\ m \in links'[q] <=> m \in links[q]
                 /\ handle'[q][m] = handle[q][m] /\ state'[q][m] = state[q][m]
    BY DEF OpenLink, Typed, TypeOK
  <2> QED BY <1>1, <2>1 DEF Typed, Named
<1>7. HandlesDiffer'
  <2>1. SUFFICES ASSUME NEW q \in Peers, NEW i \in links'[q], NEW j \in links'[q],
                        handle'[q][i] = handle'[q][j]
                 PROVE  i = j
    BY DEF HandlesDiffer
  <2>2. \A m \in links[p] : m \in Names /\ m # n /\ handle'[p][m] = handle[p][m]
    BY DEF OpenLink, Typed, TypeOK
  <2>3. handle'[p][n] = FreeHandle(p) /\ links'[p] = links[p] \cup {n}
    BY DEF OpenLink, Typed, TypeOK
  <2>4. q # p => links'[q] = links[q] /\ handle'[q] = handle[q]
    BY DEF OpenLink, Typed, TypeOK
  <2> QED BY <2>1, <2>2, <2>3, <2>4, <1>1 DEF Typed, HandlesDiffer
<1>8. MarkedIsClosed'
  <2>1. Open(Fresh).marker = 0 /\ ~ Open(Fresh).was_open
    BY FreshIs, OpenIs
  <2>2. \A q \in Peers, m \in Names : state'[q][m] \in {state[q][m], Open(Fresh)}
    BY DEF OpenLink, Typed, TypeOK
  <2> QED BY <2>1, <2>2 DEF Typed, MarkedIsClosed
<1> QED BY <1>5, <1>6, <1>7, <1>8 DEF Typed


\* The types of everything but the links and their ends.
Rest ==
    /\ remote_handles \in [Peers -> [Handles -> Names \cup {Nothing, Removed}]]
    /\ ticks \in [Peers -> Seq(Tasks)]
    /\ reading \in [Peers -> BOOLEAN]
    /\ wire \in [Peers -> Seq(Frames)]
    /\ fault \in [Peers -> {"none", "Attach already received",
                            "Detach already received", "Invalid handle"}]
    /\ calls \in 0 .. MaxCalls
    /\ cancelled \subseteq Names

\* A step that changes the end of one link only.
LEMMA TypedEnd ==
    ASSUME Typed, NEW p \in Peers, NEW n \in links[p], NEW e \in EndpointStates,
           e.marker # 0 => ~ e.remote_open, ~ e.was_open,
           state' = [state EXCEPT ![p][n] = e], links' = links, handle' = handle, Rest'
    PROVE  Typed'
<1>1. n \in Names
    BY DEF Typed, TypeOK
<1>2. \A q \in Peers, m \in Names : state'[q][m] = IF q = p /\ m = n THEN e ELSE state[q][m]
    BY <1>1 DEF Typed, TypeOK
<1>3. state' \in [Peers -> [Names -> EndpointStates]]
    BY <1>1 DEF Typed, TypeOK
<1>4. TypeOK'
    BY <1>3 DEF Rest, Typed, TypeOK
<1>5. Named'
    BY <1>2 DEF Named, Typed
<1>6. HandlesDiffer'
    BY DEF HandlesDiffer, Typed
<1>7. MarkedIsClosed'
    BY <1>2 DEF MarkedIsClosed, Typed
<1> QED BY <1>4, <1>5, <1>6, <1>7 DEF Typed

LEMMA TypedClose ==
    ASSUME Typed, NEW p \in Peers, NEW n \in Names, CloseLink(p, n)
    PROVE  Typed'
<1>1. n \in links[p] /\ state[p][n] \in EndpointStates
    BY DEF CloseLink, Typed, TypeOK
<1>2. Close(state[p][n]) \in EndpointStates
    BY <1>1, Ends
<1>3. Close(state[p][n]).marker = 0 /\ ~ Close(state[p][n]).was_open
    BY <1>1, CloseIs DEF Typed, MarkedIsClosed
<1>4. Register(ticks[p]) \in Seq(Tasks)
    BY RegisterIsOne DEF Typed, TypeOK
<1>5. calls' \in 0..MaxCalls
    BY CalledIs DEF CloseLink
<1>6. Rest'
    BY <1>4, <1>5 DEF CloseLink, Rest, Typed, TypeOK
<1>7. state' = [state EXCEPT ![p][n] = Close(state[p][n])] /\ links' = links /\ handle' = handle
    BY DEF CloseLink
<1> QED BY <1>1, <1>2, <1>3, <1>6, <1>7, TypedEnd

LEMMA TypedReopen ==
    ASSUME Typed, NEW p \in Peers, NEW n \in Names, ReopenLink(p, n)
    PROVE  Typed'
<1>1. n \in links[p] /\ state[p][n] \in EndpointStates
    BY DEF ReopenLink, Typed, TypeOK
<1>2. Open(state[p][n]) \in EndpointStates
    BY <1>1, Ends
<1>3. Open(state[p][n]).marker = 0 /\ ~ Open(state[p][n]).was_open
    BY <1>1, OpenIs DEF Typed, MarkedIsClosed
<1>4. Register(ticks[p]) \in Seq(Tasks)
    BY RegisterIsOne DEF Typed, TypeOK
<1>5. calls' \in 0..MaxCalls
    BY CalledIs DEF ReopenLink
<1>6. Rest'
    BY <1>4, <1>5 DEF ReopenLink, Rest, Typed, TypeOK
<1>7. state' = [state EXCEPT ![p][n] = Open(state[p][n])] /\ links' = links /\ handle' = handle
    BY DEF ReopenLink
<1> QED BY <1>1, <1>2, <1>3, <1>6, <1>7, TypedEnd

LEMMA TypesAre ==
    ASSUME Typed, NEW p \in Peers
    PROVE  /\ wire[p] \in Seq(Frames) /\ ticks[p] \in Seq(Tasks)
           /\ \A m \in Names : state[p][m] \in EndpointStates
BY DEF Typed, TypeOK

\* The frame at the head of the stream.
LEMMA HeadIs ==
    ASSUME Typed, NEW p \in Peers, wire[p] # <<>>
    PROVE  /\ Head(wire[p]) = wire[p][1] /\ Head(wire[p]) \in Frames
           /\ Head(wire[p]).name \in Names /\ Head(wire[p]).handle \in Handles
           /\ Tail(wire[p]) \in Seq(Frames) /\ Len(Tail(wire[p])) = Len(wire[p]) - 1
           /\ Len(wire[p]) \in Nat \ {0}
           /\ \A i \in 1..Len(Tail(wire[p])) : Tail(wire[p])[i] = wire[p][i + 1]
<1>1. wire[p] \in Seq(Frames)
    BY DEF Typed, TypeOK
<1>2. Head(wire[p]) = wire[p][1] /\ Head(wire[p]) \in Frames
    BY <1>1
<1>3. Head(wire[p]).name \in Names /\ Head(wire[p]).handle \in Handles
    BY <1>2 DEF Frames
<1>4. /\ Tail(wire[p]) \in Seq(Frames) /\ Len(Tail(wire[p])) = Len(wire[p]) - 1
      /\ \A i \in 1..Len(Tail(wire[p])) : Tail(wire[p])[i] = wire[p][i + 1]
    BY <1>1, HeadTailProperties
<1>5. Len(wire[p]) \in Nat \ {0}
    BY <1>1, EmptySeq
<1> QED BY <1>2, <1>3, <1>4, <1>5

\* The task at the head of the queue.
LEMMA TickIs ==
    ASSUME Typed, NEW p \in Peers, ticks[p] # <<>>
    PROVE  /\ Head(ticks[p]) = ticks[p][1] /\ Head(ticks[p]) \in Tasks
           /\ Tail(ticks[p]) \in Seq(Tasks) /\ Len(Tail(ticks[p])) = Len(ticks[p]) - 1
           /\ Len(ticks[p]) \in Nat \ {0}
           /\ \A i \in 1..Len(Tail(ticks[p])) : Tail(ticks[p])[i] = ticks[p][i + 1]
           /\ Head(ticks[p]).task = "process" => Head(ticks[p]) = Process
           /\ Head(ticks[p]).task = "close"
                  => /\ Head(ticks[p]).name \in Names /\ Head(ticks[p]).token \in Times
                     /\ Head(ticks[p]) = CloseTask(Head(ticks[p]).name, Head(ticks[p]).token)
           /\ Head(ticks[p]).task = "remove"
                  => /\ Head(ticks[p]).name \in Names
                     /\ Head(ticks[p]) = RemoveTask(Head(ticks[p]).name)
<1>1. ticks[p] \in Seq(Tasks)
    BY DEF Typed, TypeOK
<1>2. PICK t : t = Head(ticks[p])
    OBVIOUS
<1>3. t = ticks[p][1] /\ t \in Tasks
    BY <1>1, <1>2
<1>4. /\ Tail(ticks[p]) \in Seq(Tasks) /\ Len(Tail(ticks[p])) = Len(ticks[p]) - 1
      /\ \A i \in 1..Len(Tail(ticks[p])) : Tail(ticks[p])[i] = ticks[p][i + 1]
    BY <1>1, HeadTailProperties
<1>5. Len(ticks[p]) \in Nat \ {0}
    BY <1>1, EmptySeq
<1>6. /\ t.task = "process" => t = Process
      /\ t.task = "close" => /\ t.name \in Names /\ t.token \in Times
                             /\ t = CloseTask(t.name, t.token)
      /\ t.task = "remove" => t.name \in Names /\ t = RemoveTask(t.name)
    BY <1>3 DEF Tasks, Process, CloseTask, RemoveTask
<1> QED BY <1>2, <1>3, <1>4, <1>5, <1>6

LEMMA TypedDetach ==
    ASSUME Typed, NEW p \in Peers, ReadDetach(p)
    PROVE  Typed'
<1> DEFINE n == remote_handles[p][Head(wire[p]).handle]
<1>1. /\ Tail(wire[p]) \in Seq(Frames)
      /\ wire' = [wire EXCEPT ![p] = Tail(@)] /\ reading' = [reading EXCEPT ![p] = TRUE]
      /\ calls' = calls /\ cancelled' = cancelled
      /\ links' = links /\ handle' = handle /\ remote_handles' = remote_handles
    BY HeadIs DEF ReadDetach, Read
<1>2. wire' \in [Peers -> Seq(Frames)] /\ reading' \in [Peers -> BOOLEAN]
    BY <1>1 DEF Typed, TypeOK
<1>3. CASE n \in Names /\ state[p][n].remote_open
  <2>1. PICK time \in Times :
                /\ state' = [state EXCEPT ![p][n] = Mark(RemoteClosed(state[p][n]), time)]
                /\ ticks' = [ticks EXCEPT ![p] = Append(@, CloseTask(n, time))]
                /\ fault' = fault
    BY <1>3 DEF ReadDetach
  <2> HIDE DEF n
  <2>2. time \in Nat /\ state[p][n] \in EndpointStates
    BY <1>3, TimeValues DEF Typed, TypeOK
  <2>3. n \in links[p]
    BY <1>3, FreshIs DEF Typed, Named
  <2>4. CloseTask(n, time) \in Tasks
    BY <1>3 DEF Tasks, CloseTask
  <2>5. ticks' \in [Peers -> Seq(Tasks)]
    <3>1. ticks[p] \in Seq(Tasks) /\ ticks \in [Peers -> Seq(Tasks)]
        BY DEF Typed, TypeOK
    <3>2. Append(ticks[p], CloseTask(n, time)) \in Seq(Tasks)
        BY <2>4, <3>1, OneMoreTask
    <3> QED BY <2>1, <3>1, <3>2
  <2>6. Rest'
    BY <1>1, <1>2, <2>1, <2>5 DEF Rest, Typed, TypeOK
  <2>7. PICK e : e = Mark(RemoteClosed(state[p][n]), time)
    OBVIOUS
  <2>8. e \in EndpointStates /\ ~ e.remote_open /\ ~ e.was_open
    <3>1. ~ state[p][n].was_open
        BY <1>3 DEF Typed, MarkedIsClosed
    <3> QED BY <2>2, <2>7, <3>1, Ends, DetachedIs
  <2>9. state' = [state EXCEPT ![p][n] = e]
    BY <2>1, <2>7
  <2> QED BY <1>1, <2>3, <2>6, <2>8, <2>9, TypedEnd
<1>4. CASE ~ (n \in Names /\ state[p][n].remote_open)
  <2>1. /\ state' = state /\ ticks' = ticks
        /\ \/ fault' = [fault EXCEPT ![p] = "Invalid handle"]
           \/ fault' = [fault EXCEPT ![p] = "Detach already received"]
    BY <1>4 DEF ReadDetach
  <2>2. fault' \in [Peers -> {"none", "Attach already received",
                              "Detach already received", "Invalid handle"}]
    BY <2>1 DEF Typed, TypeOK
  <2>3. TypeOK'
    BY <1>1, <1>2, <2>1, <2>2 DEF Typed, TypeOK
  <2> QED BY <1>1, <2>1, <2>3 DEF Typed, Named, HandlesDiffer, MarkedIsClosed
<1> QED BY <1>3, <1>4

LEMMA TypedCloseTick ==
    ASSUME Typed, NEW p \in Peers, CloseTick(p)
    PROVE  Typed'
<1> DEFINE n == Head(ticks[p]).name
           t == Head(ticks[p]).token
           rest == RegisterIf(state[p][n].local_open, Tail(ticks[p]))
<1>1. /\ ticks[p] # <<>> /\ Head(ticks[p]).task = "close"
      /\ reading' = [reading EXCEPT ![p] = FALSE]
      /\ UNCHANGED <<fault, calls, cancelled, links, handle, remote_handles, wire>>
    BY DEF CloseTick, Tick
<1>2. n \in Names /\ t \in Times /\ Tail(ticks[p]) \in Seq(Tasks)
  <2>1. ticks[p] # <<>> /\ Head(ticks[p]).task = "close"
    BY <1>1
  <2>2. /\ Tail(ticks[p]) \in Seq(Tasks)
        /\ Head(ticks[p]).task = "close"
              => Head(ticks[p]).name \in Names /\ Head(ticks[p]).token \in Times
    BY <2>1, TickIs
  <2> QED BY <2>1, <2>2
<1>3. state[p][n] \in EndpointStates
  <2>1. \A m \in Names : state[p][m] \in EndpointStates
    BY DEF Typed, TypeOK
  <2> QED BY <1>2, <2>1
<1>4. CASE Undisturbed(p, n, t)
  <2>1. /\ state' = [state EXCEPT ![p][n] = Close(state[p][n])]
        /\ ticks' = [ticks EXCEPT ![p] = Append(rest, RemoveTask(n))]
    BY <1>4 DEF CloseTick
  <2>2. n \in links[p]
    <3>1. state[p][n].marker # 0
        BY <1>2, <1>4, TimeValues DEF Undisturbed, UnlessReopened
    <3> QED BY <1>2, <3>1, FreshIs DEF Typed, Named
  <2>3. state[p][n].local_open \in BOOLEAN
    BY <1>3 DEF EndpointStates
  <2>4. rest \in Seq(Tasks)
    BY <1>2, <2>3, RegisterIs
  <2>5. RemoveTask(n) \in Tasks
    BY <1>2 DEF Tasks, RemoveTask
  <2> HIDE DEF rest, n
  <2>6. ticks' \in [Peers -> Seq(Tasks)]
    <3>1. ticks \in [Peers -> Seq(Tasks)]
        BY DEF Typed, TypeOK
    <3>2. Append(rest, RemoveTask(n)) \in Seq(Tasks)
        BY <2>4, <2>5, OneMoreTask
    <3> QED BY <2>1, <3>1, <3>2
  <2>7. Rest'
    BY <1>1, <2>6 DEF Rest, Typed, TypeOK
  <2>8. /\ Close(state[p][n]) \in EndpointStates
        /\ Close(state[p][n]).marker = 0 /\ ~ Close(state[p][n]).was_open
    BY <1>2, <1>3, Ends, CloseIs DEF Typed, MarkedIsClosed
  <2> QED BY <1>1, <2>1, <2>2, <2>7, <2>8, TypedEnd
<1>5. CASE ~ Undisturbed(p, n, t)
  <2>1. state' = state /\ ticks' = [ticks EXCEPT ![p] = Tail(@)]
    BY <1>5 DEF CloseTick
  <2>2. TypeOK'
    BY <1>1, <1>2, <2>1 DEF Typed, TypeOK
  <2> QED BY <1>1, <2>1, <2>2 DEF Typed, Named, HandlesDiffer, MarkedIsClosed
<1> QED BY <1>4, <1>5


LEMMA TypedRemove ==
    ASSUME Typed, NEW p \in Peers, RemoveTick(p)
    PROVE  Typed'
<1>1. PICK n : n = Head(ticks[p]).name
    OBVIOUS
<1>2. /\ ticks[p] # <<>> /\ Head(ticks[p]).task = "remove"
      /\ reading' = [reading EXCEPT ![p] = FALSE] /\ ticks' = [ticks EXCEPT ![p] = Tail(@)]
      /\ UNCHANGED <<fault, calls, cancelled, wire>>
      /\ links' = [links EXCEPT ![p] = @ \ {n}]
      /\ state' = [state EXCEPT ![p][n] = Fresh]
      /\ handle' = [handle EXCEPT ![p][n] = NoHandle]
      /\ remote_handles' = [remote_handles EXCEPT ![p] =
                [h \in Handles |-> IF @[h] = n THEN Removed ELSE @[h]]]
    BY <1>1 DEF RemoveTick, Tick
<1>3. n \in Names /\ Tail(ticks[p]) \in Seq(Tasks)
    BY <1>1, <1>2, TickIs
<1>4. \A q \in Peers, m \in Names :
          /\ state'[q][m] = IF q = p /\ m = n THEN Fresh ELSE state[q][m]
          /\ handle'[q][m] = IF q = p /\ m = n THEN NoHandle ELSE handle[q][m]
    BY <1>2, <1>3 DEF Typed, TypeOK
<1>5. \A q \in Peers : links'[q] = IF q = p THEN links[q] \ {n} ELSE links[q]
    BY <1>2 DEF Typed, TypeOK
<1>6. TypeOK'
  <2>1. links' \in [Peers -> SUBSET Names]
    BY <1>2 DEF Typed, TypeOK
  <2>2. state' \in [Peers -> [Names -> EndpointStates]]
    BY <1>2, <1>3, FreshIs DEF Typed, TypeOK
  <2>3. handle' \in [Peers -> [Names -> Handles \cup {NoHandle}]]
    BY <1>2, <1>3 DEF Typed, TypeOK
  <2>4. remote_handles' \in [Peers -> [Handles -> Names \cup {Nothing, Removed}]]
    BY <1>2, <1>3 DEF Typed, TypeOK
  <2> QED BY <1>2, <1>3, <2>1, <2>2, <2>3, <2>4 DEF Typed, TypeOK
<1>7. Named'
  <2>1. SUFFICES ASSUME NEW q \in Peers, NEW m \in Names
                 PROVE  IF m \in links'[q] THEN handle'[q][m] \in Handles
                                           ELSE state'[q][m] = Fresh
    BY DEF Named
  <2>2. IF m \in links[q] THEN handle[q][m] \in Handles ELSE state[q][m] = Fresh
    BY DEF Typed, Named
  <2> QED BY <1>4, <1>5, <2>2
<1>8. HandlesDiffer'
  <2>1. \A q \in Peers : \A m \in links'[q] :
            m \in links[q] /\ m \in Names /\ (q = p => m # n)
    BY <1>5 DEF Typed, TypeOK
  <2>2. \A q \in Peers : \A m \in links'[q] : handle'[q][m] = handle[q][m]
    BY <1>4, <2>1
  <2> QED BY <2>1, <2>2 DEF Typed, HandlesDiffer
<1>9. MarkedIsClosed'
    BY <1>4, FreshIs DEF Typed, MarkedIsClosed
<1> QED BY <1>6, <1>7, <1>8, <1>9 DEF Typed

LEMMA TypedProcess ==
    ASSUME Typed, NEW p \in Peers, ProcessTick(p)
    PROVE  Typed'
<1>1. PICK requests \in SetToSeqs(Requests(p)) :
          wire' = [wire EXCEPT ![Other(p)] =
                        @ \o [i \in DOMAIN requests |-> FrameFor(p, requests[i])]]
    BY DEF ProcessTick
<1>2. PICK u : u = [i \in DOMAIN requests |-> FrameFor(p, requests[i])]
    OBVIOUS
<1>3. u \in Seq(Frames)
    BY <1>2, BatchType
<1>4. wire' \in [Peers -> Seq(Frames)]
  <2>1. wire \in [Peers -> Seq(Frames)] /\ Other(p) \in Peers
    BY Others DEF Typed, TypeOK
  <2>2. wire[Other(p)] \o u \in Seq(Frames)
    BY <1>3, <2>1, ConcatProperties
  <2> QED BY <1>1, <1>2, <2>1, <2>2
<1>5. /\ ticks[p] # <<>>
      /\ reading' = [reading EXCEPT ![p] = FALSE] /\ ticks' = [ticks EXCEPT ![p] = Tail(@)]
      /\ UNCHANGED <<fault, calls, cancelled, links, handle, remote_handles>>
      /\ state' = [state EXCEPT ![p] = [n \in Names |-> Settled(@[n])]]
    BY DEF ProcessTick, Tick
<1>6. Tail(ticks[p]) \in Seq(Tasks)
    BY <1>5, TickIs
<1>7. \A q \in Peers, m \in Names :
          state[q][m] \in EndpointStates
    BY DEF Typed, TypeOK
<1>8. \A q \in Peers, m \in Names :
          state'[q][m] = IF q = p THEN Settled(state[q][m]) ELSE state[q][m]
    BY <1>5 DEF Typed, TypeOK
<1>9. state' \in [Peers -> [Names -> EndpointStates]]
  <2>1. \A m \in Names : Settled(state[p][m]) \in EndpointStates
    BY <1>7, Ends
  <2> QED BY <1>5, <2>1 DEF Typed, TypeOK
<1>10. TypeOK'
    BY <1>4, <1>5, <1>6, <1>9 DEF Typed, TypeOK
<1>11. Named'
  <2>1. SUFFICES ASSUME NEW q \in Peers, NEW m \in Names
                 PROVE  IF m \in links[q] THEN handle[q][m] \in Handles
                                          ELSE state'[q][m] = Fresh
    BY <1>5 DEF Named
  <2>2. IF m \in links[q] THEN handle[q][m] \in Handles ELSE state[q][m] = Fresh
    BY DEF Typed, Named
  <2>3. Settled(Fresh) = Fresh
    BY FreshSettled
  <2>4. state[q][m] = Fresh => state'[q][m] = Fresh
    <3>1. state'[q][m] = Settled(state[q][m]) \/ state'[q][m] = state[q][m]
        BY <1>8
    <3> QED BY <2>3, <3>1
  <2> QED BY <2>2, <2>4
<1>12. HandlesDiffer'
    BY <1>5 DEF Typed, HandlesDiffer
<1>13. MarkedIsClosed'
  <2>1. \A q \in Peers, m \in Names : /\ state'[q][m].marker = state[q][m].marker
                                      /\ state'[q][m].remote_open = state[q][m].remote_open
                                      /\ state'[q][m].was_open = state[q][m].was_open
    BY <1>7, <1>8, SettledIs
  <2> QED BY <2>1 DEF Typed, MarkedIsClosed
<1> QED BY <1>10, <1>11, <1>12, <1>13 DEF Typed

LEMMA TypedAttach ==
    ASSUME Typed, NEW p \in Peers, ReadAttach(p)
    PROVE  Typed'
<1>1. PICK n : n = Head(wire[p]).name
    OBVIOUS
<1>2. PICK h : h = Head(wire[p]).handle
    OBVIOUS
<1>3. /\ wire[p] # <<>>
      /\ wire' = [wire EXCEPT ![p] = Tail(@)] /\ reading' = [reading EXCEPT ![p] = TRUE]
      /\ calls' = calls /\ cancelled' = cancelled
      /\ remote_handles' = [remote_handles EXCEPT ![p][h] = n]
      /\ IF n \in links[p]
         THEN links' = links /\ handle' = handle
         ELSE /\ links' = [links EXCEPT ![p] = @ \cup {n}]
              /\ handle' = [handle EXCEPT ![p][n] = FreeHandle(p)]
      /\ IF state[p][n].remote_open
         THEN /\ fault' = [fault EXCEPT ![p] = "Attach already received"]
              /\ state' = state /\ ticks' = ticks
         ELSE /\ state' = [state EXCEPT ![p][n] = Attached(@)]
              /\ ticks' = [ticks EXCEPT ![p] = RegisterIf(~state[p][n].local_open, @)]
              /\ fault' = fault
    BY <1>1, <1>2 DEF ReadAttach, Read
<1>4. n \in Names /\ h \in Handles /\ Tail(wire[p]) \in Seq(Frames)
    BY <1>1, <1>2, <1>3, HeadIs
<1>5. state[p][n] \in EndpointStates /\ ticks[p] \in Seq(Tasks)
    BY <1>4 DEF Typed, TypeOK
<1>6. PICK e : e = Attached(state[p][n])
    OBVIOUS
<1>7. e \in EndpointStates /\ e.marker = 0 /\ ~ e.was_open
    BY <1>4, <1>5, <1>6, Ends, AttachedIs DEF Typed, MarkedIsClosed
<1>8. PICK queue : queue = RegisterIf(~ state[p][n].local_open, ticks[p])
    OBVIOUS
<1>9. queue \in Seq(Tasks)
    BY <1>5, <1>8, RegisterIs DEF EndpointStates
<1>10. /\ n \notin links[p] => FreeHandle(p) \in Handles
       /\ n \notin links[p] => \A m \in links[p] : handle[p][m] # FreeHandle(p)
    BY <1>4, FreeHandleIsFree DEF Typed, TypeOK
<1>11. n \notin links[p] => ~ state[p][n].remote_open
    BY <1>4, FreshIs DEF Typed, Named
<1> DEFINE Faults == {"none", "Attach already received",
                      "Detach already received", "Invalid handle"}
<1>12. /\ links \in [Peers -> SUBSET Names]
       /\ handle \in [Peers -> [Names -> Handles \cup {NoHandle}]]
       /\ state \in [Peers -> [Names -> EndpointStates]]
       /\ ticks \in [Peers -> Seq(Tasks)] /\ fault \in [Peers -> Faults]
       /\ remote_handles \in [Peers -> [Handles -> Names \cup {Nothing, Removed}]]
       /\ wire \in [Peers -> Seq(Frames)] /\ reading \in [Peers -> BOOLEAN]
    BY DEF Typed, TypeOK
<1>13. /\ wire' \in [Peers -> Seq(Frames)] /\ reading' \in [Peers -> BOOLEAN]
       /\ remote_handles' \in [Peers -> [Handles -> Names \cup {Nothing, Removed}]]
  <2>1. wire' \in [Peers -> Seq(Frames)]
    BY <1>3, <1>4, <1>12
  <2>2. reading' \in [Peers -> BOOLEAN]
    BY <1>3, <1>12
  <2>3. remote_handles' \in [Peers -> [Handles -> Names \cup {Nothing, Removed}]]
    BY <1>3, <1>4, <1>12
  <2> QED BY <2>1, <2>2, <2>3
<1>14. /\ links' \in [Peers -> SUBSET Names]
       /\ handle' \in [Peers -> [Names -> Handles \cup {NoHandle}]]
       /\ \A q \in Peers : links'[q] = IF q = p THEN links[q] \cup {n} ELSE links[q]
       /\ \A q \in Peers, m \in Names :
              handle'[q][m] = IF q = p /\ m = n /\ n \notin links[p] THEN FreeHandle(p)
                                                                     ELSE handle[q][m]
  <2>1. CASE n \in links[p]
    <3>1. links' = links /\ handle' = handle
        BY <1>3, <2>1
    <3> QED BY <2>1, <3>1, <1>12
  <2>2. CASE n \notin links[p]
    <3>1. /\ links' = [links EXCEPT ![p] = @ \cup {n}]
          /\ handle' = [handle EXCEPT ![p][n] = FreeHandle(p)]
        BY <1>3, <2>2
    <3> QED BY <2>2, <3>1, <1>4, <1>10, <1>12
  <2> QED BY <2>1, <2>2
<1>15. /\ state' \in [Peers -> [Names -> EndpointStates]] /\ ticks' \in [Peers -> Seq(Tasks)]
       /\ fault' \in [Peers -> Faults]
       /\ \A q \in Peers, m \in Names :
              state'[q][m] = IF q = p /\ m = n /\ ~ state[p][n].remote_open THEN e
                                                                            ELSE state[q][m]
  <2>1. CASE state[p][n].remote_open
    <3>1. /\ fault' = [fault EXCEPT ![p] = "Attach already received"]
          /\ state' = state /\ ticks' = ticks
        BY <1>3, <2>1
    <3> QED BY <2>1, <3>1, <1>12
  <2>2. CASE ~ state[p][n].remote_open
    <3>1. /\ state' = [state EXCEPT ![p][n] = e] /\ ticks' = [ticks EXCEPT ![p] = queue]
          /\ fault' = fault
        BY <1>3, <1>6, <1>8, <2>2
    <3> QED BY <2>2, <3>1, <1>4, <1>7, <1>9, <1>12
  <2> QED BY <2>1, <2>2
<1>16. TypeOK'
    BY <1>3, <1>13, <1>14, <1>15 DEF Typed, TypeOK
<1>20. Named'
  <2>1. SUFFICES ASSUME NEW q \in Peers, NEW m \in Names
                 PROVE  IF m \in links'[q] THEN handle'[q][m] \in Handles
                                           ELSE state'[q][m] = Fresh
    BY DEF Named
  <2>2. IF m \in links[q] THEN handle[q][m] \in Handles ELSE state[q][m] = Fresh
    BY DEF Typed, Named
  <2>3. CASE q = p /\ m = n
    <3>1. n \in links'[p] /\ handle'[p][n] \in Handles
        BY <1>4, <1>10, <1>14, <2>2, <2>3
    <3> QED BY <2>3, <3>1
  <2>4. CASE ~ (q = p /\ m = n)
    <3>1. /\ m \in links'[q] <=> m \in links[q]
          /\ handle'[q][m] = handle[q][m] /\ state'[q][m] = state[q][m]
        BY <1>14, <1>15, <2>4
    <3> QED BY <2>2, <3>1
  <2> QED BY <2>3, <2>4
<1>21. HandlesDiffer'
  <2>1. SUFFICES ASSUME NEW q \in Peers, NEW i \in links'[q], NEW j \in links'[q],
                        handle'[q][i] = handle'[q][j]
                 PROVE  i = j
    BY DEF HandlesDiffer
  <2>2. i \in Names /\ j \in Names
    BY <1>16 DEF TypeOK
  <2>3. /\ i \in links[q] \/ (q = p /\ i = n)
        /\ j \in links[q] \/ (q = p /\ j = n)
    BY <1>14
  <2>4. i \in links[q] /\ j \in links[q] => handle[q][i] # handle[q][j] \/ i = j
    BY DEF Typed, HandlesDiffer
  <2> QED BY <2>1, <2>2, <2>3, <2>4, <1>10, <1>14
<1>22. MarkedIsClosed'
    BY <1>7, <1>15 DEF Typed, MarkedIsClosed
<1> QED BY <1>16, <1>20, <1>21, <1>22 DEF Typed

LEMMA TypedStep == Typed /\ [Next]_vars => Typed'
<1> SUFFICES ASSUME Typed, [Next]_vars
             PROVE  Typed'
    OBVIOUS
<1>1. CASE UNCHANGED vars
    BY <1>1, TypedSame
<1>2. CASE \E p \in Peers : Step(p)
    BY <1>2, TypedAttach, TypedDetach, TypedProcess, TypedCloseTick, TypedRemove DEF Step
<1>3. CASE \E p \in Peers : \E n \in Names :
               OpenLink(p, n) \/ CloseLink(p, n) \/ ReopenLink(p, n)
    BY <1>3, TypedOpen, TypedClose, TypedReopen
<1> QED BY <1>1, <1>2, <1>3 DEF Next

LEMMA AlwaysTyped == Spec => []Typed
BY TypedInit, TypedStep, PTL DEF Spec

\* The parts of every peer have their types, whatever the applications do.
THEOREM TypesHold == Spec => []TypeOK
<1>1. Typed => TypeOK
    BY DEF Typed
<1> QED BY AlwaysTyped, <1>1, PTL

-----------------------------------------------------------------------------
(* What the frames on a stream say of one link.                             *)

About(w, k, n) == w[k].name = n
IsAttach(w, k) == w[k].type = "attach"

\* Where the frames before k leave the reader's end of n, if none of them is refused:
\* open says how it stands before them.
OpenAt(w, open, n, k) ==
    \/ \E i \in 1..(k - 1) : /\ About(w, i, n) /\ IsAttach(w, i)
                             /\ \A j \in (i + 1)..(k - 1) : ~ About(w, j, n)
    \/ open /\ \A j \in 1..(k - 1) : ~ About(w, j, n)

\* An attach that finds the link attached: the one refusal there can be.
Clash(w, open, n, k) == About(w, k, n) /\ IsAttach(w, k) /\ OpenAt(w, open, n, k)
Clear(w, open, n, k) == \A i \in 1..(k - 1) : ~ Clash(w, open, n, i)

\* The handle h leads a frame at k to the link n: by an attach on the way, or by the
\* reader's table, and no attach of another link with that handle comes in between.
Led(w, table, h, k, n) ==
    \/ \E i \in 1..(k - 1) :
           /\ About(w, i, n) /\ IsAttach(w, i) /\ w[i].handle = h
           /\ \A j \in (i + 1)..(k - 1) : IsAttach(w, j) /\ w[j].handle = h => About(w, j, n)
    \/ /\ table[h] = n
       /\ \A j \in 1..(k - 1) : IsAttach(w, j) /\ w[j].handle = h => About(w, j, n)

\* After each attach of n before k comes one with the handle h, if it is not itself one.
Own(w, h, k, n) ==
    \A j \in 1..(k - 1) : About(w, j, n) /\ IsAttach(w, j)
        => \E i \in j..(k - 1) : About(w, i, n) /\ IsAttach(w, i) /\ w[i].handle = h

-----------------------------------------------------------------------------
(* A stream that is read, and one that is added to.                         *)

LEMMA TailIs ==
    ASSUME NEW w \in Seq(Frames), w # <<>>
    PROVE  /\ Tail(w) \in Seq(Frames) /\ Len(Tail(w)) = Len(w) - 1 /\ Len(w) \in Nat \ {0}
           /\ \A i \in 1..Len(Tail(w)) : Tail(w)[i] = w[i + 1]
<1>1. /\ Tail(w) \in Seq(Frames) /\ Len(Tail(w)) = Len(w) - 1
      /\ \A i \in 1..Len(Tail(w)) : Tail(w)[i] = w[i + 1]
    BY HeadTailProperties
<1> QED BY <1>1, EmptySeq

LEMMA FrameIn ==
    ASSUME NEW w \in Seq(Frames), NEW k \in 1..Len(w)
    PROVE  w[k].name \in Names /\ w[k].handle \in Handles /\ w[k].type \in {"attach", "detach"}
<1>1. w[k] \in Frames
    OBVIOUS
<1> QED BY <1>1 DEF Frames

LEMMA OpenTail ==
    ASSUME NEW w \in Seq(Frames), w # <<>>, NEW open \in BOOLEAN, NEW after \in BOOLEAN,
           NEW n \in Names, after <=> IF About(w, 1, n) THEN IsAttach(w, 1) ELSE open,
           NEW k \in 1..Len(w)
    PROVE  OpenAt(Tail(w), after, n, k) <=> OpenAt(w, open, n, k + 1)
<1>1. PICK t : t = Tail(w)
    OBVIOUS
<1>2. Len(t) = Len(w) - 1 /\ Len(w) \in Nat /\ \A i \in 1..Len(t) : t[i] = w[i + 1]
    BY <1>1, TailIs
<1>3. /\ \A i \in 1..(k - 1) : /\ About(t, i, n) <=> About(w, i + 1, n)
                               /\ IsAttach(t, i) <=> IsAttach(w, i + 1)
                               /\ i + 1 \in 1..k
      /\ \A i \in 2..k : i - 1 \in 1..(k - 1) /\ (i - 1) + 1 = i
    BY <1>2 DEF About, IsAttach
<1>4. ASSUME OpenAt(t, after, n, k)
      PROVE  OpenAt(w, open, n, k + 1)
  <2>1. CASE \E i \in 1..(k - 1) : /\ About(t, i, n) /\ IsAttach(t, i)
                                   /\ \A j \in (i + 1)..(k - 1) : ~ About(t, j, n)
    <3>1. PICK i \in 1..(k - 1) : /\ About(t, i, n) /\ IsAttach(t, i)
                                  /\ \A j \in (i + 1)..(k - 1) : ~ About(t, j, n)
        BY <2>1
    <3>2. \A j \in (i + 2)..k : ~ About(w, j, n)
      <4>1. SUFFICES ASSUME NEW j \in (i + 2)..k
                     PROVE  ~ About(w, j, n)
        OBVIOUS
      <4>2. j - 1 \in (i + 1)..(k - 1) /\ j - 1 \in 1..(k - 1) /\ (j - 1) + 1 = j
        OBVIOUS
      <4> QED BY <3>1, <4>2, <1>3
    <3>3. i + 1 \in 1..((k + 1) - 1) /\ About(w, i + 1, n) /\ IsAttach(w, i + 1)
        BY <3>1, <1>3
    <3>4. \A j \in ((i + 1) + 1)..((k + 1) - 1) : ~ About(w, j, n)
        BY <3>2
    <3> QED BY <3>3, <3>4 DEF OpenAt
  <2>2. CASE after /\ \A j \in 1..(k - 1) : ~ About(t, j, n)
    <3>1. \A j \in 2..k : ~ About(w, j, n)
      <4>1. SUFFICES ASSUME NEW j \in 2..k
                     PROVE  ~ About(w, j, n)
        OBVIOUS
      <4>2. j - 1 \in 1..(k - 1) /\ (j - 1) + 1 = j
        OBVIOUS
      <4> QED BY <2>2, <4>2, <1>3
    <3>2. CASE About(w, 1, n)
      <4>1. IsAttach(w, 1) /\ 1 \in 1..((k + 1) - 1)
        BY <2>2, <3>2
      <4>2. \A j \in (1 + 1)..((k + 1) - 1) : ~ About(w, j, n)
        BY <3>1
      <4> QED BY <3>2, <4>1, <4>2 DEF OpenAt
    <3>3. CASE ~ About(w, 1, n)
      <4>1. open /\ \A j \in 1..((k + 1) - 1) : ~ About(w, j, n)
        BY <2>2, <3>1, <3>3
      <4> QED BY <4>1 DEF OpenAt
    <3> QED BY <3>2, <3>3
  <2> QED BY <1>4, <2>1, <2>2 DEF OpenAt
<1>5. ASSUME OpenAt(w, open, n, k + 1)
      PROVE  OpenAt(t, after, n, k)
  <2>1. CASE \E i \in 1..k : /\ About(w, i, n) /\ IsAttach(w, i)
                             /\ \A j \in (i + 1)..k : ~ About(w, j, n)
    <3>1. PICK i \in 1..k : /\ About(w, i, n) /\ IsAttach(w, i)
                            /\ \A j \in (i + 1)..k : ~ About(w, j, n)
        BY <2>1
    <3>2. CASE i = 1
      <4>1. \A j \in 1..(k - 1) : ~ About(t, j, n)
        BY <3>1, <3>2, <1>3
      <4> QED BY <3>1, <3>2, <4>1 DEF OpenAt
    <3>3. CASE i # 1
      <4>1. i - 1 \in 1..(k - 1) /\ About(t, i - 1, n) /\ IsAttach(t, i - 1)
        BY <3>1, <3>3, <1>3
      <4>2. \A j \in ((i - 1) + 1)..(k - 1) : ~ About(t, j, n)
        BY <3>1, <3>3, <1>3
      <4> QED BY <4>1, <4>2 DEF OpenAt
    <3> QED BY <3>2, <3>3
  <2>2. CASE open /\ \A j \in 1..k : ~ About(w, j, n)
    <3>1. after /\ \A j \in 1..(k - 1) : ~ About(t, j, n)
        BY <2>2, <1>3
    <3> QED BY <3>1 DEF OpenAt
  <2>3. (k + 1) - 1 = k
    OBVIOUS
  <2> QED BY <1>5, <2>1, <2>2, <2>3 DEF OpenAt
<1> QED BY <1>1, <1>4, <1>5

LEMMA ClearTail ==
    ASSUME NEW w \in Seq(Frames), w # <<>>, NEW open \in BOOLEAN, NEW after \in BOOLEAN,
           NEW n \in Names, after <=> IF About(w, 1, n) THEN IsAttach(w, 1) ELSE open,
           ~ Clash(w, open, n, 1), NEW k \in 1..Len(w), Clear(Tail(w), after, n, k)
    PROVE  Clear(w, open, n, k + 1)
<1>1. PICK t : t = Tail(w)
    OBVIOUS
<1>2. Len(t) = Len(w) - 1 /\ Len(w) \in Nat /\ \A i \in 1..Len(t) : t[i] = w[i + 1]
    BY <1>1, TailIs
<1>3. SUFFICES ASSUME NEW i \in 1..k, Clash(w, open, n, i)
               PROVE  FALSE
    BY DEF Clear
<1>4. i # 1 /\ i - 1 \in 1..(k - 1) /\ (i - 1) + 1 = i /\ i - 1 \in 1..Len(w)
    BY <1>2, <1>3
<1>5. OpenAt(t, after, n, i - 1) <=> OpenAt(w, open, n, i)
    BY <1>1, <1>4, OpenTail
<1>6. (About(t, i - 1, n) <=> About(w, i, n)) /\ (IsAttach(t, i - 1) <=> IsAttach(w, i))
    BY <1>2, <1>4 DEF About, IsAttach
<1> QED BY <1>1, <1>3, <1>4, <1>5, <1>6 DEF Clear, Clash

LEMMA LedTail ==
    ASSUME NEW w \in Seq(Frames), w # <<>>, NEW table, NEW later, NEW h \in Handles,
           NEW n \in Names,
           later[h] = IF IsAttach(w, 1) /\ w[1].handle = h THEN w[1].name ELSE table[h],
           NEW k \in 1..Len(w), Led(w, table, h, k + 1, n)
    PROVE  Led(Tail(w), later, h, k, n)
<1>1. PICK t : t = Tail(w)
    OBVIOUS
<1>2. Len(t) = Len(w) - 1 /\ Len(w) \in Nat /\ \A i \in 1..Len(t) : t[i] = w[i + 1]
    BY <1>1, TailIs
<1> DEFINE Sel(s, j) == IsAttach(s, j) /\ s[j].handle = h
<1>3. \A i \in 1..(k - 1) : /\ About(t, i, n) <=> About(w, i + 1, n)
                            /\ Sel(t, i) <=> Sel(w, i + 1)
                            /\ i + 1 \in 1..k
    BY <1>2 DEF About, IsAttach
<1>4. (k + 1) - 1 = k
    OBVIOUS
<1> HIDE DEF Sel
<1>5. Led(t, later, h, k, n) <=>
         \/ \E i \in 1..(k - 1) : /\ About(t, i, n) /\ Sel(t, i)
                                  /\ \A j \in (i + 1)..(k - 1) : Sel(t, j) => About(t, j, n)
         \/ later[h] = n /\ \A j \in 1..(k - 1) : Sel(t, j) => About(t, j, n)
    BY DEF Led, Sel
<1>6. \/ \E i \in 1..k : /\ About(w, i, n) /\ Sel(w, i)
                         /\ \A j \in (i + 1)..k : Sel(w, j) => About(w, j, n)
      \/ table[h] = n /\ \A j \in 1..k : Sel(w, j) => About(w, j, n)
    BY <1>4 DEF Led, Sel
<1>7. CASE \E i \in 1..k : /\ About(w, i, n) /\ Sel(w, i)
                           /\ \A j \in (i + 1)..k : Sel(w, j) => About(w, j, n)
  <2>1. PICK i \in 1..k : /\ About(w, i, n) /\ Sel(w, i)
                          /\ \A j \in (i + 1)..k : Sel(w, j) => About(w, j, n)
    BY <1>7
  <2>2. \A j \in i..(k - 1) : j \in 1..(k - 1) /\ j + 1 \in (i + 1)..k
    OBVIOUS
  <2>3. \A j \in i..(k - 1) : Sel(t, j) => About(t, j, n)
    BY <1>3, <2>1, <2>2
  <2>4. CASE i = 1
    <3>1. later[h] = n
        BY <2>1, <2>4 DEF Sel, About
    <3> QED BY <1>1, <1>5, <2>3, <2>4, <3>1
  <2>5. CASE i # 1
    <3>1. i - 1 \in 1..(k - 1) /\ (i - 1) + 1 = i
        BY <2>5
    <3>2. About(t, i - 1, n) /\ Sel(t, i - 1)
        BY <1>3, <2>1, <3>1
    <3>3. \A j \in ((i - 1) + 1)..(k - 1) : Sel(t, j) => About(t, j, n)
        BY <2>3, <3>1
    <3> QED BY <1>1, <1>5, <3>1, <3>2, <3>3
  <2> QED BY <2>4, <2>5
<1>8. CASE table[h] = n /\ \A j \in 1..k : Sel(w, j) => About(w, j, n)
  <2>1. 1 \in 1..k
    OBVIOUS
  <2>2. later[h] = n
    BY <1>8, <2>1 DEF Sel, About
  <2>3. \A j \in 1..(k - 1) : Sel(t, j) => About(t, j, n)
    BY <1>3, <1>8
  <2> QED BY <1>1, <1>5, <2>2, <2>3
<1> QED BY <1>6, <1>7, <1>8

LEMMA OwnTail ==
    ASSUME NEW w \in Seq(Frames), w # <<>>, NEW h \in Handles, NEW n \in Names,
           NEW k \in 1..Len(w), Own(w, h, k + 1, n)
    PROVE  Own(Tail(w), h, k, n)
<1>1. PICK t : t = Tail(w)
    OBVIOUS
<1>2. Len(t) = Len(w) - 1 /\ Len(w) \in Nat /\ \A i \in 1..Len(t) : t[i] = w[i + 1]
    BY <1>1, TailIs
<1>3. \A i \in 1..(k - 1) : /\ About(t, i, n) <=> About(w, i + 1, n)
                            /\ IsAttach(t, i) <=> IsAttach(w, i + 1)
                            /\ t[i].handle = w[i + 1].handle
                            /\ i + 1 \in 1..((k + 1) - 1)
  <2>1. \A i \in 1..(k - 1) : t[i] = w[i + 1] /\ i + 1 \in 1..((k + 1) - 1)
    BY <1>2
  <2> QED BY <2>1 DEF About, IsAttach
<1>4. SUFFICES ASSUME NEW j \in 1..(k - 1), About(t, j, n), IsAttach(t, j)
               PROVE  \E i \in j..(k - 1) : About(t, i, n) /\ IsAttach(t, i) /\ t[i].handle = h
    BY <1>1 DEF Own
<1>5. PICK i \in (j + 1)..((k + 1) - 1) : About(w, i, n) /\ IsAttach(w, i) /\ w[i].handle = h
    BY <1>3, <1>4 DEF Own
<1>6. i - 1 \in j..(k - 1) /\ i - 1 \in 1..(k - 1) /\ (i - 1) + 1 = i
    BY <1>5
<1> QED BY <1>3, <1>5, <1>6

\* What comes before k depends on nothing else.
Agree(w, v, k) == \A i \in 1..(k - 1) : w[i] = v[i]

LEMMA Prefix ==
    ASSUME NEW w, NEW v, NEW k \in Nat, Agree(w, v, k),
           NEW open \in BOOLEAN, NEW n, NEW h, NEW table
    PROVE  /\ OpenAt(w, open, n, k) <=> OpenAt(v, open, n, k)
           /\ Led(w, table, h, k, n) <=> Led(v, table, h, k, n)
           /\ Own(w, h, k, n) <=> Own(v, h, k, n)
<1>1. OpenAt(w, open, n, k) <=> OpenAt(v, open, n, k)
    BY DEF Agree, OpenAt, About, IsAttach
<1>2. Led(w, table, h, k, n) <=> Led(v, table, h, k, n)
    BY DEF Agree, Led, About, IsAttach
<1>3. Own(w, h, k, n) <=> Own(v, h, k, n)
    BY DEF Agree, Own, About, IsAttach
<1> QED BY <1>1, <1>2, <1>3

LEMMA ClearPrefix ==
    ASSUME NEW w, NEW v, NEW k \in Nat, NEW m \in Nat, m <= k, Agree(w, v, m),
           NEW open \in BOOLEAN, NEW n, Clear(w, open, n, k)
    PROVE  Clear(v, open, n, m)
<1>1. SUFFICES ASSUME NEW i \in 1..(m - 1), Clash(v, open, n, i)
               PROVE  FALSE
    BY DEF Clear
<1>2. i \in 1..(k - 1) /\ i \in Nat /\ Agree(w, v, i) /\ w[i] = v[i]
    BY DEF Agree
<1>3. OpenAt(w, open, n, i) <=> OpenAt(v, open, n, i)
    BY <1>2, Prefix
<1>4. Clash(w, open, n, i)
    BY <1>1, <1>2, <1>3 DEF Clash, About, IsAttach
<1> QED BY <1>2, <1>4 DEF Clear

\* Frames of other links change nothing; a frame of n decides.
LEMMA OpenSkip ==
    ASSUME NEW w, NEW open \in BOOLEAN, NEW n, NEW m \in Nat \ {0}, NEW k \in Nat, m <= k,
           \A j \in m..(k - 1) : ~ About(w, j, n)
    PROVE  OpenAt(w, open, n, k) <=> OpenAt(w, open, n, m)
<1>1. ASSUME OpenAt(w, open, n, k) PROVE OpenAt(w, open, n, m)
  <2>1. CASE \E i \in 1..(k - 1) : /\ About(w, i, n) /\ IsAttach(w, i)
                                   /\ \A j \in (i + 1)..(k - 1) : ~ About(w, j, n)
    <3>1. PICK i \in 1..(k - 1) : /\ About(w, i, n) /\ IsAttach(w, i)
                                  /\ \A j \in (i + 1)..(k - 1) : ~ About(w, j, n)
        BY <2>1
    <3>2. i \in 1..(m - 1)
        BY <3>1
    <3>3. \A j \in (i + 1)..(m - 1) : ~ About(w, j, n)
        BY <3>1
    <3> QED BY <3>1, <3>2, <3>3 DEF OpenAt
  <2>2. CASE open /\ \A j \in 1..(k - 1) : ~ About(w, j, n)
    BY <2>2 DEF OpenAt
  <2> QED BY <1>1, <2>1, <2>2 DEF OpenAt
<1>2. ASSUME OpenAt(w, open, n, m) PROVE OpenAt(w, open, n, k)
  <2>1. CASE \E i \in 1..(m - 1) : /\ About(w, i, n) /\ IsAttach(w, i)
                                   /\ \A j \in (i + 1)..(m - 1) : ~ About(w, j, n)
    <3>1. PICK i \in 1..(m - 1) : /\ About(w, i, n) /\ IsAttach(w, i)
                                  /\ \A j \in (i + 1)..(m - 1) : ~ About(w, j, n)
        BY <2>1
    <3>2. i \in 1..(k - 1)
        OBVIOUS
    <3>3. \A j \in (i + 1)..(k - 1) : ~ About(w, j, n)
        BY <3>1
    <3> QED BY <3>1, <3>2, <3>3 DEF OpenAt
  <2>2. CASE open /\ \A j \in 1..(m - 1) : ~ About(w, j, n)
    <3>1. \A j \in 1..(k - 1) : ~ About(w, j, n)
        BY <2>2
    <3> QED BY <2>2, <3>1 DEF OpenAt
  <2> QED BY <1>2, <2>1, <2>2 DEF OpenAt
<1> QED BY <1>1, <1>2

LEMMA OpenNext ==
    ASSUME NEW w, NEW open \in BOOLEAN, NEW n, NEW m \in Nat \ {0}, NEW k \in Nat, m < k,
           About(w, m, n), \A j \in (m + 1)..(k - 1) : ~ About(w, j, n)
    PROVE  OpenAt(w, open, n, k) <=> IsAttach(w, m)
<1>1. m \in 1..(k - 1)
    OBVIOUS
<1>2. ASSUME OpenAt(w, open, n, k) PROVE IsAttach(w, m)
  <2>1. PICK i \in 1..(k - 1) : /\ About(w, i, n) /\ IsAttach(w, i)
                                /\ \A j \in (i + 1)..(k - 1) : ~ About(w, j, n)
    BY <1>1, <1>2 DEF OpenAt
  <2>2. i = m
    BY <2>1, <1>1
  <2> QED BY <2>1, <2>2
<1>3. ASSUME IsAttach(w, m) PROVE OpenAt(w, open, n, k)
    BY <1>1, <1>3 DEF OpenAt
<1> QED BY <1>2, <1>3

\* The frames of a longer stream.
LEMMA LongerIs ==
    ASSUME NEW w \in Seq(Frames), NEW u \in Seq(Frames)
    PROVE  /\ w \o u \in Seq(Frames) /\ Len(w \o u) = Len(w) + Len(u)
           /\ Len(w) \in Nat /\ Len(u) \in Nat
           /\ \A i \in 1..Len(w) : (w \o u)[i] = w[i]
           /\ \A i \in 1..Len(u) : (w \o u)[Len(w) + i] = u[i]
<1>1. Len(w) \in Nat /\ Len(u) \in Nat
    OBVIOUS
<1>2. /\ w \o u \in Seq(Frames) /\ Len(w \o u) = Len(w) + Len(u)
      /\ \A i \in 1..(Len(w) + Len(u)) :
             (w \o u)[i] = IF i <= Len(w) THEN w[i] ELSE u[i - Len(w)]
    BY ConcatProperties
<1>3. \A i \in 1..Len(u) : (w \o u)[Len(w) + i] = u[i]
  <2>1. SUFFICES ASSUME NEW i \in 1..Len(u)
                 PROVE  (w \o u)[Len(w) + i] = u[i]
    OBVIOUS
  <2>2. /\ Len(w) + i \in 1..(Len(w) + Len(u)) /\ ~ (Len(w) + i <= Len(w))
        /\ (Len(w) + i) - Len(w) = i
    BY <1>1
  <2> QED BY <1>2, <2>2
<1> QED BY <1>1, <1>2, <1>3

\* Frames of u that say nothing of n say nothing of it behind w.
LEMMA SilentBehind ==
    ASSUME NEW w \in Seq(Frames), NEW u \in Seq(Frames), NEW n, NEW a \in Nat \ {0}, NEW b \in Nat,
           b <= Len(u) + 1, \A i \in a..(b - 1) : u[i].name # n,
           NEW from, from = Len(w) + a, NEW to, to = Len(w) + b, NEW v, v = w \o u
    PROVE  \A l \in from..(to - 1) : ~ About(v, l, n)
<1>1. Len(w) \in Nat /\ Len(u) \in Nat /\ \A i \in 1..Len(u) : v[Len(w) + i] = u[i]
    BY LongerIs
<1>2. SUFFICES ASSUME NEW l \in from..(to - 1)
               PROVE  ~ About(v, l, n)
    OBVIOUS
<1>3. PICK i : i = l - Len(w)
    OBVIOUS
<1>4. i \in a..(b - 1) /\ i \in 1..Len(u) /\ l = Len(w) + i
    BY <1>1, <1>3
<1>5. v[l] = u[i] /\ u[i].name # n
    BY <1>1, <1>4
<1> QED BY <1>5 DEF About

-----------------------------------------------------------------------------
(* A batch: the requests of one link are together and in order.             *)

LEMMA FrameTypes ==
    ASSUME NEW e \in EndpointStates, NEW x \in 1..(e.open_requests + e.close_requests)
    PROVE  /\ FrameType(e, x) \in {"attach", "detach"}
           /\ e.open_requests >= 1 => FrameType(e, 1) = "attach"
           /\ e.open_requests = 0 => FrameType(e, x) = "detach"
           /\ e.close_requests <= e.open_requests /\ FrameType(e, x) = "detach"
                  => x > 1 /\ FrameType(e, x - 1) = "attach"
           /\ e.close_requests < e.open_requests
                  => FrameType(e, e.open_requests + e.close_requests) = "attach"
<1>1. PICK o : o = e.open_requests
    OBVIOUS
<1>2. PICK c : c = e.close_requests
    OBVIOUS
<1>3. o \in Nat /\ c \in Nat /\ x \in 1..(o + c)
    BY <1>1, <1>2 DEF EndpointStates
<1>4. PICK pairs : pairs = IF o < c THEN o ELSE c
    OBVIOUS
<1>5. pairs \in Nat /\ pairs <= o /\ pairs <= c /\ (c <= o => pairs = c) /\ (o <= c => pairs = o)
    BY <1>3, <1>4
<1>6. \A y \in Nat : FrameType(e, y) =
          IF (IF y <= 2 * pairs THEN y % 2 = 1 ELSE o > c) THEN "attach" ELSE "detach"
    BY <1>1, <1>2, <1>4 DEF FrameType
<1>7. FrameType(e, x) \in {"attach", "detach"}
    BY <1>3, <1>6
<1>8. o >= 1 => FrameType(e, 1) = "attach"
  <2>1. 1 % 2 = 1
    OBVIOUS
  <2>2. o >= 1 /\ ~ (1 <= 2 * pairs) => o > c
    BY <1>3, <1>5
  <2> QED BY <1>6, <2>1, <2>2
<1>9. o = 0 => FrameType(e, x) = "detach"
    BY <1>3, <1>5, <1>6
<1>10. c <= o /\ FrameType(e, x) = "detach" => x > 1 /\ FrameType(e, x - 1) = "attach"
  <2>1. SUFFICES ASSUME c <= o, FrameType(e, x) = "detach"
                 PROVE  x > 1 /\ FrameType(e, x - 1) = "attach"
    OBVIOUS
  <2>2. pairs = c
    BY <2>1, <1>5
  <2>3. x <= 2 * c /\ x % 2 # 1
    <3>1. x <= 2 * c
        BY <2>1, <2>2, <1>3, <1>6
    <3> QED BY <2>1, <2>2, <3>1, <1>3, <1>6
  <2>4. x % 2 = 0
    BY <2>3, <1>3
  <2>5. x > 1 /\ (x - 1) % 2 = 1 /\ x - 1 \in Nat /\ x - 1 <= 2 * pairs
    BY <2>2, <2>3, <2>4, <1>3
  <2> QED BY <2>5, <1>6
<1>11. c < o => FrameType(e, o + c) = "attach"
  <2>1. SUFFICES ASSUME c < o
                 PROVE  FrameType(e, o + c) = "attach"
    OBVIOUS
  <2>2. o + c \in Nat /\ ~ (o + c <= 2 * pairs) /\ o > c
    BY <2>1, <1>3, <1>5
  <2> QED BY <2>2, <1>6
<1> QED BY <1>1, <1>2, <1>7, <1>8, <1>9, <1>10, <1>11

\* u is what p writes, a frame for each request.
IsBatch(p, requests, u) ==
    /\ requests \in SetToSeqs(Requests(p)) /\ LinkByLink(requests)
    /\ u = [i \in DOMAIN requests |-> FrameFor(p, requests[i])]

LEMMA BatchFrames ==
    ASSUME Typed, NEW p \in Peers, NEW requests, NEW u, IsBatch(p, requests, u)
    PROVE  /\ u \in Seq(Frames) /\ Len(u) = Len(requests) /\ Len(u) \in Nat
           /\ \A j \in 1..Len(u) :
                  LET n == u[j].name
                  IN  /\ n \in links[p] /\ n \in Names /\ requests[j].name = n
                      /\ u[j].handle = handle[p][n]
                      /\ requests[j].index \in 1..(state[p][n].open_requests
                                                       + state[p][n].close_requests)
                      /\ u[j].type = FrameType(state[p][n], requests[j].index)
<1>1. requests \in SetToSeqs(Requests(p)) /\ u = [i \in DOMAIN requests |-> FrameFor(p, requests[i])]
    BY DEF IsBatch
<1>2. /\ u \in Seq(Frames) /\ Len(u) = Len(requests)
      /\ \A i \in 1..Len(u) :
             /\ u[i].type = FrameType(state[p][requests[i].name], requests[i].index)
             /\ u[i].name = requests[i].name
             /\ u[i].handle = handle[p][requests[i].name]
    BY <1>1, BatchType
<1>3. Len(requests) \in Nat /\ \A i \in 1..Len(requests) : requests[i] \in Requests(p)
    BY <1>1, BatchIs, RequestsAre
<1>4. \A r \in Requests(p) :
          /\ r.name \in links[p] /\ r.name \in Names
          /\ r.index \in 1..(state[p][r.name].open_requests + state[p][r.name].close_requests)
  <2>1. SUFFICES ASSUME NEW r \in Requests(p)
                 PROVE  /\ r.name \in links[p] /\ r.name \in Names
                        /\ r.index \in 1..(state[p][r.name].open_requests + state[p][r.name].close_requests)
    OBVIOUS
  <2>2. /\ r.name \in links[p] /\ r.name \in Names /\ r.index \in Nat \ {0}
        /\ r.index <= state[p][r.name].open_requests + state[p][r.name].close_requests
    BY RequestsAre
  <2>3. state[p][r.name] \in EndpointStates
    BY <2>2, TypesAre
  <2>4. state[p][r.name].open_requests \in Nat /\ state[p][r.name].close_requests \in Nat
    BY <2>3 DEF EndpointStates
  <2> QED BY <2>2, <2>4
<1> QED BY <1>2, <1>3, <1>4

LEMMA BatchOrder ==
    ASSUME Typed, NEW p \in Peers, NEW requests, NEW u, IsBatch(p, requests, u),
           NEW n \in links[p], NEW due,
           due = state[p][n].open_requests + state[p][n].close_requests
    PROVE  /\ \A j \in 1..Len(u) : u[j].name = n /\ requests[j].index = 1
                  => \A l \in 1..(j - 1) : u[l].name # n
           /\ \A j \in 1..Len(u) : u[j].name = n /\ requests[j].index > 1
                  => \E i \in 1..(j - 1) :
                         /\ u[i].name = n /\ requests[i].index = requests[j].index - 1
                         /\ \A l \in (i + 1)..(j - 1) : u[l].name # n
           /\ \A x \in 1..due : \E i \in 1..Len(u) : u[i].name = n /\ requests[i].index = x
           /\ \A i \in 1..Len(u) : u[i].name = n /\ requests[i].index = due
                  => \A l \in (i + 1)..Len(u) : u[l].name # n
<1>1. /\ Len(u) = Len(requests) /\ Len(u) \in Nat
      /\ \A j \in 1..Len(u) : /\ requests[j].name = u[j].name
                              /\ u[j].name = n => requests[j].index \in 1..due
    BY BatchFrames
<1>2. n \in Names /\ due \in Nat
  <2>1. n \in Names /\ state[p][n] \in EndpointStates
    BY DEF Typed, TypeOK
  <2> QED BY <2>1 DEF EndpointStates
<1>3. DOMAIN requests = 1..Len(u)
    BY <1>1, BatchIs, RequestsAre DEF IsBatch
<1>4. \A i, k \in 1..Len(u) :
          i < k /\ u[i].name = n /\ u[k].name = n => requests[i].index < requests[k].index
  <2>1. SUFFICES ASSUME NEW i \in 1..Len(u), NEW k \in 1..Len(u),
                        i < k, u[i].name = n, u[k].name = n
                 PROVE  requests[i].index < requests[k].index
    OBVIOUS
  <2>2. requests[i].name = requests[k].name
    BY <1>1, <2>1
  <2> QED BY <1>3, <2>1, <2>2 DEF IsBatch, LinkByLink
<1>5. \A x \in 1..due : \E i \in 1..Len(u) : u[i].name = n /\ requests[i].index = x
  <2>1. SUFFICES ASSUME NEW x \in 1..due
                 PROVE  \E i \in 1..Len(u) : u[i].name = n /\ requests[i].index = x
    OBVIOUS
  <2>2. [name |-> n, index |-> x] \in Requests(p)
    BY <1>2, RequestsAre
  <2>3. PICK i \in 1..Len(requests) : requests[i] = [name |-> n, index |-> x]
    BY <2>2, BatchIs, RequestsAre DEF IsBatch
  <2> QED BY <2>3, <1>1
<1>6. ASSUME NEW j \in 1..Len(u), u[j].name = n, requests[j].index = 1,
             NEW l \in 1..(j - 1), u[l].name = n
      PROVE  FALSE
  <2>1. l \in 1..Len(u) /\ l < j
    BY <1>1
  <2> QED BY <1>1, <1>4, <1>6, <2>1
<1>7. ASSUME NEW j \in 1..Len(u), u[j].name = n, requests[j].index > 1
      PROVE  \E i \in 1..(j - 1) : /\ u[i].name = n /\ requests[i].index = requests[j].index - 1
                                   /\ \A l \in (i + 1)..(j - 1) : u[l].name # n
  <2>1. requests[j].index \in 1..due /\ requests[j].index - 1 \in 1..due
    BY <1>1, <1>2, <1>7
  <2>2. PICK i \in 1..Len(u) : u[i].name = n /\ requests[i].index = requests[j].index - 1
    BY <1>5, <2>1
  <2>3. i < j
    BY <1>1, <1>4, <1>7, <2>1, <2>2
  <2>4. \A l \in (i + 1)..(j - 1) : u[l].name # n
    <3>1. SUFFICES ASSUME NEW l \in (i + 1)..(j - 1), u[l].name = n
                   PROVE  FALSE
        OBVIOUS
    <3>2. l \in 1..Len(u) /\ i < l /\ l < j
        BY <1>1
    <3>3. requests[i].index < requests[l].index /\ requests[l].index < requests[j].index
        BY <1>4, <1>7, <2>2, <3>1, <3>2
    <3>4. requests[l].index \in Int
        BY <1>1, <3>1, <3>2
    <3> QED BY <2>1, <2>2, <3>3, <3>4
  <2> QED BY <2>2, <2>3, <2>4, <1>1
<1>8. ASSUME NEW i \in 1..Len(u), u[i].name = n, requests[i].index = due,
             NEW l \in (i + 1)..Len(u), u[l].name = n
      PROVE  FALSE
  <2>1. l \in 1..Len(u) /\ i < l
    BY <1>1
  <2>2. due < requests[l].index /\ requests[l].index \in 1..due
    BY <1>1, <1>4, <1>8, <2>1
  <2> QED BY <2>2, <1>2
<1> QED BY <1>5, <1>6, <1>7, <1>8


-----------------------------------------------------------------------------
(* The invariant of one direction: what is on the way to p, what p makes of *)
(* it, and what the other end has yet to write.                             *)

Heard(p) == [n \in Names |-> state[p][n].remote_open]
One(b) == IF b THEN 1 ELSE 0

\* A detach finds the link attached, if no attach before it is refused.
Opens(w, heard) ==
    \A k \in 1..Len(w) :
        ~ IsAttach(w, k) /\ Clear(w, heard[w[k].name], w[k].name, k)
            => OpenAt(w, heard[w[k].name], w[k].name, k)

\* A writer never has more detaches to write than it will have written attaches.
Balanced(w, heard, ends) ==
    \A n \in Names :
        Clear(w, heard[n], n, Len(w) + 1)
            => ends[n].open_requests + One(OpenAt(w, heard[n], n, Len(w) + 1))
                   >= ends[n].close_requests + One(ends[n].local_open)

\* The handle of a detach leads to the link that wrote it.
Follows(w, table) ==
    \A k \in 1..Len(w) :
        ~ IsAttach(w, k) => /\ Led(w, table, w[k].handle, k, w[k].name)
                            /\ Own(w, w[k].handle, k, w[k].name)

\* The next frame of an end is an attach, or it has not been opened.
Ahead(e) == e.open_requests > 0 \/ (~ e.local_open /\ e.close_requests = 0)

\* The handle of a link leads to it, unless it has yet to be attached.
Leads(w, table, ends, names, handles) ==
    \A n \in names :
        \/ Ahead(ends[n])
        \/ /\ Led(w, table, handles[n], Len(w) + 1, n)
           /\ Own(w, handles[n], Len(w) + 1, n)

LEMMA HeardIs ==
    ASSUME Typed, NEW p \in Peers
    PROVE  /\ Heard(p) \in [Names -> BOOLEAN]
           /\ \A n \in Names : Heard(p)[n] = state[p][n].remote_open
<1>1. \A n \in Names : state[p][n] \in EndpointStates
    BY DEF Typed, TypeOK
<1> QED BY <1>1 DEF Heard, EndpointStates

\* A frame is read that is not refused.
LEMMA OpensTail ==
    ASSUME NEW w \in Seq(Frames), w # <<>>,
           NEW heard \in [Names -> BOOLEAN], NEW after \in [Names -> BOOLEAN],
           \A n \in Names : after[n] <=> IF About(w, 1, n) THEN IsAttach(w, 1) ELSE heard[n],
           ~ (IsAttach(w, 1) /\ heard[w[1].name]), Opens(w, heard)
    PROVE  Opens(Tail(w), after)
<1>1. PICK t : t = Tail(w)
    OBVIOUS
<1>2. /\ Len(t) = Len(w) - 1 /\ Len(w) \in Nat /\ \A i \in 1..Len(t) : t[i] = w[i + 1]
      /\ t \in Seq(Frames)
    BY <1>1, TailIs
<1>3. SUFFICES ASSUME NEW k \in 1..Len(t), NEW n, n = t[k].name,
                      ~ IsAttach(t, k), Clear(t, after[n], n, k)
               PROVE  OpenAt(t, after[n], n, k)
    BY <1>1 DEF Opens
<1>4. t[k] = w[k + 1] /\ k \in 1..Len(w) /\ k + 1 \in 1..Len(w) /\ n \in Names
    BY <1>2, <1>3, FrameIn
<1>5. ~ Clash(w, heard[n], n, 1)
    BY <1>2 DEF Clash, About, OpenAt
<1>6. Clear(w, heard[n], n, k + 1)
    BY <1>1, <1>3, <1>4, <1>5, ClearTail
<1>7. OpenAt(w, heard[n], n, k + 1)
    BY <1>3, <1>4, <1>6 DEF Opens, IsAttach
<1> QED BY <1>1, <1>4, <1>7, OpenTail

LEMMA BalancedTail ==
    ASSUME NEW w \in Seq(Frames), w # <<>>,
           NEW heard \in [Names -> BOOLEAN], NEW after \in [Names -> BOOLEAN],
           \A n \in Names : after[n] <=> IF About(w, 1, n) THEN IsAttach(w, 1) ELSE heard[n],
           ~ (IsAttach(w, 1) /\ heard[w[1].name]),
           NEW ends, Balanced(w, heard, ends)
    PROVE  Balanced(Tail(w), after, ends)
<1>1. PICK t : t = Tail(w)
    OBVIOUS
<1>2. Len(t) + 1 = Len(w) /\ Len(w) \in Nat \ {0} /\ Len(w) \in 1..Len(w)
    BY <1>1, TailIs
<1>3. SUFFICES ASSUME NEW n \in Names, Clear(t, after[n], n, Len(t) + 1)
               PROVE  ends[n].open_requests + One(OpenAt(t, after[n], n, Len(t) + 1))
                          >= ends[n].close_requests + One(ends[n].local_open)
    BY <1>1 DEF Balanced
<1>4. ~ Clash(w, heard[n], n, 1)
    BY <1>2 DEF Clash, About, OpenAt
<1>5. Clear(w, heard[n], n, Len(w) + 1)
    BY <1>1, <1>2, <1>3, <1>4, ClearTail
<1>6. OpenAt(t, after[n], n, Len(t) + 1) <=> OpenAt(w, heard[n], n, Len(w) + 1)
    BY <1>1, <1>2, OpenTail
<1>7. One(OpenAt(t, after[n], n, Len(t) + 1)) = One(OpenAt(w, heard[n], n, Len(w) + 1))
    BY <1>6 DEF One
<1> QED BY <1>5, <1>7 DEF Balanced

LEMMA FollowsTail ==
    ASSUME NEW w \in Seq(Frames), w # <<>>, NEW table, NEW later,
           \A h \in Handles :
               later[h] = IF IsAttach(w, 1) /\ w[1].handle = h THEN w[1].name ELSE table[h],
           Follows(w, table)
    PROVE  Follows(Tail(w), later)
<1>1. PICK t : t = Tail(w)
    OBVIOUS
<1>2. /\ Len(t) = Len(w) - 1 /\ Len(w) \in Nat /\ \A i \in 1..Len(t) : t[i] = w[i + 1]
      /\ t \in Seq(Frames)
    BY <1>1, TailIs
<1>3. SUFFICES ASSUME NEW k \in 1..Len(t), ~ IsAttach(t, k)
               PROVE  Led(t, later, t[k].handle, k, t[k].name) /\ Own(t, t[k].handle, k, t[k].name)
    BY <1>1 DEF Follows
<1>4. /\ t[k] = w[k + 1] /\ k \in 1..Len(w) /\ k + 1 \in 1..Len(w)
      /\ t[k].name \in Names /\ t[k].handle \in Handles
    BY <1>2, <1>3, FrameIn
<1>5. Led(w, table, t[k].handle, k + 1, t[k].name) /\ Own(w, t[k].handle, k + 1, t[k].name)
    BY <1>3, <1>4 DEF Follows, IsAttach
<1> QED BY <1>1, <1>4, <1>5, LedTail, OwnTail

LEMMA LeadsTail ==
    ASSUME NEW w \in Seq(Frames), w # <<>>, NEW table, NEW later,
           \A h \in Handles :
               later[h] = IF IsAttach(w, 1) /\ w[1].handle = h THEN w[1].name ELSE table[h],
           NEW ends, NEW names \in SUBSET Names, NEW handles,
           \A n \in names : handles[n] \in Handles,
           Leads(w, table, ends, names, handles)
    PROVE  Leads(Tail(w), later, ends, names, handles)
<1>1. PICK t : t = Tail(w)
    OBVIOUS
<1>2. Len(t) + 1 = Len(w) /\ Len(w) \in Nat \ {0} /\ Len(w) \in 1..Len(w)
    BY <1>1, TailIs
<1>3. SUFFICES ASSUME NEW n \in names, ~ Ahead(ends[n])
               PROVE  Led(t, later, handles[n], Len(t) + 1, n) /\ Own(t, handles[n], Len(t) + 1, n)
    BY <1>1 DEF Leads
<1>4. Led(w, table, handles[n], Len(w) + 1, n) /\ Own(w, handles[n], Len(w) + 1, n)
    BY <1>3 DEF Leads
<1> QED BY <1>1, <1>2, <1>4, LedTail, OwnTail


-----------------------------------------------------------------------------
(* A batch is written.                                                      *)

\* Where a link stands once its batch is written.
LEMMA BatchOpens ==
    ASSUME Typed, NEW p \in Peers, NEW requests, NEW u, IsBatch(p, requests, u),
           NEW w \in Seq(Frames), NEW heard \in [Names -> BOOLEAN],
           Balanced(w, heard, state[p]), NEW n \in links[p], NEW j \in 1..Len(u),
           u[j].name = n, Clear(w \o u, heard[n], n, Len(w) + j)
    PROVE  /\ u[j].type = "detach" => OpenAt(w \o u, heard[n], n, Len(w) + j)
           /\ state[p][n].open_requests >= 1 =>
                  ~ OpenAt(w, heard[n], n, Len(w) + 1) \/ requests[j].index = 1
<1>1. PICK v : v = w \o u
    OBVIOUS
<1>2. PICK e : e = state[p][n]
    OBVIOUS
<1>3. PICK x : x = requests[j].index
    OBVIOUS
<1>4. u \in Seq(Frames) /\ x \in 1..(e.open_requests + e.close_requests)
      /\ u[j].type = FrameType(e, x)
    BY <1>2, <1>3, BatchFrames
<1>5. /\ Len(w) \in Nat /\ Len(u) \in Nat /\ j \in Nat \ {0}
      /\ \A i \in 1..Len(w) : v[i] = w[i]
      /\ \A i \in 1..Len(u) : v[Len(w) + i] = u[i]
    BY <1>1, <1>4, LongerIs
<1>6. n \in Names /\ e \in EndpointStates
  <2>1. n \in Names
    BY DEF Typed, TypeOK
  <2> QED BY <1>2, <2>1, TypesAre
<1>7. e.open_requests \in Nat /\ e.close_requests \in Nat /\ e.local_open \in BOOLEAN
    BY <1>6 DEF EndpointStates
<1>8. PICK due : due = e.open_requests + e.close_requests
    OBVIOUS
<1>9. /\ x = 1 => \A l \in 1..(j - 1) : u[l].name # n
      /\ x > 1 => \E i \in 1..(j - 1) : /\ u[i].name = n /\ requests[i].index = x - 1
                                        /\ \A l \in (i + 1)..(j - 1) : u[l].name # n
      /\ \A y \in 1..due : \E i \in 1..Len(u) : u[i].name = n /\ requests[i].index = y
    BY <1>2, <1>3, <1>8, BatchOrder
<1> DEFINE before == OpenAt(w, heard[n], n, Len(w) + 1)
<1>10. before <=> OpenAt(v, heard[n], n, Len(w) + 1)
  <2>1. /\ Len(w) + 1 \in Nat /\ heard[n] \in BOOLEAN
        /\ Agree(w, v, Len(w) + 1)
    BY <1>5, <1>6 DEF Agree
  <2> QED BY <2>1, Prefix
<1>11. Clear(w, heard[n], n, Len(w) + 1)
  <2>1. PICK m : m = Len(w) + 1
    OBVIOUS
  <2>2. PICK k : k = Len(w) + j
    OBVIOUS
  <2>3. /\ m \in Nat /\ k \in Nat /\ m <= k /\ heard[n] \in BOOLEAN
        /\ Agree(v, w, m)
    BY <1>5, <1>6, <2>1, <2>2 DEF Agree
  <2>4. Clear(v, heard[n], n, k)
    BY <1>1, <2>2
  <2>5. Clear(w, heard[n], n, m)
    BY <2>3, <2>4, ClearPrefix
  <2> QED BY <2>1, <2>5
<1>12. e.open_requests + One(before) >= e.close_requests + One(e.local_open)
    BY <1>2, <1>6, <1>11 DEF Balanced
<1> HIDE DEF before
\* Up to the first frame of the link the batch is silent about it.
<1>13. ASSUME NEW i \in 1..Len(u), \A l \in 1..(i - 1) : u[l].name # n
       PROVE  OpenAt(v, heard[n], n, Len(w) + i) <=> before
  <2>1. \A l \in (Len(w) + 1)..((Len(w) + i) - 1) : ~ About(v, l, n)
    <3>1. 1 \in Nat \ {0} /\ i \in Nat /\ i <= Len(u) + 1
        BY <1>5
    <3> QED BY <1>1, <1>4, <1>13, <3>1, SilentBehind
  <2>2. /\ Len(w) + 1 \in Nat \ {0} /\ Len(w) + i \in Nat /\ Len(w) + 1 <= Len(w) + i
        /\ heard[n] \in BOOLEAN
    BY <1>5, <1>6
  <2>3. OpenAt(v, heard[n], n, Len(w) + i) <=> OpenAt(v, heard[n], n, Len(w) + 1)
    BY <2>1, <2>2, OpenSkip
  <2> QED BY <2>3, <1>10
\* A first attach to a link that is open would be refused.
<1>14. e.open_requests >= 1 /\ x # 1 => ~ before
  <2>1. SUFFICES ASSUME e.open_requests >= 1, x # 1, before
                 PROVE  FALSE
    OBVIOUS
  <2>2. 1 \in 1..due
    BY <1>7, <1>8, <2>1
  <2>3. PICK i \in 1..Len(u) : u[i].name = n /\ requests[i].index = 1
    BY <1>9, <2>2
  <2>4. \A l \in 1..(i - 1) : u[l].name # n
    BY <1>2, <1>8, <2>3, BatchOrder
  <2>5. i < j
    <3>1. x > 1 /\ i # j
        BY <1>3, <1>4, <2>1, <2>3
    <3>2. CASE j < i
        BY <3>2, <2>4, <1>5
    <3> QED BY <3>1, <3>2, <1>5
  <2>6. u[i].type = FrameType(e, 1)
    BY <1>2, <2>3, BatchFrames
  <2>7. FrameType(e, 1) = "attach"
    BY <1>4, <1>6, <2>1, FrameTypes
  <2>8. OpenAt(v, heard[n], n, Len(w) + i)
    BY <1>13, <2>1, <2>4
  <2>9. Clash(v, heard[n], n, Len(w) + i)
    BY <1>5, <2>3, <2>6, <2>7, <2>8 DEF Clash, About, IsAttach
  <2>10. Len(w) + i \in 1..((Len(w) + j) - 1)
    BY <1>5, <2>5
  <2> QED BY <1>1, <2>9, <2>10 DEF Clear
<1>15. u[j].type = "detach" => OpenAt(v, heard[n], n, Len(w) + j)
  <2>1. SUFFICES ASSUME u[j].type = "detach"
                 PROVE  OpenAt(v, heard[n], n, Len(w) + j)
    OBVIOUS
  <2>2. CASE e.open_requests = 0
    <3>1. e.close_requests >= 1
        BY <1>4, <1>7, <2>2
    <3>2. before /\ e.close_requests = 1
        BY <1>7, <1>12, <2>2, <3>1 DEF One
    <3>3. x = 1
        BY <1>4, <2>2, <3>2
    <3> QED BY <1>9, <1>13, <3>2, <3>3
  <2>3. CASE e.open_requests >= 1
    <3>1. FrameType(e, 1) = "attach" /\ FrameType(e, x) = "detach"
        BY <1>4, <1>6, <2>1, <2>3, FrameTypes
    <3>2. x # 1 /\ ~ before
        BY <1>14, <2>3, <3>1
    <3>3. e.close_requests <= e.open_requests
        BY <1>7, <1>12, <3>2 DEF One
    <3>4. x > 1 /\ FrameType(e, x - 1) = "attach"
        BY <1>4, <1>6, <3>1, <3>3, FrameTypes
    <3>5. PICK i \in 1..(j - 1) : /\ u[i].name = n /\ requests[i].index = x - 1
                                  /\ \A l \in (i + 1)..(j - 1) : u[l].name # n
        BY <1>9, <3>4
    <3>6. i \in 1..Len(u) /\ u[i].type = "attach"
        BY <1>2, <1>5, <3>4, <3>5, BatchFrames
    <3>7. IsAttach(v, Len(w) + i) /\ About(v, Len(w) + i, n)
        BY <1>5, <3>5, <3>6 DEF IsAttach, About
    <3>8. \A l \in ((Len(w) + i) + 1)..((Len(w) + j) - 1) : ~ About(v, l, n)
      <4>1. /\ i + 1 \in Nat \ {0} /\ (Len(w) + i) + 1 = Len(w) + (i + 1)
            /\ j \in Nat /\ j <= Len(u) + 1
        BY <1>5, <3>6
      <4> QED BY <1>1, <1>4, <3>5, <4>1, SilentBehind
    <3>9. /\ Len(w) + i \in Nat \ {0} /\ Len(w) + j \in Nat /\ Len(w) + i < Len(w) + j
          /\ heard[n] \in BOOLEAN
        BY <1>5, <1>6, <3>6
    <3> QED BY <3>7, <3>8, <3>9, OpenNext
  <2> QED BY <1>7, <2>2, <2>3
<1> QED BY <1>1, <1>2, <1>3, <1>14, <1>15 DEF before

LEMMA OpensBatch ==
    ASSUME Typed, NEW p \in Peers, NEW requests, NEW u, IsBatch(p, requests, u),
           NEW w \in Seq(Frames), NEW heard \in [Names -> BOOLEAN],
           Opens(w, heard), Balanced(w, heard, state[p])
    PROVE  Opens(w \o u, heard)
<1>1. PICK v : v = w \o u
    OBVIOUS
<1>2. u \in Seq(Frames)
    BY BatchFrames
<1>3. /\ Len(w) \in Nat /\ Len(u) \in Nat /\ v \in Seq(Frames) /\ Len(v) = Len(w) + Len(u)
      /\ \A i \in 1..Len(w) : v[i] = w[i]
      /\ \A i \in 1..Len(u) : v[Len(w) + i] = u[i]
    BY <1>1, <1>2, LongerIs
<1>4. SUFFICES ASSUME NEW k \in 1..Len(v), NEW n, n = v[k].name, ~ IsAttach(v, k),
                      Clear(v, heard[n], n, k)
               PROVE  OpenAt(v, heard[n], n, k)
    BY <1>1 DEF Opens
<1>5. n \in Names /\ heard[n] \in BOOLEAN /\ v[k].type = "detach"
    BY <1>3, <1>4, FrameIn DEF IsAttach
<1>6. CASE k \in 1..Len(w)
  <2>1. v[k] = w[k] /\ k \in Nat /\ k <= k /\ Agree(v, w, k) /\ Agree(w, v, k)
    BY <1>3, <1>6 DEF Agree
  <2>2. Clear(w, heard[n], n, k)
    BY <1>4, <1>5, <2>1, ClearPrefix
  <2>3. OpenAt(w, heard[n], n, k)
    BY <1>4, <1>6, <2>1, <2>2 DEF Opens, IsAttach
  <2> QED BY <1>5, <2>1, <2>3, Prefix
<1>7. CASE k \notin 1..Len(w)
  <2>1. PICK j \in 1..Len(u) : k = Len(w) + j
    <3>1. k - Len(w) \in 1..Len(u) /\ k = Len(w) + (k - Len(w))
        BY <1>3, <1>7
    <3> QED BY <3>1
  <2>2. u[j].name = n /\ u[j].type = "detach"
    BY <1>3, <1>4, <1>5, <2>1
  <2>3. n \in links[p]
    BY <2>2, BatchFrames
  <2>4. Clear(w \o u, heard[n], n, Len(w) + j)
    BY <1>1, <1>4, <2>1
  <2> QED BY <1>1, <2>1, <2>2, <2>3, <2>4, BatchOpens
<1> QED BY <1>6, <1>7


LEMMA BalancedBatch ==
    ASSUME Typed, NEW p \in Peers, NEW requests, NEW u, IsBatch(p, requests, u),
           NEW w \in Seq(Frames), NEW heard \in [Names -> BOOLEAN],
           Balanced(w, heard, state[p]),
           NEW after \in [Names -> EndpointStates],
           \A n \in Names : after[n] = Settled(state[p][n])
    PROVE  Balanced(w \o u, heard, after)
<1>1. PICK v : v = w \o u
    OBVIOUS
<1>2. u \in Seq(Frames)
    BY BatchFrames
<1>3. /\ Len(w) \in Nat /\ Len(u) \in Nat /\ v \in Seq(Frames) /\ Len(v) = Len(w) + Len(u)
      /\ \A i \in 1..Len(w) : v[i] = w[i]
      /\ \A i \in 1..Len(u) : v[Len(w) + i] = u[i]
    BY <1>1, <1>2, LongerIs
<1>4. SUFFICES ASSUME NEW n \in Names, Clear(v, heard[n], n, Len(v) + 1)
               PROVE  after[n].open_requests + One(OpenAt(v, heard[n], n, Len(v) + 1))
                          >= after[n].close_requests + One(after[n].local_open)
    BY <1>1 DEF Balanced
<1>5. PICK e : e = state[p][n]
    OBVIOUS
<1>6. e \in EndpointStates
    BY <1>5 DEF Typed, TypeOK
<1>7. e.open_requests \in Nat /\ e.close_requests \in Nat /\ e.local_open \in BOOLEAN
    BY <1>6 DEF EndpointStates
<1>8. /\ after[n].open_requests = 0 /\ after[n].close_requests = 0
      /\ after[n].local_open = e.local_open
    BY <1>5, <1>6, SettledIs
<1>9. SUFFICES ASSUME e.local_open
               PROVE  OpenAt(v, heard[n], n, Len(v) + 1)
    BY <1>7, <1>8 DEF One
<1>10. n \in links[p]
    BY <1>5, <1>9, FreshIs DEF Typed, Named
<1>11. PICK m : m = Len(w) + 1
    OBVIOUS
<1>12. PICK k : k = Len(v) + 1
    OBVIOUS
<1>13. /\ m \in Nat \ {0} /\ k \in Nat /\ m <= k /\ heard[n] \in BOOLEAN
       /\ Agree(v, w, m) /\ Agree(w, v, m)
    BY <1>3, <1>11, <1>12 DEF Agree
<1>14. Clear(w, heard[n], n, m) /\ Clear(v, heard[n], n, k)
  <2>1. Clear(v, heard[n], n, k)
    BY <1>4, <1>12
  <2> QED BY <2>1, <1>13, ClearPrefix
<1> DEFINE before == OpenAt(w, heard[n], n, m)
<1>15. e.open_requests + One(before) >= e.close_requests + 1
    BY <1>5, <1>9, <1>11, <1>14 DEF Balanced, One
<1>16. before <=> OpenAt(v, heard[n], n, m)
    BY <1>13, Prefix
<1> HIDE DEF before
<1>17. PICK due : due = e.open_requests + e.close_requests
    OBVIOUS
<1>18. /\ \A y \in 1..due : \E i \in 1..Len(u) : u[i].name = n /\ requests[i].index = y
       /\ \A i \in 1..Len(u) : u[i].name = n /\ requests[i].index = due
              => \A l \in (i + 1)..Len(u) : u[l].name # n
    BY <1>5, <1>10, <1>17, BatchOrder
<1>19. CASE e.open_requests = 0
  <2>1. before /\ due = 0
    BY <1>7, <1>15, <1>17, <1>19 DEF One
  <2>2. \A j \in 1..Len(u) : u[j].name # n
    <3>1. SUFFICES ASSUME NEW j \in 1..Len(u), u[j].name = n
                   PROVE  FALSE
        OBVIOUS
    <3>2. requests[j].index \in 1..due
        BY <1>5, <1>17, <3>1, BatchFrames
    <3> QED BY <2>1, <3>2
  <2>3. \A l \in m..(k - 1) : ~ About(v, l, n)
    <3>1. /\ 1 \in Nat \ {0} /\ Len(u) + 1 \in Nat /\ Len(u) + 1 <= Len(u) + 1
          /\ k = Len(w) + (Len(u) + 1) /\ (Len(u) + 1) - 1 = Len(u)
        BY <1>3, <1>12
    <3> QED BY <1>1, <1>2, <1>11, <2>2, <3>1, SilentBehind
  <2>4. OpenAt(v, heard[n], n, k)
    BY <1>13, <1>16, <2>1, <2>3, OpenSkip
  <2> QED BY <2>4, <1>12
<1>20. CASE e.open_requests >= 1
  <2>1. ~ before
    <3>1. 1 \in 1..due
        BY <1>7, <1>17, <1>20
    <3>2. PICK i \in 1..Len(u) : u[i].name = n /\ requests[i].index = 1
        BY <1>18, <3>1
    <3>3. \A l \in 1..(i - 1) : u[l].name # n
        BY <1>5, <1>10, <1>17, <3>2, BatchOrder
    <3>4. u[i].type = "attach"
        BY <1>5, <1>6, <1>17, <1>20, <3>1, <3>2, BatchFrames, FrameTypes
    <3>5. \A l \in m..((Len(w) + i) - 1) : ~ About(v, l, n)
      <4>1. 1 \in Nat \ {0} /\ i \in Nat /\ i <= Len(u) + 1
        BY <1>3
      <4> QED BY <1>1, <1>2, <1>11, <3>3, <4>1, SilentBehind
    <3>6. PICK x : x = Len(w) + i
        OBVIOUS
    <3>7. x \in Nat /\ m <= x /\ x \in 1..(k - 1)
        BY <1>3, <1>11, <1>12, <3>6
    <3>8. OpenAt(v, heard[n], n, x) <=> before
        BY <1>13, <1>16, <3>5, <3>6, <3>7, OpenSkip
    <3>9. ~ Clash(v, heard[n], n, x)
        BY <1>14, <3>7 DEF Clear
    <3> QED BY <1>3, <3>2, <3>4, <3>6, <3>8, <3>9 DEF Clash, About, IsAttach
  <2>2. e.close_requests < e.open_requests
    BY <1>7, <1>15, <2>1 DEF One
  <2>3. due \in 1..due
    BY <1>7, <1>17, <1>20
  <2>4. PICK i \in 1..Len(u) : u[i].name = n /\ requests[i].index = due
    BY <1>18, <2>3
  <2>5. u[i].type = "attach"
    BY <1>5, <1>6, <1>17, <2>2, <2>3, <2>4, BatchFrames, FrameTypes
  <2>6. PICK x : x = Len(w) + i
    OBVIOUS
  <2>7. x \in Nat \ {0} /\ x < k /\ About(v, x, n) /\ IsAttach(v, x)
    BY <1>3, <1>12, <2>4, <2>5, <2>6 DEF About, IsAttach
  <2>8. \A l \in (x + 1)..(k - 1) : ~ About(v, l, n)
    <3>1. /\ i + 1 \in Nat \ {0} /\ Len(u) + 1 \in Nat /\ Len(u) + 1 <= Len(u) + 1
          /\ x + 1 = Len(w) + (i + 1) /\ k = Len(w) + (Len(u) + 1) /\ (Len(u) + 1) - 1 = Len(u)
        BY <1>3, <1>12, <2>6
    <3>2. \A l \in (i + 1)..Len(u) : u[l].name # n
        BY <1>18, <2>4
    <3> QED BY <1>1, <1>2, <3>1, <3>2, SilentBehind
  <2>9. OpenAt(v, heard[n], n, k)
    BY <1>13, <2>7, <2>8, OpenNext
  <2> QED BY <2>9, <1>12
<1> QED BY <1>7, <1>19, <1>20

\* What leads to a link and is its own stays so through a batch of its writer, and an
\* attach in the batch makes it so.
LEMMA BatchLeads ==
    ASSUME Typed, NEW p \in Peers, NEW requests, NEW u, IsBatch(p, requests, u),
           NEW w \in Seq(Frames), NEW table, NEW n \in links[p], NEW h, h = handle[p][n],
           NEW j \in 1..(Len(u) + 1),
           \/ \E i \in 1..(j - 1) : u[i].name = n /\ u[i].type = "attach"
           \/ Led(w, table, h, Len(w) + 1, n) /\ Own(w, h, Len(w) + 1, n)
    PROVE  Led(w \o u, table, h, Len(w) + j, n) /\ Own(w \o u, h, Len(w) + j, n)
<1>1. PICK v : v = w \o u
    OBVIOUS
<1>2. /\ u \in Seq(Frames)
      /\ \A i \in 1..Len(u) : u[i].name \in links[p] /\ u[i].handle = handle[p][u[i].name]
    BY BatchFrames
<1>3. /\ Len(w) \in Nat /\ Len(u) \in Nat
      /\ \A i \in 1..Len(w) : v[i] = w[i]
      /\ \A i \in 1..Len(u) : v[Len(w) + i] = u[i]
    BY <1>1, <1>2, LongerIs
<1>4. PICK m : m = Len(w) + 1
    OBVIOUS
<1>5. PICK k : k = Len(w) + j
    OBVIOUS
<1>6. m \in Nat /\ k \in Nat /\ m <= k /\ Agree(w, v, m)
    BY <1>3, <1>4, <1>5 DEF Agree
\* In the batch the handle is that of n alone.
<1>7. \A l \in m..(k - 1) : /\ v[l].handle = h => About(v, l, n)
                            /\ About(v, l, n) => v[l].handle = h
  <2>1. SUFFICES ASSUME NEW l \in m..(k - 1)
                 PROVE  /\ v[l].handle = h => About(v, l, n)
                        /\ About(v, l, n) => v[l].handle = h
    OBVIOUS
  <2>2. l - Len(w) \in 1..Len(u) /\ Len(w) + (l - Len(w)) = l
    BY <1>3, <1>4, <1>5
  <2>3. v[l].name \in links[p] /\ v[l].handle = handle[p][v[l].name]
    <3>1. v[Len(w) + (l - Len(w))] = u[l - Len(w)]
        BY <1>3, <2>2
    <3>2. v[l] = u[l - Len(w)]
        BY <2>2, <3>1
    <3> QED BY <1>2, <2>2, <3>2
  <2>4. \A a \in links[p] : handle[p][a] = handle[p][n] => a = n
    BY DEF Typed, HandlesDiffer
  <2> QED BY <2>3, <2>4 DEF About
<1>8. CASE \E i \in 1..(j - 1) : u[i].name = n /\ u[i].type = "attach"
  <2>1. PICK i \in 1..(j - 1) : u[i].name = n /\ u[i].type = "attach"
    BY <1>8
  <2>2. PICK x : x = Len(w) + i
    OBVIOUS
  <2>3. x \in m..(k - 1) /\ x \in 1..(k - 1) /\ v[x] = u[i]
    <3>1. i \in 1..Len(u)
        BY <1>3
    <3> QED BY <1>3, <1>4, <1>5, <2>2, <3>1
  <2>4. About(v, x, n) /\ IsAttach(v, x) /\ v[x].handle = h
    BY <1>7, <2>1, <2>3 DEF About, IsAttach
  <2>5. Led(v, table, h, k, n)
    <3>1. \A l \in (x + 1)..(k - 1) : l \in m..(k - 1)
        BY <2>3, <1>6
    <3> QED BY <1>7, <2>3, <2>4, <3>1 DEF Led
  <2>6. Own(v, h, k, n)
    <3>1. SUFFICES ASSUME NEW y \in 1..(k - 1), About(v, y, n), IsAttach(v, y)
                   PROVE  \E z \in y..(k - 1) : About(v, z, n) /\ IsAttach(v, z) /\ v[z].handle = h
        BY DEF Own
    <3>2. CASE y <= x
        BY <3>2, <2>3, <2>4
    <3>3. CASE ~ (y <= x)
      <4>1. y \in m..(k - 1)
        BY <3>3, <2>3, <1>6
      <4> QED BY <4>1, <3>1, <1>7, <1>6
    <3> QED BY <3>2, <3>3
  <2> QED BY <1>1, <1>5, <2>5, <2>6
<1>9. CASE Led(w, table, h, Len(w) + 1, n) /\ Own(w, h, Len(w) + 1, n)
  <2>1. Led(v, table, h, m, n) /\ Own(v, h, m, n)
    <3>1. Led(w, table, h, m, n) /\ Own(w, h, m, n)
        BY <1>9, <1>4
    <3>2. /\ Led(w, table, h, m, n) <=> Led(v, table, h, m, n)
          /\ Own(w, h, m, n) <=> Own(v, h, m, n)
        BY <1>6, Prefix
    <3> QED BY <3>1, <3>2
  <2> DEFINE Good(l) == IsAttach(v, l) /\ v[l].handle = h => About(v, l, n)
  <2>2. \A l \in m..(k - 1) : Good(l)
    BY <1>7
  <2>3. Led(v, table, h, k, n)
    <3>1. CASE \E i \in 1..(m - 1) : /\ About(v, i, n) /\ IsAttach(v, i) /\ v[i].handle = h
                                     /\ \A l \in (i + 1)..(m - 1) : Good(l)
      <4>1. PICK i \in 1..(m - 1) : /\ About(v, i, n) /\ IsAttach(v, i) /\ v[i].handle = h
                                    /\ \A l \in (i + 1)..(m - 1) : Good(l)
        BY <3>1
      <4> HIDE DEF Good
      <4>2. i \in 1..(k - 1) /\ \A l \in (i + 1)..(k - 1) : Good(l)
        BY <4>1, <2>2, <1>6
      <4> USE DEF Good
      <4> QED BY <4>1, <4>2 DEF Led
    <3>2. CASE table[h] = n /\ \A l \in 1..(m - 1) : Good(l)
      <4> HIDE DEF Good
      <4>1. \A l \in 1..(k - 1) : Good(l)
        BY <3>2, <2>2, <1>6
      <4> USE DEF Good
      <4> QED BY <3>2, <4>1 DEF Led
    <3> QED BY <2>1, <3>1, <3>2 DEF Led
  <2>4. Own(v, h, k, n)
    <3>1. SUFFICES ASSUME NEW y \in 1..(k - 1), About(v, y, n), IsAttach(v, y)
                   PROVE  \E z \in y..(k - 1) : About(v, z, n) /\ IsAttach(v, z) /\ v[z].handle = h
        BY DEF Own
    <3>2. CASE y \in 1..(m - 1)
      <4>1. PICK z \in y..(m - 1) : About(v, z, n) /\ IsAttach(v, z) /\ v[z].handle = h
        BY <2>1, <3>1, <3>2 DEF Own
      <4> QED BY <4>1, <1>6
    <3>3. CASE y \notin 1..(m - 1)
      <4>1. y \in m..(k - 1)
        BY <3>3, <1>6
      <4> QED BY <4>1, <3>1, <1>7, <1>6
    <3> QED BY <3>2, <3>3
  <2> QED BY <1>1, <1>5, <2>3, <2>4
<1> QED BY <1>8, <1>9


\* A link whose end is not ahead leads, and one that is ahead has an attach in the batch
\* before any detach.
LEMMA FollowsBatch ==
    ASSUME Typed, NEW p \in Peers, NEW requests, NEW u, IsBatch(p, requests, u),
           NEW w \in Seq(Frames), NEW table,
           Follows(w, table), Leads(w, table, state[p], links[p], handle[p])
    PROVE  Follows(w \o u, table)
<1>1. PICK v : v = w \o u
    OBVIOUS
<1>2. u \in Seq(Frames)
    BY BatchFrames
<1>3. /\ Len(w) \in Nat /\ Len(u) \in Nat /\ v \in Seq(Frames) /\ Len(v) = Len(w) + Len(u)
      /\ \A i \in 1..Len(w) : v[i] = w[i]
      /\ \A i \in 1..Len(u) : v[Len(w) + i] = u[i]
    BY <1>1, <1>2, LongerIs
<1>4. SUFFICES ASSUME NEW k \in 1..Len(v), ~ IsAttach(v, k)
               PROVE  Led(v, table, v[k].handle, k, v[k].name) /\ Own(v, v[k].handle, k, v[k].name)
    BY <1>1 DEF Follows
<1>5. CASE k \in 1..Len(w)
  <2>1. v[k] = w[k] /\ k \in Nat /\ Agree(w, v, k)
    BY <1>3, <1>5 DEF Agree
  <2>2. Led(w, table, v[k].handle, k, v[k].name) /\ Own(w, v[k].handle, k, v[k].name)
    BY <1>4, <1>5, <2>1 DEF Follows, IsAttach
  <2> QED BY <2>1, <2>2, Prefix
<1>6. CASE k \notin 1..Len(w)
  <2>1. PICK j \in 1..Len(u) : k = Len(w) + j
    <3>1. k - Len(w) \in 1..Len(u) /\ k = Len(w) + (k - Len(w))
        BY <1>3, <1>6
    <3> QED BY <3>1
  <2>2. PICK n : n = u[j].name
    OBVIOUS
  <2>3. /\ v[k] = u[j] /\ n \in links[p] /\ n \in Names /\ u[j].handle = handle[p][n]
        /\ u[j].type # "attach" /\ u[j].type = FrameType(state[p][n], requests[j].index)
        /\ requests[j].index \in 1..(state[p][n].open_requests + state[p][n].close_requests)
    BY <1>3, <1>4, <2>1, <2>2, BatchFrames DEF IsAttach
  <2>4. PICK e : e = state[p][n]
    OBVIOUS
  <2>5. e \in EndpointStates
    BY <2>3, <2>4 DEF Typed, TypeOK
  <2>6. e.open_requests \in Nat /\ e.close_requests \in Nat
    BY <2>5 DEF EndpointStates
  <2>7. \/ \E i \in 1..(j - 1) : u[i].name = n /\ u[i].type = "attach"
        \/ Led(w, table, handle[p][n], Len(w) + 1, n) /\ Own(w, handle[p][n], Len(w) + 1, n)
    <3>1. CASE e.open_requests = 0
      <4>1. requests[j].index \in 1..(e.open_requests + e.close_requests)
        BY <2>3, <2>4
      <4>2. e.close_requests # 0
        <5>1. PICK c : c = e.close_requests
            OBVIOUS
        <5>2. PICK x : x = requests[j].index
            OBVIOUS
        <5>3. c \in Nat /\ x \in 1..(0 + c)
            BY <2>6, <3>1, <4>1, <5>1, <5>2
        <5>4. c # 0
            BY <5>3
        <5> QED BY <5>1, <5>4
      <4>3. ~ Ahead(e)
        BY <2>6, <3>1, <4>2 DEF Ahead
      <4> QED BY <2>3, <2>4, <4>3 DEF Leads
    <3>2. CASE e.open_requests >= 1
      <4>1. 1 \in 1..(e.open_requests + e.close_requests) /\ FrameType(e, 1) = "attach"
        <5>1. 1 \in 1..(e.open_requests + e.close_requests)
            BY <2>6, <3>2
        <5> QED BY <2>5, <3>2, <5>1, FrameTypes
      <4>2. PICK i \in 1..Len(u) : u[i].name = n /\ requests[i].index = 1
        BY <2>3, <2>4, <4>1, BatchOrder
      <4>3. u[i].type = "attach"
        BY <2>4, <4>1, <4>2, BatchFrames
      <4>4. \A l \in 1..(i - 1) : u[l].name # n
        BY <2>3, <2>4, <4>2, BatchOrder
      <4>5. i < j
        <5>1. i # j
            BY <2>3, <4>3
        <5>2. ~ (j < i)
            BY <2>2, <4>4, <1>3
        <5> QED BY <5>1, <5>2, <1>3
      <4> QED BY <4>2, <4>3, <4>5
    <3> QED BY <2>6, <3>1, <3>2
  <2>8. j \in 1..(Len(u) + 1)
    BY <1>3
  <2>9. /\ Led(w \o u, table, handle[p][n], Len(w) + j, n)
        /\ Own(w \o u, handle[p][n], Len(w) + j, n)
    BY <2>3, <2>7, <2>8, BatchLeads
  <2> QED BY <1>1, <2>1, <2>2, <2>3, <2>9
<1> QED BY <1>5, <1>6

LEMMA LeadsBatch ==
    ASSUME Typed, NEW p \in Peers, NEW requests, NEW u, IsBatch(p, requests, u),
           NEW w \in Seq(Frames), NEW table,
           Leads(w, table, state[p], links[p], handle[p]),
           NEW after \in [Names -> EndpointStates],
           \A n \in Names : after[n] = Settled(state[p][n])
    PROVE  Leads(w \o u, table, after, links[p], handle[p])
<1>1. PICK v : v = w \o u
    OBVIOUS
<1>2. u \in Seq(Frames)
    BY BatchFrames
<1>3. Len(w) \in Nat /\ Len(u) \in Nat /\ Len(v) = Len(w) + Len(u)
    BY <1>1, <1>2, LongerIs
<1>4. SUFFICES ASSUME NEW n \in links[p], ~ Ahead(after[n])
               PROVE  /\ Led(v, table, handle[p][n], Len(v) + 1, n)
                      /\ Own(v, handle[p][n], Len(v) + 1, n)
    BY <1>1 DEF Leads
<1>5. PICK e : e = state[p][n]
    OBVIOUS
<1>6. n \in Names /\ e \in EndpointStates
    BY <1>5 DEF Typed, TypeOK
<1>7. e.open_requests \in Nat /\ e.close_requests \in Nat
    BY <1>6 DEF EndpointStates
<1>8. e.local_open
    BY <1>4, <1>5, <1>6, SettledIs DEF Ahead
<1>9. PICK j : j = Len(u) + 1
    OBVIOUS
<1>10. \/ \E i \in 1..(j - 1) : u[i].name = n /\ u[i].type = "attach"
       \/ Led(w, table, handle[p][n], Len(w) + 1, n) /\ Own(w, handle[p][n], Len(w) + 1, n)
  <2>1. CASE e.open_requests = 0
    <3>1. ~ Ahead(e)
        BY <1>8, <2>1 DEF Ahead
    <3> QED BY <1>5, <3>1 DEF Leads
  <2>2. CASE e.open_requests >= 1
    <3>1. 1 \in 1..(e.open_requests + e.close_requests) /\ FrameType(e, 1) = "attach"
        BY <1>6, <1>7, <2>2, FrameTypes
    <3>2. PICK i \in 1..Len(u) : u[i].name = n /\ requests[i].index = 1
        BY <1>5, <3>1, BatchOrder
    <3>3. u[i].type = "attach"
        BY <1>5, <3>1, <3>2, BatchFrames
    <3>4. i \in 1..(j - 1)
        BY <1>3, <1>9
    <3> QED BY <3>2, <3>3, <3>4
  <2> QED BY <1>7, <2>1, <2>2
<1>11. j \in 1..(Len(u) + 1) /\ Len(w) + j = Len(v) + 1
    BY <1>3, <1>9
<1>12. /\ Led(w \o u, table, handle[p][n], Len(w) + j, n)
       /\ Own(w \o u, handle[p][n], Len(w) + j, n)
    BY <1>10, <1>11, BatchLeads
<1> QED BY <1>1, <1>11, <1>12

-----------------------------------------------------------------------------
(* An end changes, or a link is removed.                                    *)

\* An end may change so that it has no more to detach than before, or is new.
LEMMA BalancedEnds ==
    ASSUME NEW w \in Seq(Frames), NEW heard, NEW ends \in [Names -> EndpointStates],
           NEW after \in [Names -> EndpointStates], Balanced(w, heard, ends),
           \A n \in Names :
               \/ after[n].open_requests + ends[n].close_requests + One(ends[n].local_open)
                      >= ends[n].open_requests + after[n].close_requests + One(after[n].local_open)
               \/ after[n].open_requests >= after[n].close_requests + One(after[n].local_open)
    PROVE  Balanced(w, heard, after)
<1>1. SUFFICES ASSUME NEW n \in Names, Clear(w, heard[n], n, Len(w) + 1)
               PROVE  after[n].open_requests + One(OpenAt(w, heard[n], n, Len(w) + 1))
                          >= after[n].close_requests + One(after[n].local_open)
    BY DEF Balanced
<1>2. PICK written, was, is :
          /\ written = One(OpenAt(w, heard[n], n, Len(w) + 1))
          /\ was = One(ends[n].local_open) /\ is = One(after[n].local_open)
    OBVIOUS
<1>3. PICK o, c, x, y : /\ o = ends[n].open_requests /\ c = ends[n].close_requests
                        /\ x = after[n].open_requests /\ y = after[n].close_requests
    OBVIOUS
<1>4. written \in {0, 1} /\ was \in {0, 1} /\ is \in {0, 1}
    BY <1>2 DEF One
<1>5. o \in Nat /\ c \in Nat /\ x \in Nat /\ y \in Nat
    BY <1>3 DEF EndpointStates
<1>6. o + written >= c + was
    BY <1>1, <1>2, <1>3 DEF Balanced
<1>7. x + c + was >= o + y + is \/ x >= y + is
    BY <1>2, <1>3
<1>8. x + written >= y + is
    BY <1>4, <1>5, <1>6, <1>7
<1> QED BY <1>2, <1>3, <1>8

LEMMA LeadsEnds ==
    ASSUME NEW w, NEW table, NEW ends, NEW after, NEW names, NEW later, NEW handles, NEW others,
           Leads(w, table, ends, names, handles),
           \A n \in later : \/ Ahead(after[n])
                            \/ n \in names /\ others[n] = handles[n] /\ ~ Ahead(ends[n])
    PROVE  Leads(w, table, after, later, others)
BY DEF Leads

\* With an attach on the way the table plays no part.
LEMMA LedOnTheWay ==
    ASSUME NEW w \in Seq(Frames), NEW table, NEW later, NEW h, NEW n, NEW k \in Nat,
           Led(w, table, h, k, n), Own(w, h, k, n),
           \E j \in 1..(k - 1) : About(w, j, n) /\ IsAttach(w, j)
    PROVE  Led(w, later, h, k, n)
<1>1. PICK j \in 1..(k - 1) : About(w, j, n) /\ IsAttach(w, j)
    OBVIOUS
<1>2. PICK i \in j..(k - 1) : About(w, i, n) /\ IsAttach(w, i) /\ w[i].handle = h
    BY <1>1 DEF Own
<1>3. CASE \A l \in 1..(k - 1) : IsAttach(w, l) /\ w[l].handle = h => About(w, l, n)
  <2>1. i \in 1..(k - 1) /\ \A l \in (i + 1)..(k - 1) : l \in 1..(k - 1)
    BY <1>1, <1>2
  <2> QED BY <1>2, <1>3, <2>1 DEF Led
<1>4. CASE ~ \A l \in 1..(k - 1) : IsAttach(w, l) /\ w[l].handle = h => About(w, l, n)
    BY <1>4 DEF Led
<1> QED BY <1>3, <1>4

\* remove_link: no frame on the way needs the entry that it drops.
LEMMA FollowsRemoved ==
    ASSUME NEW w \in Seq(Frames), NEW heard \in [Names -> BOOLEAN], NEW table, NEW later,
           NEW n \in Names, ~ heard[n],
           \A h \in Handles : table[h] # n => later[h] = table[h],
           Opens(w, heard), Follows(w, table)
    PROVE  Follows(w, later)
<1>1. SUFFICES ASSUME NEW k \in 1..Len(w), ~ IsAttach(w, k)
               PROVE  Led(w, later, w[k].handle, k, w[k].name)
    BY DEF Follows
<1>2. PICK m : m = w[k].name
    OBVIOUS
<1>3. PICK h : h = w[k].handle
    OBVIOUS
<1>4. m \in Names /\ h \in Handles /\ Led(w, table, h, k, m) /\ Own(w, h, k, m)
    BY <1>1, <1>2, <1>3, FrameIn DEF Follows
<1>5. CASE m # n
  <2>1. table[h] = m => later[h] = m
    BY <1>4, <1>5
  <2> QED BY <1>2, <1>3, <1>4, <2>1 DEF Led
<1>6. CASE m = n
  <2>1. \E j \in 1..(k - 1) : About(w, j, n) /\ IsAttach(w, j)
    <3>1. CASE Clear(w, heard[n], n, k)
      <4>1. OpenAt(w, heard[n], n, k)
        BY <1>1, <1>2, <1>6, <3>1 DEF Opens
      <4> QED BY <4>1 DEF OpenAt
    <3>2. CASE ~ Clear(w, heard[n], n, k)
        BY <3>2 DEF Clear, Clash
    <3> QED BY <3>1, <3>2
  <2>2. PICK j \in 1..(k - 1) : About(w, j, n) /\ IsAttach(w, j)
    BY <2>1
  <2> QED BY <1>2, <1>3, <1>4, <1>6, <2>2, LedOnTheWay
<1> QED BY <1>5, <1>6


LEMMA LeadsRemoved ==
    ASSUME NEW w \in Seq(Frames), NEW heard \in [Names -> BOOLEAN], NEW table, NEW later,
           NEW n \in Names, ~ heard[n],
           \A h \in Handles : table[h] # n => later[h] = table[h],
           NEW ends \in [Names -> EndpointStates], Balanced(w, heard, ends),
           NEW names \in SUBSET Names, NEW handles, \A m \in names : handles[m] \in Handles,
           Leads(w, table, ends, names, handles)
    PROVE  Leads(w, later, ends, names, handles)
<1>1. SUFFICES ASSUME NEW m \in names, ~ Ahead(ends[m])
               PROVE  Led(w, later, handles[m], Len(w) + 1, m)
    BY DEF Leads
<1>2. PICK h : h = handles[m]
    OBVIOUS
<1>3. PICK k : k = Len(w) + 1
    OBVIOUS
<1>4. m \in Names /\ h \in Handles /\ Led(w, table, h, k, m) /\ Own(w, h, k, m) /\ k \in Nat
    BY <1>1, <1>2, <1>3 DEF Leads
<1>5. CASE m # n
  <2>1. table[h] = m => later[h] = m
    BY <1>4, <1>5
  <2> QED BY <1>2, <1>3, <1>4, <2>1 DEF Led
<1>6. CASE m = n
  <2>1. \E j \in 1..(k - 1) : About(w, j, n) /\ IsAttach(w, j)
    <3>1. CASE Clear(w, heard[n], n, k)
      <4>1. PICK written : written = One(OpenAt(w, heard[n], n, k))
        OBVIOUS
      <4>2. ends[n].open_requests + written >= ends[n].close_requests + One(ends[n].local_open)
        BY <1>3, <3>1, <4>1 DEF Balanced
      <4>3. /\ ends[n].open_requests \in Nat /\ ends[n].close_requests \in Nat
            /\ ends[n].local_open \in BOOLEAN
        BY DEF EndpointStates
      <4>4. ends[n].open_requests = 0 /\ ends[n].close_requests + One(ends[n].local_open) >= 1
        BY <1>1, <1>6, <4>3 DEF Ahead, One
      <4>5. written # 0
        BY <4>1, <4>2, <4>3, <4>4 DEF One
      <4>6. OpenAt(w, heard[n], n, k)
        BY <4>1, <4>5 DEF One
      <4> QED BY <4>6 DEF OpenAt
    <3>2. CASE ~ Clear(w, heard[n], n, k)
        BY <3>2 DEF Clear, Clash
    <3> QED BY <3>1, <3>2
  <2> QED BY <1>2, <1>3, <1>4, <1>6, <2>1, LedOnTheWay
<1> QED BY <1>5, <1>6

-----------------------------------------------------------------------------
(* The invariant: both directions, and the removals that wait.              *)

Inward(p) ==
    /\ Running(p) => /\ Opens(wire[p], Heard(p))
                     /\ Balanced(wire[p], Heard(p), state[Other(p)])
    /\ Follows(wire[p], remote_handles[p])
    /\ Leads(wire[p], remote_handles[p], state[Other(p)], links[Other(p)], handle[Other(p)])

\* remove_link waits only where the peer has closed, and nothing is read before it.
Waiting(p) ==
    \A n \in Names :
        Contains(ticks[p], RemoveTask(n)) => ~ reading[p] /\ ~ state[p][n].remote_open

Faultless(p) == fault[p] \in {"none", "Attach already received"}

Following == Typed /\ \A p \in Peers : Inward(p) /\ Waiting(p) /\ Faultless(p)

\* What a peer does to its own ends, as the other direction sees it: no end gets more to
\* detach, none that is ahead falls behind, and no link changes its handle.
Kept(p) ==
    /\ \A n \in Names :
           \/ state'[p][n].open_requests + state[p][n].close_requests + One(state[p][n].local_open)
                  >= state[p][n].open_requests + state'[p][n].close_requests
                         + One(state'[p][n].local_open)
           \/ state'[p][n].open_requests >= state'[p][n].close_requests
                                                + One(state'[p][n].local_open)
    /\ \A n \in links'[p] :
           \/ Ahead(state'[p][n])
           \/ n \in links[p] /\ handle'[p][n] = handle[p][n] /\ ~ Ahead(state[p][n])
    /\ wire'[Other(p)] = wire[Other(p)] /\ remote_handles'[Other(p)] = remote_handles[Other(p)]
    /\ state'[Other(p)] = state[Other(p)] /\ fault'[Other(p)] = fault[Other(p)]

LEMMA KeptInward ==
    ASSUME Following, Typed', NEW p \in Peers, Kept(p)
    PROVE  Inward(Other(p))'
<1>1. PICK q : q = Other(p)
    OBVIOUS
<1>2. q \in Peers /\ p \in Peers /\ Other(q) = p
    BY <1>1, Others
<1>3. /\ wire'[q] = wire[q] /\ remote_handles'[q] = remote_handles[q]
      /\ state'[q] = state[q] /\ fault'[q] = fault[q]
    BY <1>1 DEF Kept
<1>4. Heard(q)' = Heard(q) /\ Running(q)' = Running(q)
    BY <1>3 DEF Heard, Running
<1>5. state[p] \in [Names -> EndpointStates] /\ wire[q] \in Seq(Frames)
    BY <1>2 DEF Following, Typed, TypeOK
<1>6. state'[p] \in [Names -> EndpointStates]
    BY <1>2 DEF Typed, TypeOK
<1>7. Inward(q)
    BY <1>2 DEF Following
<1>8. Running(q) => Balanced(wire[q], Heard(q), state'[p])
    BY <1>2, <1>5, <1>6, <1>7, BalancedEnds DEF Inward, Kept
<1>9. Leads(wire[q], remote_handles[q], state'[p], links'[p], handle'[p])
    BY <1>2, <1>7, LeadsEnds DEF Inward, Kept
<1>10. (Inward(q))'
    BY <1>2, <1>3, <1>4, <1>7, <1>8, <1>9 DEF Inward
<1> QED BY <1>1, <1>10


-----------------------------------------------------------------------------
(* What a step of p leaves alone, and what it does to its own ends.         *)

Alone(p) ==
    LET q == Other(p)
    IN  /\ links'[q] = links[q] /\ state'[q] = state[q] /\ handle'[q] = handle[q]
        /\ remote_handles'[q] = remote_handles[q] /\ ticks'[q] = ticks[q]
        /\ reading'[q] = reading[q] /\ fault'[q] = fault[q]

LEMMA CallsAlone ==
    ASSUME Typed, NEW p \in Peers, NEW n \in Names,
           OpenLink(p, n) \/ CloseLink(p, n) \/ ReopenLink(p, n)
    PROVE  Alone(p) /\ wire' = wire
<1>1. Other(p) \in Peers /\ Other(p) # p
    BY Others
<1>2. CASE OpenLink(p, n)
    BY <1>1, <1>2 DEF OpenLink, Alone, Typed, TypeOK
<1>3. CASE CloseLink(p, n)
    BY <1>1, <1>3 DEF CloseLink, Alone, Typed, TypeOK
<1>4. CASE ReopenLink(p, n)
    BY <1>1, <1>4 DEF ReopenLink, Alone, Typed, TypeOK
<1> QED BY <1>2, <1>3, <1>4

LEMMA StepsAlone ==
    ASSUME Typed, NEW p \in Peers, Step(p)
    PROVE  /\ Alone(p)
           /\ ReadAttach(p) \/ ReadDetach(p) \/ CloseTick(p) \/ RemoveTick(p)
                  => wire'[Other(p)] = wire[Other(p)]
<1>1. Other(p) \in Peers /\ Other(p) # p
    BY Others
<1>2. /\ links \in [Peers -> SUBSET Names]
      /\ state \in [Peers -> [Names -> EndpointStates]]
      /\ handle \in [Peers -> [Names -> Handles \cup {NoHandle}]]
      /\ remote_handles \in [Peers -> [Handles -> Names \cup {Nothing, Removed}]]
      /\ ticks \in [Peers -> Seq(Tasks)] /\ reading \in [Peers -> BOOLEAN]
      /\ wire \in [Peers -> Seq(Frames)]
      /\ fault \in [Peers -> {"none", "Attach already received",
                              "Detach already received", "Invalid handle"}]
    BY DEF Typed, TypeOK
<1>3. CASE ReadAttach(p)
  <2>1. links'[Other(p)] = links[Other(p)] /\ handle'[Other(p)] = handle[Other(p)]
    BY <1>1, <1>2, <1>3 DEF ReadAttach, Read
  <2>2. /\ state'[Other(p)] = state[Other(p)] /\ ticks'[Other(p)] = ticks[Other(p)]
        /\ fault'[Other(p)] = fault[Other(p)]
    BY <1>1, <1>2, <1>3 DEF ReadAttach, Read
  <2>3. /\ remote_handles'[Other(p)] = remote_handles[Other(p)]
        /\ reading'[Other(p)] = reading[Other(p)] /\ wire'[Other(p)] = wire[Other(p)]
    BY <1>1, <1>2, <1>3 DEF ReadAttach, Read
  <2> QED BY <2>1, <2>2, <2>3 DEF Alone
<1>4. CASE ReadDetach(p)
    BY <1>1, <1>2, <1>4 DEF ReadDetach, Read, Alone
<1>5. CASE ProcessTick(p)
  <2>1. Alone(p)
    BY <1>1, <1>2, <1>5 DEF ProcessTick, Tick, Alone
  <2>2. ~ (ReadAttach(p) \/ ReadDetach(p) \/ CloseTick(p) \/ RemoveTick(p))
    <3>1. reading'[p] = FALSE /\ Head(ticks[p]).task = "process"
        BY <1>2, <1>5 DEF ProcessTick, Tick
    <3>2. ReadAttach(p) \/ ReadDetach(p) => reading'[p] = TRUE
        BY <1>2 DEF ReadAttach, ReadDetach, Read
    <3> QED BY <3>1, <3>2 DEF CloseTick, RemoveTick, Tick
  <2> QED BY <2>1, <2>2
<1>6. CASE CloseTick(p)
    BY <1>1, <1>2, <1>6 DEF CloseTick, Tick, Alone
<1>7. CASE RemoveTick(p)
    BY <1>1, <1>2, <1>7 DEF RemoveTick, Tick, Alone
<1> QED BY <1>3, <1>4, <1>5, <1>6, <1>7 DEF Step

\* The other peer's ticks are as they were.
LEMMA AloneWaits ==
    ASSUME NEW p \in Peers, Alone(p), Waiting(Other(p)), Faultless(Other(p))
    PROVE  Waiting(Other(p))' /\ Faultless(Other(p))'
<1>1. PICK q : q = Other(p)
    OBVIOUS
<1>2. ticks'[q] = ticks[q] /\ reading'[q] = reading[q] /\ state'[q] = state[q] /\ fault'[q] = fault[q]
    BY <1>1 DEF Alone
<1>3. Waiting(q) /\ Faultless(q)
    BY <1>1
<1>4. (Waiting(q))' /\ (Faultless(q))'
    BY <1>2, <1>3 DEF Waiting, Faultless
<1> QED BY <1>1, <1>4

\* No end is worse off for its writer.
Better(e, d) ==
    \/ d.open_requests + e.close_requests + One(e.local_open)
           >= e.open_requests + d.close_requests + One(d.local_open)
    \/ d.open_requests >= d.close_requests + One(d.local_open)

LEMMA BetterEnds ==
    ASSUME NEW e \in EndpointStates
    PROVE  /\ Better(e, e) /\ Better(e, Fresh)
           /\ Better(e, Open(e)) /\ (Ahead(e) => Ahead(Open(e)))
           /\ Better(e, Close(e)) /\ (Ahead(e) => Ahead(Close(e)))
           /\ Better(e, Attached(e)) /\ (Ahead(e) => Ahead(Attached(e)))
           /\ \A t \in Nat : LET d == Mark(RemoteClosed(e), t)
                             IN  Better(e, d) /\ (Ahead(e) => Ahead(d))
           /\ ~ e.local_open => Ahead(Open(e)) /\ Ahead(Attached(e))
<1>1. PICK o, c : o = e.open_requests /\ c = e.close_requests
    OBVIOUS
<1>2. o \in Nat /\ c \in Nat /\ e.local_open \in BOOLEAN
    BY <1>1 DEF EndpointStates
<1>3. Better(e, e)
    BY <1>1, <1>2 DEF Better, One
<1>4. Better(e, Fresh)
    BY FreshIs DEF Better, One
<1>5. /\ Better(e, Open(e)) /\ (Ahead(e) => Ahead(Open(e)))
      /\ ~ e.local_open => Ahead(Open(e))
    BY <1>1, <1>2, OpenIs DEF Better, One, Ahead
<1>6. Better(e, Close(e)) /\ (Ahead(e) => Ahead(Close(e)))
    BY <1>1, <1>2, CloseIs DEF Better, One, Ahead
<1>7. /\ Better(e, Attached(e)) /\ (Ahead(e) => Ahead(Attached(e)))
      /\ ~ e.local_open => Ahead(Attached(e))
    BY <1>1, <1>2, AttachedIs DEF Better, One, Ahead
<1>8. ASSUME NEW t \in Nat, NEW d, d = Mark(RemoteClosed(e), t)
      PROVE  Better(e, d) /\ (Ahead(e) => Ahead(d))
    BY <1>1, <1>2, <1>8, DetachedIs DEF Better, One, Ahead
<1> QED BY <1>3, <1>4, <1>5, <1>6, <1>7, <1>8

LEMMA KeptOne ==
    ASSUME Typed, NEW p \in Peers, Alone(p), wire'[Other(p)] = wire[Other(p)],
           NEW n \in Names, NEW d, Better(state[p][n], d), Ahead(state[p][n]) => Ahead(d),
           \A m \in Names : state'[p][m] = IF m = n THEN d ELSE state[p][m],
           links'[p] \subseteq Names,
           \A m \in links'[p] : \/ m = n /\ Ahead(d)
                                \/ m \in links[p] /\ handle'[p][m] = handle[p][m]
    PROVE  Kept(p)
<1>1. \A m \in Names : Better(state[p][m], state'[p][m])
  <2>1. \A m \in Names : state[p][m] \in EndpointStates
    BY DEF Typed, TypeOK
  <2> QED BY <2>1, BetterEnds
<1>2. \A m \in Names : Ahead(state[p][m]) => Ahead(state'[p][m])
    OBVIOUS
<1>3. \A m \in links'[p] : \/ Ahead(state'[p][m])
                           \/ /\ m \in links[p] /\ handle'[p][m] = handle[p][m]
                              /\ ~ Ahead(state[p][m])
    BY <1>2
<1> QED BY <1>1, <1>3 DEF Kept, Better, Alone

\* Every call of p, and every step but ProcessTick, keeps what the other side relies on.
LEMMA KeptOpen ==
    ASSUME Typed, NEW p \in Peers, NEW n \in Names, OpenLink(p, n)
    PROVE  Kept(p)
<1>1. Alone(p) /\ wire' = wire
    BY CallsAlone
<1>2. n \notin links[p] /\ state[p][n] = Fresh
    BY DEF OpenLink, Typed, Named
<1>3. Better(Fresh, Open(Fresh)) /\ Ahead(Open(Fresh))
    BY FreshIs, BetterEnds
<1>4. /\ \A m \in Names : state'[p][m] = IF m = n THEN Open(Fresh) ELSE state[p][m]
      /\ links'[p] \subseteq Names
      /\ \A m \in links'[p] : m = n \/ (m \in links[p] /\ handle'[p][m] = handle[p][m])
    BY DEF OpenLink, Typed, TypeOK
<1> QED BY <1>1, <1>2, <1>3, <1>4, KeptOne

LEMMA KeptClose ==
    ASSUME Typed, NEW p \in Peers, NEW n \in Names, CloseLink(p, n) \/ ReopenLink(p, n)
    PROVE  Kept(p)
<1>1. Alone(p) /\ wire' = wire
    BY CallsAlone
<1>2. state[p][n] \in EndpointStates /\ links[p] \subseteq Names
    BY DEF Typed, TypeOK
<1>3. links'[p] = links[p] /\ handle'[p] = handle[p]
    BY DEF CloseLink, ReopenLink
<1>4. PICK d : /\ d = Close(state[p][n]) \/ d = Open(state[p][n])
               /\ \A m \in Names : state'[p][m] = IF m = n THEN d ELSE state[p][m]
  <2>1. CASE CloseLink(p, n)
    <3>1. \A m \in Names : state'[p][m] = IF m = n THEN Close(state[p][n]) ELSE state[p][m]
        BY <2>1 DEF CloseLink, Typed, TypeOK
    <3> QED BY <3>1
  <2>2. CASE ReopenLink(p, n)
    <3>1. \A m \in Names : state'[p][m] = IF m = n THEN Open(state[p][n]) ELSE state[p][m]
        BY <2>2 DEF ReopenLink, Typed, TypeOK
    <3> QED BY <3>1
  <2> QED BY <2>1, <2>2
<1>5. Better(state[p][n], d) /\ (Ahead(state[p][n]) => Ahead(d))
    BY <1>2, <1>4, BetterEnds
<1>6. /\ links'[p] \subseteq Names
      /\ \A m \in links'[p] : m \in links[p] /\ handle'[p][m] = handle[p][m]
    BY <1>2, <1>3
<1> QED BY <1>1, <1>4, <1>5, <1>6, KeptOne


\* What the steps of p do to its ends.
\* An attach of n is read.
Attaches(p, n) ==
    /\ wire[p] # <<>> /\ n \in Names /\ IsAttach(wire[p], 1) /\ wire[p][1].handle \in Handles
    /\ wire'[p] = Tail(wire[p]) /\ (reading[p] \/ ticks[p] = <<>>)
    /\ \A h \in Handles : remote_handles'[p][h] =
           IF wire[p][1].handle = h THEN n ELSE remote_handles[p][h]
    /\ \A m \in links'[p] : \/ m = n /\ n \notin links[p]
                            \/ m \in links[p] /\ handle'[p][m] = handle[p][m]
    /\ links'[p] \subseteq Names
    /\ state[p][n].remote_open =>
           /\ fault'[p] = "Attach already received"
           /\ n \in links[p] /\ state'[p] = state[p] /\ ticks'[p] = ticks[p]
    /\ ~ state[p][n].remote_open =>
           /\ fault'[p] = fault[p]
           /\ \A m \in Names : state'[p][m] = IF m = n THEN Attached(state[p][n])
                                                       ELSE state[p][m]
           /\ ticks'[p] = RegisterIf(~state[p][n].local_open, ticks[p])

LEMMA AttachDoes ==
    ASSUME Typed, NEW p \in Peers, ReadAttach(p), NEW n, n = wire[p][1].name
    PROVE  Attaches(p, n)
<1>1. /\ wire[p] # <<>> /\ Head(wire[p]).type = "attach"
      /\ reading[p] \/ ticks[p] = <<>>
      /\ wire' = [wire EXCEPT ![p] = Tail(@)]
    BY DEF ReadAttach, Read
<1>2. PICK f : f = wire[p][1]
    OBVIOUS
<1>3. /\ Head(wire[p]) = f /\ n = f.name /\ n \in Names /\ f.handle \in Handles
    BY <1>1, <1>2, HeadIs
<1>4. /\ remote_handles' = [remote_handles EXCEPT ![p][f.handle] = n]
      /\ IF n \in links[p]
         THEN links' = links /\ handle' = handle
         ELSE /\ links' = [links EXCEPT ![p] = @ \cup {n}]
              /\ handle' = [handle EXCEPT ![p][n] = FreeHandle(p)]
      /\ IF state[p][n].remote_open
         THEN /\ fault' = [fault EXCEPT ![p] = "Attach already received"]
              /\ state' = state /\ ticks' = ticks
         ELSE /\ state' = [state EXCEPT ![p][n] = Attached(@)]
              /\ ticks' = [ticks EXCEPT ![p] = RegisterIf(~state[p][n].local_open, @)]
              /\ fault' = fault
    BY <1>3 DEF ReadAttach
<1>5. /\ links \in [Peers -> SUBSET Names]
      /\ state \in [Peers -> [Names -> EndpointStates]]
      /\ handle \in [Peers -> [Names -> Handles \cup {NoHandle}]]
      /\ remote_handles \in [Peers -> [Handles -> Names \cup {Nothing, Removed}]]
      /\ ticks \in [Peers -> Seq(Tasks)] /\ wire \in [Peers -> Seq(Frames)]
      /\ fault \in [Peers -> {"none", "Attach already received",
                              "Detach already received", "Invalid handle"}]
    BY DEF Typed, TypeOK
<1>6. wire'[p] = Tail(wire[p]) /\ IsAttach(wire[p], 1)
    BY <1>1, <1>2, <1>3, <1>5 DEF IsAttach
<1>7. \A h \in Handles : remote_handles'[p][h] =
           IF wire[p][1].handle = h THEN n ELSE remote_handles[p][h]
    BY <1>2, <1>3, <1>4, <1>5
<1>8. /\ \A m \in links'[p] : \/ m = n /\ n \notin links[p]
                              \/ m \in links[p] /\ handle'[p][m] = handle[p][m]
      /\ links'[p] \subseteq Names
  <2>1. CASE n \in links[p]
    <3>1. links' = links /\ handle' = handle
        BY <1>4, <2>1
    <3> QED BY <3>1, <1>5
  <2>2. CASE n \notin links[p]
    <3>1. /\ links' = [links EXCEPT ![p] = @ \cup {n}]
          /\ handle' = [handle EXCEPT ![p][n] = FreeHandle(p)]
        BY <1>4, <2>2
    <3> QED BY <2>2, <3>1, <1>3, <1>5
  <2> QED BY <2>1, <2>2
<1>9. state[p][n].remote_open =>
          /\ fault'[p] = "Attach already received"
          /\ n \in links[p] /\ state'[p] = state[p] /\ ticks'[p] = ticks[p]
  <2>1. SUFFICES ASSUME state[p][n].remote_open
                 PROVE  /\ fault'[p] = "Attach already received"
                        /\ n \in links[p] /\ state'[p] = state[p] /\ ticks'[p] = ticks[p]
    OBVIOUS
  <2>2. n \in links[p]
    BY <1>3, <2>1, FreshIs DEF Typed, Named
  <2> QED BY <1>4, <1>5, <2>1, <2>2
<1>10. ~ state[p][n].remote_open =>
          /\ fault'[p] = fault[p]
          /\ \A m \in Names : state'[p][m] = IF m = n THEN Attached(state[p][n]) ELSE state[p][m]
          /\ ticks'[p] = RegisterIf(~state[p][n].local_open, ticks[p])
  <2>1. SUFFICES ASSUME ~ state[p][n].remote_open
                 PROVE  /\ fault'[p] = fault[p]
                        /\ \A m \in Names : state'[p][m] = IF m = n THEN Attached(state[p][n])
                                                                    ELSE state[p][m]
                        /\ ticks'[p] = RegisterIf(~state[p][n].local_open, ticks[p])
    OBVIOUS
  <2>2. /\ state' = [state EXCEPT ![p][n] = Attached(@)]
        /\ ticks' = [ticks EXCEPT ![p] = RegisterIf(~state[p][n].local_open, @)]
        /\ fault' = fault
    BY <1>4, <2>1
  <2> QED BY <2>2, <1>3, <1>5
<1> QED BY <1>1, <1>2, <1>3, <1>6, <1>7, <1>8, <1>9, <1>10 DEF Attaches

\* A detach is read whose handle leads to n.
Detaches(p, n) ==
    /\ wire[p] # <<>> /\ ~ IsAttach(wire[p], 1) /\ wire[p][1].handle \in Handles
    /\ wire'[p] = Tail(wire[p]) /\ (reading[p] \/ ticks[p] = <<>>)
    /\ remote_handles'[p] = remote_handles[p]
    /\ links'[p] = links[p] /\ handle'[p] = handle[p]
    /\ n \in Names /\ state[p][n].remote_open =>
           /\ fault'[p] = fault[p]
           /\ \E t \in Times :
                  /\ \A m \in Names :
                         state'[p][m] = IF m = n THEN Mark(RemoteClosed(state[p][n]), t)
                                                 ELSE state[p][m]
                  /\ ticks'[p] = Append(ticks[p], CloseTask(n, t))
    /\ ~ (n \in Names /\ state[p][n].remote_open) =>
           state'[p] = state[p] /\ ticks'[p] = ticks[p] /\ fault'[p] # "none"

LEMMA DetachDoes ==
    ASSUME Typed, NEW p \in Peers, ReadDetach(p), NEW n,
           n = remote_handles[p][wire[p][1].handle]
    PROVE  Detaches(p, n)
<1>1. /\ wire[p] # <<>> /\ Head(wire[p]).type = "detach"
      /\ reading[p] \/ ticks[p] = <<>>
      /\ wire' = [wire EXCEPT ![p] = Tail(@)]
      /\ links' = links /\ handle' = handle /\ remote_handles' = remote_handles
    BY DEF ReadDetach, Read
<1>2. PICK f : f = wire[p][1]
    OBVIOUS
<1>3. Head(wire[p]) = f /\ f.handle \in Handles /\ n = remote_handles[p][f.handle]
    BY <1>1, <1>2, HeadIs
<1>4. IF n \in Names /\ state[p][n].remote_open
      THEN \E t \in Times :
             /\ state' = [state EXCEPT ![p][n] = Mark(RemoteClosed(@), t)]
             /\ ticks' = [ticks EXCEPT ![p] = Append(@, CloseTask(n, t))]
             /\ fault' = fault
      ELSE /\ fault' = [fault EXCEPT ![p] = IF n = Nothing THEN "Invalid handle"
                                            ELSE "Detach already received"]
           /\ state' = state /\ ticks' = ticks
    BY <1>3 DEF ReadDetach
<1>5. /\ state \in [Peers -> [Names -> EndpointStates]]
      /\ ticks \in [Peers -> Seq(Tasks)] /\ wire \in [Peers -> Seq(Frames)]
      /\ fault \in [Peers -> {"none", "Attach already received",
                              "Detach already received", "Invalid handle"}]
    BY DEF Typed, TypeOK
<1>6. wire'[p] = Tail(wire[p]) /\ ~ IsAttach(wire[p], 1)
    BY <1>1, <1>2, <1>3, <1>5 DEF IsAttach
<1>7. n \in Names /\ state[p][n].remote_open =>
          /\ fault'[p] = fault[p]
          /\ \E t \in Times :
                 /\ \A m \in Names :
                        state'[p][m] = IF m = n THEN Mark(RemoteClosed(state[p][n]), t)
                                                ELSE state[p][m]
                 /\ ticks'[p] = Append(ticks[p], CloseTask(n, t))
  <2>1. SUFFICES ASSUME n \in Names, state[p][n].remote_open
                 PROVE  /\ fault'[p] = fault[p]
                        /\ \E t \in Times :
                               /\ \A m \in Names :
                                     state'[p][m] = IF m = n THEN Mark(RemoteClosed(state[p][n]), t)
                                                             ELSE state[p][m]
                               /\ ticks'[p] = Append(ticks[p], CloseTask(n, t))
    OBVIOUS
  <2>2. PICK t \in Times : /\ state' = [state EXCEPT ![p][n] = Mark(RemoteClosed(@), t)]
                           /\ ticks' = [ticks EXCEPT ![p] = Append(@, CloseTask(n, t))]
                           /\ fault' = fault
    BY <1>4, <2>1
  <2>3. /\ \A m \in Names :
               state'[p][m] = IF m = n THEN Mark(RemoteClosed(state[p][n]), t) ELSE state[p][m]
        /\ ticks'[p] = Append(ticks[p], CloseTask(n, t))
    BY <1>5, <2>1, <2>2
  <2> QED BY <2>2, <2>3
<1>8. ~ (n \in Names /\ state[p][n].remote_open) =>
          state'[p] = state[p] /\ ticks'[p] = ticks[p] /\ fault'[p] # "none"
    BY <1>4, <1>5
<1> QED BY <1>1, <1>2, <1>3, <1>6, <1>7, <1>8 DEF Detaches

LEMMA KeptReads ==
    ASSUME Typed, NEW p \in Peers, ReadAttach(p) \/ ReadDetach(p)
    PROVE  Kept(p)
<1>1. Alone(p) /\ wire'[Other(p)] = wire[Other(p)]
    BY StepsAlone DEF Step
<1>2. /\ \A m \in Names : state[p][m] \in EndpointStates
      /\ links[p] \subseteq Names
    BY DEF Typed, TypeOK
<1>3. CASE ReadAttach(p)
  <2>1. PICK n : n = wire[p][1].name
    OBVIOUS
  <2>0. Attaches(p, n)
    BY <1>3, <2>1, AttachDoes
  <2>2. /\ n \in Names /\ links'[p] \subseteq Names
        /\ \A m \in links'[p] : \/ m = n /\ n \notin links[p]
                                \/ m \in links[p] /\ handle'[p][m] = handle[p][m]
    BY <2>0 DEF Attaches
  <2>3. CASE state[p][n].remote_open
    <3>1. n \in links[p] /\ state'[p] = state[p]
        BY <2>0, <2>3 DEF Attaches
    <3>2. \A m \in Names : state'[p][m] = IF m = n THEN state[p][n] ELSE state[p][m]
        BY <3>1
    <3>3. Better(state[p][n], state[p][n])
        BY <1>2, <2>2, BetterEnds
    <3> QED BY <1>1, <2>2, <3>1, <3>2, <3>3, KeptOne
  <2>4. CASE ~ state[p][n].remote_open
    <3>1. PICK d : d = Attached(state[p][n])
        OBVIOUS
    <3>2. \A m \in Names : state'[p][m] = IF m = n THEN d ELSE state[p][m]
        BY <2>0, <2>4, <3>1 DEF Attaches
    <3>3. Better(state[p][n], d) /\ (Ahead(state[p][n]) => Ahead(d))
        BY <1>2, <2>2, <3>1, BetterEnds
    <3>4. n \notin links[p] => Ahead(d)
      <4>1. n \notin links[p] => ~ state[p][n].local_open
        BY <2>2, FreshIs DEF Typed, Named
      <4> QED BY <1>2, <2>2, <3>1, <4>1, BetterEnds
    <3> QED BY <1>1, <2>2, <3>2, <3>3, <3>4, KeptOne
  <2> QED BY <2>3, <2>4
<1>4. CASE ReadDetach(p)
  <2>1. PICK n : n = remote_handles[p][wire[p][1].handle]
    OBVIOUS
  <2>0. Detaches(p, n)
    BY <1>4, <2>1, DetachDoes
  <2>2. links'[p] = links[p] /\ handle'[p] = handle[p]
    BY <2>0 DEF Detaches
  <2>3. CASE n \in Names /\ state[p][n].remote_open
    <3>1. PICK t \in Times : \A m \in Names :
              state'[p][m] = IF m = n THEN Mark(RemoteClosed(state[p][n]), t) ELSE state[p][m]
        BY <2>0, <2>3 DEF Detaches
    <3>2. PICK d : d = Mark(RemoteClosed(state[p][n]), t)
        OBVIOUS
    <3>3. Better(state[p][n], d) /\ (Ahead(state[p][n]) => Ahead(d))
      <4>1. t \in Nat /\ state[p][n] \in EndpointStates
        BY <1>2, <2>3, TimeValues
      <4> QED BY <3>2, <4>1, BetterEnds
    <3>4. \A m \in Names : state'[p][m] = IF m = n THEN d ELSE state[p][m]
        BY <3>1, <3>2
    <3>5. /\ links'[p] \subseteq Names
          /\ \A m \in links'[p] : m \in links[p] /\ handle'[p][m] = handle[p][m]
        BY <1>2, <2>2
    <3> QED BY <1>1, <2>3, <3>3, <3>4, <3>5, KeptOne
  <2>4. CASE ~ (n \in Names /\ state[p][n].remote_open)
    <3>1. state'[p] = state[p]
        BY <2>0, <2>4 DEF Detaches
    <3>2. \A m \in Names : Better(state[p][m], state'[p][m])
        BY <1>2, <3>1, BetterEnds
    <3>3. \A m \in links'[p] : m \in links[p] /\ handle'[p][m] = handle[p][m]
                               /\ state'[p][m] = state[p][m]
        BY <2>2, <3>1
    <3> QED BY <1>1, <3>2, <3>3 DEF Kept, Better, Alone
  <2> QED BY <2>3, <2>4
<1> QED BY <1>3, <1>4


\* The tick that answers a detach of n.
Closes(p, n, t) ==
    /\ ticks[p] # <<>> /\ n \in Names /\ t \in Times /\ ~ reading'[p]
    /\ links'[p] = links[p] /\ handle'[p] = handle[p]
    /\ wire'[p] = wire[p] /\ remote_handles'[p] = remote_handles[p] /\ fault'[p] = fault[p]
    /\ state[p][n].marker = t =>
           /\ \A m \in Names : state'[p][m] = IF m = n THEN Close(state[p][n]) ELSE state[p][m]
           /\ ticks'[p] = Append(RegisterIf(state[p][n].local_open, Tail(ticks[p])), RemoveTask(n))
    /\ state[p][n].marker # t => state'[p] = state[p] /\ ticks'[p] = Tail(ticks[p])

LEMMA CloseDoes ==
    ASSUME Typed, NEW p \in Peers, CloseTick(p), NEW n, n = Head(ticks[p]).name,
           NEW t, t = Head(ticks[p]).token
    PROVE  Closes(p, n, t)
<1>1. /\ ticks[p] # <<>> /\ Head(ticks[p]).task = "close"
      /\ reading' = [reading EXCEPT ![p] = FALSE] /\ fault' = fault
      /\ links' = links /\ handle' = handle /\ remote_handles' = remote_handles /\ wire' = wire
    BY DEF CloseTick, Tick
<1>2. n \in Names /\ t \in Times
    BY <1>1, TickIs
<1>3. IF state[p][n].marker = t
      THEN /\ state' = [state EXCEPT ![p][n] = Close(@)]
           /\ ticks' = [ticks EXCEPT ![p] =
                  Append(RegisterIf(state[p][n].local_open, Tail(@)), RemoveTask(n))]
      ELSE /\ ticks' = [ticks EXCEPT ![p] = Tail(@)]
           /\ state' = state
    BY DEF CloseTick, Undisturbed, UnlessReopened
<1>4. /\ state \in [Peers -> [Names -> EndpointStates]]
      /\ ticks \in [Peers -> Seq(Tasks)] /\ reading \in [Peers -> BOOLEAN]
    BY DEF Typed, TypeOK
<1>5. ~ reading'[p]
    BY <1>1, <1>4
<1>6. CASE state[p][n].marker = t
  <2>1. /\ state' = [state EXCEPT ![p][n] = Close(@)]
        /\ ticks' = [ticks EXCEPT ![p] =
               Append(RegisterIf(state[p][n].local_open, Tail(@)), RemoveTask(n))]
    BY <1>3, <1>6
  <2>2. \A m \in Names : state'[p][m] = IF m = n THEN Close(state[p][n]) ELSE state[p][m]
    BY <1>2, <1>4, <2>1
  <2>3. ticks'[p] = Append(RegisterIf(state[p][n].local_open, Tail(ticks[p])), RemoveTask(n))
    BY <1>4, <2>1
  <2> QED BY <1>1, <1>2, <1>5, <1>6, <2>2, <2>3 DEF Closes
<1>7. CASE state[p][n].marker # t
  <2>1. state'[p] = state[p] /\ ticks'[p] = Tail(ticks[p])
    BY <1>3, <1>4, <1>7
  <2> QED BY <1>1, <1>2, <1>5, <1>7, <2>1 DEF Closes
<1> QED BY <1>6, <1>7

\* The tick that removes n.
Removes(p, n) ==
    /\ ticks[p] # <<>> /\ n \in Names /\ ~ reading'[p]
    /\ Head(ticks[p]) = RemoveTask(n) /\ ticks'[p] = Tail(ticks[p])
    /\ links'[p] = links[p] \ {n} /\ \A m \in Names \ {n} : handle'[p][m] = handle[p][m]
    /\ \A m \in Names : state'[p][m] = IF m = n THEN Fresh ELSE state[p][m]
    /\ wire'[p] = wire[p] /\ fault'[p] = fault[p]
    /\ \A h \in Handles : remote_handles[p][h] # n => remote_handles'[p][h] = remote_handles[p][h]

LEMMA RemoveDoes ==
    ASSUME Typed, NEW p \in Peers, RemoveTick(p), NEW n, n = Head(ticks[p]).name
    PROVE  Removes(p, n)
<1>1. /\ ticks[p] # <<>> /\ Head(ticks[p]).task = "remove"
      /\ reading' = [reading EXCEPT ![p] = FALSE] /\ fault' = fault /\ wire' = wire
      /\ ticks' = [ticks EXCEPT ![p] = Tail(@)]
    BY DEF RemoveTick, Tick
<1>2. n \in Names /\ Head(ticks[p]) = RemoveTask(n)
    BY <1>1, TickIs
<1>3. /\ links' = [links EXCEPT ![p] = @ \ {n}]
      /\ state' = [state EXCEPT ![p][n] = Fresh]
      /\ handle' = [handle EXCEPT ![p][n] = NoHandle]
      /\ remote_handles' = [remote_handles EXCEPT ![p] =
            [h \in Handles |-> IF @[h] = n THEN Removed ELSE @[h]]]
    BY DEF RemoveTick
<1>4. /\ links \in [Peers -> SUBSET Names]
      /\ state \in [Peers -> [Names -> EndpointStates]]
      /\ handle \in [Peers -> [Names -> Handles \cup {NoHandle}]]
      /\ remote_handles \in [Peers -> [Handles -> Names \cup {Nothing, Removed}]]
      /\ ticks \in [Peers -> Seq(Tasks)] /\ reading \in [Peers -> BOOLEAN]
    BY DEF Typed, TypeOK
<1>5. /\ links'[p] = links[p] \ {n} /\ ~ reading'[p] /\ ticks'[p] = Tail(ticks[p])
      /\ \A m \in Names \ {n} : handle'[p][m] = handle[p][m]
    BY <1>1, <1>2, <1>3, <1>4
<1>6. /\ \A m \in Names : state'[p][m] = IF m = n THEN Fresh ELSE state[p][m]
      /\ \A h \in Handles : remote_handles[p][h] # n => remote_handles'[p][h] = remote_handles[p][h]
    BY <1>2, <1>3, <1>4
<1> QED BY <1>1, <1>2, <1>5, <1>6 DEF Removes

LEMMA KeptTicks ==
    ASSUME Typed, NEW p \in Peers, CloseTick(p) \/ RemoveTick(p)
    PROVE  Kept(p)
<1>1. Alone(p) /\ wire'[Other(p)] = wire[Other(p)]
    BY StepsAlone DEF Step
<1>2. /\ \A m \in Names : state[p][m] \in EndpointStates
      /\ links[p] \subseteq Names
    BY DEF Typed, TypeOK
<1>3. CASE CloseTick(p)
  <2>1. PICK n, t : n = Head(ticks[p]).name /\ t = Head(ticks[p]).token
    OBVIOUS
  <2>2. Closes(p, n, t)
    BY <1>3, <2>1, CloseDoes
  <2>3. PICK d : d = state'[p][n]
    OBVIOUS
  <2>4. /\ d = state[p][n] \/ d = Close(state[p][n])
        /\ \A m \in Names : state'[p][m] = IF m = n THEN d ELSE state[p][m]
    BY <2>2, <2>3 DEF Closes
  <2>5. n \in Names /\ Better(state[p][n], d) /\ (Ahead(state[p][n]) => Ahead(d))
    BY <1>2, <2>2, <2>4, BetterEnds DEF Closes
  <2>6. /\ links'[p] \subseteq Names
        /\ \A m \in links'[p] : m \in links[p] /\ handle'[p][m] = handle[p][m]
    BY <1>2, <2>2 DEF Closes
  <2> QED BY <1>1, <2>4, <2>5, <2>6, KeptOne
<1>4. CASE RemoveTick(p)
  <2>1. PICK n : n = Head(ticks[p]).name
    OBVIOUS
  <2>2. Removes(p, n)
    BY <1>4, <2>1, RemoveDoes
  <2>3. n \in Names /\ \A m \in Names : state'[p][m] = IF m = n THEN Fresh ELSE state[p][m]
    BY <2>2 DEF Removes
  <2>4. Better(state[p][n], Fresh) /\ Ahead(Fresh)
    BY <1>2, <2>3, BetterEnds, FreshIs DEF Ahead
  <2>5. /\ links'[p] \subseteq Names
        /\ \A m \in links'[p] : m \in links[p] /\ handle'[p][m] = handle[p][m]
    BY <1>2, <2>2 DEF Removes
  <2> QED BY <1>1, <2>3, <2>4, <2>5, KeptOne
<1> QED BY <1>3, <1>4

-----------------------------------------------------------------------------
(* The direction that a step of p reads.                                    *)

\* Nothing of it changes.
LEMMA InwardSame ==
    ASSUME NEW p \in Peers, Alone(p), Inward(p), wire'[p] = wire[p],
           remote_handles'[p] = remote_handles[p], fault'[p] = fault[p],
           \A n \in Names : state'[p][n].remote_open = state[p][n].remote_open
    PROVE  Inward(p)'
<1>1. Heard(p)' = Heard(p) /\ Running(p)' = Running(p)
    BY DEF Heard, Running
<1> QED BY <1>1 DEF Inward, Alone

LEMMA InwardAttach ==
    ASSUME Following, Typed', NEW p \in Peers, ReadAttach(p)
    PROVE  Inward(p)'
<1>1. PICK n : n = wire[p][1].name
    OBVIOUS
<1>2. Typed /\ Inward(p)
    BY DEF Following
<1>3. Attaches(p, n) /\ Alone(p)
    BY <1>1, <1>2, AttachDoes, StepsAlone DEF Step
<1>4. PICK w, table, later, heard, after, q :
          /\ w = wire[p] /\ table = remote_handles[p] /\ later = remote_handles'[p]
          /\ heard = Heard(p) /\ after = Heard(p)' /\ q = Other(p)
    OBVIOUS
<1>5. /\ w \in Seq(Frames) /\ w # <<>> /\ wire'[p] = Tail(w) /\ n \in Names
      /\ IsAttach(w, 1) /\ n = w[1].name
  <2>1. wire[p] \in Seq(Frames)
    BY <1>2, TypesAre
  <2>2. wire[p] # <<>> /\ n \in Names /\ IsAttach(wire[p], 1) /\ wire'[p] = Tail(wire[p])
    BY <1>3 DEF Attaches
  <2>3. w = wire[p]
    BY <1>4
  <2> QED BY <1>1, <2>1, <2>2, <2>3
<1>6. /\ heard \in [Names -> BOOLEAN] /\ \A m \in Names : heard[m] = state[p][m].remote_open
    BY <1>2, <1>4, HeardIs
<1>7. /\ after \in [Names -> BOOLEAN] /\ \A m \in Names : after[m] = state'[p][m].remote_open
  <2>1. \A m \in Names : state'[p][m] \in EndpointStates
    BY DEF Typed, TypeOK
  <2> QED BY <1>4, <2>1 DEF Heard, EndpointStates
<1>8. q \in Peers /\ Other(q) = p /\ links[q] \in SUBSET Names
      /\ \A m \in links[q] : handle[q][m] \in Handles
  <2>1. q \in Peers /\ Other(q) = p
    BY <1>4, Others
  <2> QED BY <1>2, <2>1 DEF Typed, TypeOK, Named
<1>9. \A h \in Handles :
          later[h] = IF IsAttach(w, 1) /\ w[1].handle = h THEN w[1].name ELSE table[h]
    BY <1>3, <1>4, <1>5 DEF Attaches
<1>10. Follows(Tail(w), later)
    BY <1>2, <1>4, <1>5, <1>9, FollowsTail DEF Inward
<1>11. Leads(Tail(w), later, state[q], links[q], handle[q])
    BY <1>2, <1>4, <1>5, <1>8, <1>9, LeadsTail DEF Inward
<1>12. Running(p)' => Opens(Tail(w), after) /\ Balanced(Tail(w), after, state[q])
  <2>1. SUFFICES ASSUME Running(p)'
                 PROVE  Opens(Tail(w), after) /\ Balanced(Tail(w), after, state[q])
    OBVIOUS
  <2>2. ~ state[p][n].remote_open /\ Running(p)
    BY <1>3, <2>1 DEF Attaches, Running
  <2>3. \A m \in Names : state'[p][m] = IF m = n THEN Attached(state[p][n]) ELSE state[p][m]
    BY <1>3, <2>2 DEF Attaches
  <2>4. Attached(state[p][n]).remote_open
    <3>1. state[p][n] \in EndpointStates
        BY <1>2, <1>5, TypesAre
    <3> QED BY <3>1, AttachedIs
  <2>5. \A m \in Names : after[m] <=> IF About(w, 1, m) THEN IsAttach(w, 1) ELSE heard[m]
    BY <1>5, <1>6, <1>7, <2>3, <2>4 DEF About
  <2>6. ~ (IsAttach(w, 1) /\ heard[w[1].name])
    BY <1>5, <1>6, <2>2
  <2>7. Opens(w, heard) /\ Balanced(w, heard, state[q])
    BY <1>2, <1>4, <2>2 DEF Inward
  <2> QED BY <1>5, <1>6, <1>7, <2>5, <2>6, <2>7, OpensTail, BalancedTail
<1>13. /\ state'[q] = state[q] /\ links'[q] = links[q] /\ handle'[q] = handle[q]
    BY <1>3, <1>4 DEF Alone
<1>14. /\ wire'[p] = Tail(w) /\ remote_handles'[p] = later /\ Heard(p)' = after /\ Other(p) = q
    BY <1>4, <1>5
<1> QED BY <1>10, <1>11, <1>12, <1>13, <1>14 DEF Inward

\* The head of a stream that is a detach: it finds its link, and finds it attached.
LEMMA DetachFinds ==
    ASSUME Following, NEW p \in Peers, wire[p] # <<>>, ~ IsAttach(wire[p], 1)
    PROVE  /\ remote_handles[p][wire[p][1].handle] = wire[p][1].name
           /\ wire[p][1].name \in Names
           /\ Running(p) => state[p][wire[p][1].name].remote_open
<1>1. PICK w, n, h : w = wire[p] /\ n = w[1].name /\ h = w[1].handle
    OBVIOUS
<1>2. w \in Seq(Frames) /\ 1 \in 1..Len(w) /\ Typed /\ Inward(p)
  <2>1. w \in Seq(Frames) /\ Typed /\ Inward(p) /\ w # <<>>
    BY <1>1 DEF Following, Typed, TypeOK
  <2>2. Len(w) \in Nat \ {0}
    BY <2>1, EmptySeq
  <2> QED BY <2>1, <2>2
<1>3. n \in Names
    BY <1>1, <1>2, FrameIn
<1>4. Led(w, remote_handles[p], h, 1, n)
    BY <1>1, <1>2 DEF Inward, Follows
<1>5. remote_handles[p][h] = n
    BY <1>4 DEF Led
<1>6. Running(p) => state[p][n].remote_open
  <2>1. SUFFICES ASSUME Running(p)
                 PROVE  state[p][n].remote_open
    OBVIOUS
  <2>2. Clear(w, Heard(p)[n], n, 1)
    BY DEF Clear
  <2>3. OpenAt(w, Heard(p)[n], n, 1)
    BY <1>1, <1>2, <2>1, <2>2 DEF Inward, Opens
  <2>4. Heard(p)[n]
    BY <2>3 DEF OpenAt
  <2> QED BY <1>2, <1>3, <2>4, HeardIs
<1> QED BY <1>1, <1>3, <1>5, <1>6

LEMMA InwardDetach ==
    ASSUME Following, Typed', NEW p \in Peers, ReadDetach(p)
    PROVE  Inward(p)' /\ fault'[p] = fault[p]
<1>1. PICK n : n = remote_handles[p][wire[p][1].handle]
    OBVIOUS
<1>2. Typed /\ Inward(p)
    BY DEF Following
<1>3. Detaches(p, n) /\ Alone(p) /\ Running(p)
    BY <1>1, <1>2, DetachDoes, StepsAlone DEF Step, ReadDetach, Read
<1>4. PICK w, table, heard, after, q :
          /\ w = wire[p] /\ table = remote_handles[p]
          /\ heard = Heard(p) /\ after = Heard(p)' /\ q = Other(p)
    OBVIOUS
<1>5. /\ w \in Seq(Frames) /\ w # <<>> /\ wire'[p] = Tail(w) /\ ~ IsAttach(w, 1)
      /\ remote_handles'[p] = table
  <2>1. wire[p] \in Seq(Frames)
    BY <1>2, TypesAre
  <2>2. /\ wire[p] # <<>> /\ ~ IsAttach(wire[p], 1) /\ wire'[p] = Tail(wire[p])
        /\ remote_handles'[p] = remote_handles[p]
    BY <1>3 DEF Detaches
  <2>3. w = wire[p] /\ table = remote_handles[p]
    BY <1>4
  <2> QED BY <2>1, <2>2, <2>3
<1>6. n = w[1].name /\ n \in Names /\ state[p][n].remote_open
    BY <1>1, <1>3, <1>4, <1>5, DetachFinds
<1>7. /\ heard \in [Names -> BOOLEAN] /\ \A m \in Names : heard[m] = state[p][m].remote_open
    BY <1>2, <1>4, HeardIs
<1>8. /\ after \in [Names -> BOOLEAN] /\ \A m \in Names : after[m] = state'[p][m].remote_open
  <2>1. \A m \in Names : state'[p][m] \in EndpointStates
    BY DEF Typed, TypeOK
  <2> QED BY <1>4, <2>1 DEF Heard, EndpointStates
<1>9. q \in Peers /\ Other(q) = p /\ links[q] \in SUBSET Names
      /\ \A m \in links[q] : handle[q][m] \in Handles
  <2>1. q \in Peers /\ Other(q) = p
    BY <1>4, Others
  <2> QED BY <1>2, <2>1 DEF Typed, TypeOK, Named
<1>10. \A h \in Handles :
          table[h] = IF IsAttach(w, 1) /\ w[1].handle = h THEN w[1].name ELSE table[h]
    BY <1>5
<1>11. Follows(Tail(w), table)
    BY <1>2, <1>4, <1>5, <1>10, FollowsTail DEF Inward
<1>12. Leads(Tail(w), table, state[q], links[q], handle[q])
    BY <1>2, <1>4, <1>5, <1>9, <1>10, LeadsTail DEF Inward
<1>13. PICK t \in Times : \A m \in Names :
           state'[p][m] = IF m = n THEN Mark(RemoteClosed(state[p][n]), t) ELSE state[p][m]
    BY <1>3, <1>6 DEF Detaches
<1>14. ~ Mark(RemoteClosed(state[p][n]), t).remote_open
  <2>1. t \in Nat /\ state[p][n] \in EndpointStates
    BY <1>2, <1>6, TimeValues, TypesAre
  <2> QED BY <2>1, DetachedIs
<1>15. \A m \in Names : after[m] <=> IF About(w, 1, m) THEN IsAttach(w, 1) ELSE heard[m]
    BY <1>5, <1>6, <1>7, <1>8, <1>13, <1>14 DEF About
<1>16. Opens(w, heard) /\ Balanced(w, heard, state[q])
    BY <1>2, <1>3, <1>4 DEF Inward
<1>17. Opens(Tail(w), after) /\ Balanced(Tail(w), after, state[q])
    BY <1>5, <1>7, <1>8, <1>15, <1>16, OpensTail, BalancedTail
<1>18. /\ state'[q] = state[q] /\ links'[q] = links[q] /\ handle'[q] = handle[q]
    BY <1>3, <1>4 DEF Alone
<1>19. /\ wire'[p] = Tail(w) /\ remote_handles'[p] = table /\ Heard(p)' = after /\ Other(p) = q
    BY <1>4, <1>5
<1>20. Inward(p)'
    BY <1>11, <1>12, <1>17, <1>18, <1>19 DEF Inward
<1>21. fault'[p] = fault[p]
    BY <1>3, <1>6 DEF Detaches
<1> QED BY <1>20, <1>21

LEMMA InwardRemoved ==
    ASSUME Following, Typed', NEW p \in Peers, RemoveTick(p)
    PROVE  Inward(p)'
<1>1. PICK n : n = Head(ticks[p]).name
    OBVIOUS
<1>2. Typed /\ Inward(p) /\ Waiting(p)
    BY DEF Following
<1>3. Removes(p, n) /\ Alone(p) /\ Running(p)
    BY <1>1, <1>2, RemoveDoes, StepsAlone DEF Step, RemoveTick, Tick
<1>4. ~ state[p][n].remote_open /\ n \in Names
  <2>1. ticks[p] # <<>> /\ Head(ticks[p]) = RemoveTask(n) /\ n \in Names
    BY <1>3 DEF Removes
  <2>2. 1 \in 1..Len(ticks[p]) /\ ticks[p][1] = RemoveTask(n)
    BY <1>2, <2>1, TickIs
  <2>3. Contains(ticks[p], RemoveTask(n))
    BY <2>2 DEF Contains
  <2> QED BY <1>2, <2>1, <2>3 DEF Waiting
<1>5. Heard(p)' = Heard(p)
  <2>1. \A m \in Names : state'[p][m].remote_open = state[p][m].remote_open
    <3>1. state[p][n].remote_open = FALSE /\ Fresh.remote_open = FALSE
      <4>1. \A m \in Names : state[p][m] \in EndpointStates
        BY <1>2, TypesAre
      <4>2. \A e \in EndpointStates : ~ e.remote_open => e.remote_open = FALSE
        BY DEF EndpointStates
      <4>3. Fresh.remote_open = FALSE
        BY DEF Fresh
      <4> QED BY <1>4, <4>1, <4>2, <4>3
    <3> QED BY <1>3, <3>1 DEF Removes
  <2> QED BY <2>1 DEF Heard
<1>6. PICK w, table, later, heard, q :
          /\ w = wire[p] /\ table = remote_handles[p] /\ later = remote_handles'[p]
          /\ heard = Heard(p) /\ q = Other(p)
    OBVIOUS
<1>7. /\ w \in Seq(Frames) /\ heard \in [Names -> BOOLEAN] /\ ~ heard[n]
      /\ \A h \in Handles : table[h] # n => later[h] = table[h]
    BY <1>2, <1>3, <1>4, <1>6, HeardIs DEF Removes, Typed, TypeOK
<1>8. q \in Peers /\ links[q] \in SUBSET Names /\ state[q] \in [Names -> EndpointStates]
      /\ \A m \in links[q] : handle[q][m] \in Handles
  <2>1. q \in Peers
    BY <1>6, Others
  <2> QED BY <1>2, <2>1 DEF Typed, TypeOK, Named
<1>9. /\ Opens(w, heard) /\ Balanced(w, heard, state[q]) /\ Follows(w, table)
      /\ Leads(w, table, state[q], links[q], handle[q])
    BY <1>2, <1>3, <1>6 DEF Inward
<1>10. Follows(w, later)
    BY <1>4, <1>7, <1>9, FollowsRemoved
<1>11. Leads(w, later, state[q], links[q], handle[q])
    BY <1>4, <1>7, <1>8, <1>9, LeadsRemoved
<1>12. /\ state'[q] = state[q] /\ links'[q] = links[q] /\ handle'[q] = handle[q]
    BY <1>3, <1>6 DEF Alone
<1>13. wire'[p] = w /\ remote_handles'[p] = later /\ Heard(p)' = heard /\ Other(p) = q
    BY <1>3, <1>5, <1>6 DEF Removes
<1> QED BY <1>9, <1>10, <1>11, <1>12, <1>13 DEF Inward


\* The direction that p writes to.
LEMMA InwardBatch ==
    ASSUME Following, Typed', NEW p \in Peers, ProcessTick(p)
    PROVE  Inward(Other(p))'
<1>1. PICK q : q = Other(p)
    OBVIOUS
<1>2. Typed /\ q \in Peers /\ q # p /\ Other(q) = p /\ Inward(q)
  <2>1. q \in Peers /\ q # p /\ Other(q) = p
    BY <1>1, Others
  <2> QED BY <2>1 DEF Following
<1>3. PICK requests \in SetToSeqs(Requests(p)) :
          /\ LinkByLink(requests)
          /\ wire' = [wire EXCEPT ![q] =
                        @ \o [i \in DOMAIN requests |-> FrameFor(p, requests[i])]]
    BY <1>1 DEF ProcessTick
<1>4. PICK u : u = [i \in DOMAIN requests |-> FrameFor(p, requests[i])]
    OBVIOUS
<1>5. IsBatch(p, requests, u)
    BY <1>3, <1>4 DEF IsBatch
<1>6. PICK w, table, heard, after :
          /\ w = wire[q] /\ table = remote_handles[q]
          /\ heard = Heard(q) /\ after = state'[p]
    OBVIOUS
<1>7. w \in Seq(Frames) /\ heard \in [Names -> BOOLEAN]
    BY <1>2, <1>6, HeardIs DEF Typed, TypeOK
<1>8. wire'[q] = w \o u
    BY <1>2, <1>3, <1>4, <1>6 DEF Typed, TypeOK
<1>9. after \in [Names -> EndpointStates] /\ \A n \in Names : after[n] = Settled(state[p][n])
  <2>1. state' = [state EXCEPT ![p] = [n \in Names |-> Settled(@[n])]]
    BY DEF ProcessTick
  <2>2. after = [n \in Names |-> Settled(state[p][n])]
    BY <1>2, <1>6, <2>1 DEF Typed, TypeOK
  <2>3. after \in [Names -> EndpointStates]
    BY <1>6 DEF Typed, TypeOK
  <2> QED BY <2>2, <2>3
<1>10. Alone(p) /\ links' = links /\ handle' = handle
    BY <1>2, StepsAlone DEF Step, ProcessTick
<1>11. /\ Heard(q)' = heard /\ Running(q)' = Running(q) /\ remote_handles'[q] = table
    BY <1>1, <1>6, <1>10 DEF Alone, Heard, Running
<1>12. /\ Running(q) => Opens(w, heard) /\ Balanced(w, heard, state[p])
       /\ Follows(w, table) /\ Leads(w, table, state[p], links[p], handle[p])
    BY <1>2, <1>6 DEF Inward
<1>13. Running(q) => Opens(w \o u, heard)
    BY <1>2, <1>5, <1>7, <1>12, OpensBatch
<1>14. Running(q) => Balanced(w \o u, heard, after)
    BY <1>2, <1>5, <1>7, <1>9, <1>12, BalancedBatch
<1>15. Follows(w \o u, table)
    BY <1>2, <1>5, <1>7, <1>12, FollowsBatch
<1>16. Leads(w \o u, table, after, links[p], handle[p])
    BY <1>2, <1>5, <1>7, <1>9, <1>12, LeadsBatch
<1>17. (Inward(q))'
    BY <1>2, <1>6, <1>8, <1>10, <1>11, <1>13, <1>14, <1>15, <1>16 DEF Inward
<1> QED BY <1>1, <1>17

-----------------------------------------------------------------------------
(* The removals that wait.                                                  *)

LEMMA AppendContains ==
    ASSUME NEW S, NEW queue \in Seq(S), NEW t, NEW x, t # x, Contains(Append(queue, t), x)
    PROVE  Contains(queue, x)
<1>1. PICK i \in 1..Len(Append(queue, t)) : Append(queue, t)[i] = x
    BY DEF Contains
<1>2. /\ Len(queue) \in Nat /\ Len(Append(queue, t)) = Len(queue) + 1
      /\ Append(queue, t)[Len(queue) + 1] = t
      /\ \A j \in 1..Len(queue) : Append(queue, t)[j] = queue[j]
    OBVIOUS
<1>3. i \in 1..Len(queue)
    BY <1>1, <1>2
<1> QED BY <1>1, <1>2, <1>3 DEF Contains

LEMMA TailContains ==
    ASSUME NEW S, NEW queue \in Seq(S), queue # <<>>, NEW x, Contains(Tail(queue), x)
    PROVE  Contains(queue, x)
<1>1. PICK i \in 1..Len(Tail(queue)) : Tail(queue)[i] = x
    BY DEF Contains
<1>2. /\ Len(Tail(queue)) = Len(queue) - 1 /\ Len(queue) \in Nat
      /\ \A j \in 1..Len(Tail(queue)) : Tail(queue)[j] = queue[j + 1]
    BY HeadTailProperties
<1>3. i + 1 \in 1..Len(queue) /\ queue[i + 1] = x
    BY <1>1, <1>2
<1> QED BY <1>3 DEF Contains

\* Asking for a _process adds no removal.
LEMMA RegisterKeeps ==
    ASSUME NEW queue \in Seq(Tasks), NEW changed, NEW n,
           Contains(RegisterIf(changed, queue), RemoveTask(n)) \/ Contains(Register(queue), RemoveTask(n))
    PROVE  Contains(queue, RemoveTask(n))
<1>1. Process # RemoveTask(n)
  <2>1. Process.task = "process" /\ RemoveTask(n).task = "remove"
    BY DEF Process, RemoveTask
  <2> QED BY <2>1
<1>2. Contains(Append(queue, Process), RemoveTask(n)) => Contains(queue, RemoveTask(n))
    BY <1>1, AppendContains
<1> QED BY <1>2 DEF RegisterIf, Register

LEMMA WaitingOne ==
    ASSUME NEW p \in Peers, Waiting(p),
           \A n \in Names : Contains(ticks'[p], RemoveTask(n)) => Contains(ticks[p], RemoveTask(n)),
           reading'[p] => reading[p],
           \A n \in Names : state'[p][n].remote_open => state[p][n].remote_open
    PROVE  Waiting(p)'
BY DEF Waiting

LEMMA WaitingCalls ==
    ASSUME Following, NEW p \in Peers, NEW n \in Names,
           OpenLink(p, n) \/ CloseLink(p, n) \/ ReopenLink(p, n)
    PROVE  /\ Waiting(p)' /\ Faultless(p)'
           /\ \A m \in Names : state'[p][m].remote_open = state[p][m].remote_open
           /\ remote_handles' = remote_handles /\ fault' = fault /\ wire' = wire
<1>1. Typed /\ Waiting(p) /\ Faultless(p)
    BY DEF Following
<1>2. /\ \A m \in Names : state[p][m] \in EndpointStates
      /\ ticks[p] \in Seq(Tasks)
    BY <1>1 DEF Typed, TypeOK
<1>3. /\ reading' = reading /\ fault' = fault /\ wire' = wire
      /\ remote_handles' = remote_handles
      /\ ticks' = [ticks EXCEPT ![p] = Register(@)]
    BY DEF OpenLink, CloseLink, ReopenLink
<1>4. ticks'[p] = Register(ticks[p])
    BY <1>1, <1>3 DEF Typed, TypeOK
<1>5. \A m \in Names : Contains(ticks'[p], RemoveTask(m)) => Contains(ticks[p], RemoveTask(m))
    BY <1>2, <1>4, RegisterKeeps
<1>6. \A m \in Names : state'[p][m].remote_open = state[p][m].remote_open
  <2>1. CASE OpenLink(p, n)
    <3>1. state[p][n] = Fresh
        BY <1>1, <2>1 DEF OpenLink, Typed, TypeOK, Named
    <3>2. Open(Fresh).remote_open = Fresh.remote_open
        BY FreshIs, OpenIs
    <3>3. \A m \in Names : state'[p][m] = IF m = n THEN Open(Fresh) ELSE state[p][m]
        BY <1>1, <2>1 DEF OpenLink, Typed, TypeOK
    <3> QED BY <3>1, <3>2, <3>3
  <2>2. CASE CloseLink(p, n)
    <3>1. \A m \in Names : state'[p][m] = IF m = n THEN Close(state[p][n]) ELSE state[p][m]
        BY <1>1, <2>2 DEF CloseLink, Typed, TypeOK
    <3> QED BY <1>2, <3>1, CloseIs
  <2>3. CASE ReopenLink(p, n)
    <3>1. \A m \in Names : state'[p][m] = IF m = n THEN Open(state[p][n]) ELSE state[p][m]
        BY <1>1, <2>3 DEF ReopenLink, Typed, TypeOK
    <3> QED BY <1>2, <3>1, OpenIs
  <2> QED BY <2>1, <2>2, <2>3
<1>7. Waiting(p)'
    BY <1>1, <1>3, <1>5, <1>6, WaitingOne
<1> QED BY <1>1, <1>3, <1>6, <1>7 DEF Faultless

LEMMA WaitingReads ==
    ASSUME Following, NEW p \in Peers, ReadAttach(p) \/ ReadDetach(p)
    PROVE  Waiting(p)'
<1>1. Typed /\ Waiting(p)
    BY DEF Following
<1>2. ticks[p] \in Seq(Tasks)
    BY <1>1 DEF Typed, TypeOK
<1>3. \A m \in Names : ~ Contains(ticks[p], RemoveTask(m))
  <2>1. reading[p] \/ ticks[p] = <<>>
    BY DEF ReadAttach, ReadDetach, Read
  <2>2. ticks[p] = <<>> => \A m \in Names : ~ Contains(ticks[p], RemoveTask(m))
    BY DEF Contains
  <2> QED BY <1>1, <2>1, <2>2 DEF Waiting
<1>4. \A m \in Names : ~ Contains(ticks'[p], RemoveTask(m))
  <2>1. CASE ReadAttach(p)
    <3>1. PICK n : n = wire[p][1].name
        OBVIOUS
    <3>2. Attaches(p, n)
        BY <1>1, <2>1, <3>1, AttachDoes
    <3>3. \/ ticks'[p] = ticks[p]
          \/ ticks'[p] = RegisterIf(~ state[p][n].local_open, ticks[p])
        BY <3>2 DEF Attaches
    <3> QED BY <1>2, <1>3, <3>3, RegisterKeeps
  <2>2. CASE ReadDetach(p)
    <3>1. PICK n : n = remote_handles[p][wire[p][1].handle]
        OBVIOUS
    <3>2. Detaches(p, n)
        BY <1>1, <2>2, <3>1, DetachDoes
    <3>3. \/ ticks'[p] = ticks[p]
          \/ \E t \in Times : ticks'[p] = Append(ticks[p], CloseTask(n, t))
        BY <3>2 DEF Detaches
    <3>4. \A t \in Times, m \in Names : CloseTask(n, t) # RemoveTask(m)
      <4>1. \A t \in Times, m \in Names : CloseTask(n, t).task = "close" /\ RemoveTask(m).task = "remove"
        BY DEF CloseTask, RemoveTask
      <4> QED BY <4>1
    <3>5. \A t \in Times, m \in Names :
              Contains(Append(ticks[p], CloseTask(n, t)), RemoveTask(m)) => Contains(ticks[p], RemoveTask(m))
        BY <1>2, <3>4, AppendContains
    <3> QED BY <1>3, <3>3, <3>5
  <2> QED BY <2>1, <2>2
<1> QED BY <1>4 DEF Waiting


LEMMA WaitingTicks ==
    ASSUME Following, NEW p \in Peers, ProcessTick(p) \/ CloseTick(p) \/ RemoveTick(p)
    PROVE  Waiting(p)' /\ fault' = fault
<1>1. Typed /\ Waiting(p)
    BY DEF Following
<1>2. /\ \A m \in Names : state[p][m] \in EndpointStates
      /\ ticks[p] \in Seq(Tasks)
    BY <1>1, TypesAre
<1>3. /\ ticks[p] # <<>> /\ fault' = fault
      /\ reading' = [reading EXCEPT ![p] = FALSE]
    BY DEF ProcessTick, CloseTick, RemoveTick, Tick
<1>4. ~ reading'[p]
    BY <1>1, <1>3 DEF Typed, TypeOK
<1>5. \A m \in Names : Contains(Tail(ticks[p]), RemoveTask(m)) => Contains(ticks[p], RemoveTask(m))
    BY <1>2, <1>3, TailContains
<1>6. SUFFICES ASSUME NEW m \in Names, Contains(ticks'[p], RemoveTask(m))
               PROVE  ~ state'[p][m].remote_open
    BY <1>3, <1>4 DEF Waiting
<1>7. CASE ProcessTick(p)
  <2>1. ticks'[p] = Tail(ticks[p])
    BY <1>1, <1>7 DEF ProcessTick, Typed, TypeOK
  <2>2. state'[p][m] = Settled(state[p][m])
    BY <1>1, <1>7 DEF ProcessTick, Typed, TypeOK
  <2>3. state'[p][m].remote_open = state[p][m].remote_open
    BY <1>2, <2>2, SettledIs
  <2> QED BY <1>1, <1>5, <1>6, <2>1, <2>3 DEF Waiting
<1>8. CASE CloseTick(p)
  <2>1. PICK n, t : n = Head(ticks[p]).name /\ t = Head(ticks[p]).token
    OBVIOUS
  <2>2. Closes(p, n, t)
    BY <1>1, <1>8, <2>1, CloseDoes
  <2>3. state'[p][m].remote_open = state[p][m].remote_open
    <3>1. state'[p][m] = state[p][m] \/ state'[p][m] = Close(state[p][m])
        BY <2>2 DEF Closes
    <3> QED BY <1>2, <3>1, CloseIs
  <2>4. CASE Contains(ticks[p], RemoveTask(m))
    BY <1>1, <2>3, <2>4 DEF Waiting
  <2>5. CASE ~ Contains(ticks[p], RemoveTask(m))
    <3>1. state[p][n].marker = t
        BY <1>5, <1>6, <2>2, <2>5 DEF Closes
    <3>2. PICK queue : queue = RegisterIf(state[p][n].local_open, Tail(ticks[p]))
        OBVIOUS
    <3>3. ticks'[p] = Append(queue, RemoveTask(n)) /\ n \in Names /\ t \in Times
        BY <2>2, <3>1, <3>2 DEF Closes
    <3>4. Tail(ticks[p]) \in Seq(Tasks)
        BY <1>2, <1>3
    <3>5. queue \in Seq(Tasks)
        BY <1>2, <3>2, <3>3, <3>4, RegisterIs DEF EndpointStates
    <3>6. ~ Contains(queue, RemoveTask(m))
        BY <1>5, <2>5, <3>2, <3>4, RegisterKeeps
    <3>7. RemoveTask(n) = RemoveTask(m)
        BY <1>6, <3>3, <3>5, <3>6, AppendContains
    <3>8. n = m
      <4>1. RemoveTask(n).name = n /\ RemoveTask(m).name = m
        BY DEF RemoveTask
      <4> QED BY <3>7, <4>1
    <3>9. ~ state[p][n].remote_open
        BY <1>1, <3>1, <3>3, TimeValues DEF Typed, MarkedIsClosed
    <3> QED BY <2>3, <3>8, <3>9
  <2> QED BY <2>4, <2>5
<1>9. CASE RemoveTick(p)
  <2>1. PICK n : n = Head(ticks[p]).name
    OBVIOUS
  <2>2. Removes(p, n)
    BY <1>1, <1>9, <2>1, RemoveDoes
  <2>3. Contains(ticks[p], RemoveTask(m))
    BY <1>5, <1>6, <2>2 DEF Removes
  <2>4. state'[p][m] = Fresh \/ state'[p][m] = state[p][m]
    BY <2>2 DEF Removes
  <2> QED BY <1>1, <2>3, <2>4, FreshIs DEF Waiting
<1> QED BY <1>7, <1>8, <1>9

-----------------------------------------------------------------------------
(* Every step keeps the invariant.                                          *)

\* The invariant of the two peers is that of p and that of the other.
LEMMA FollowingBoth ==
    ASSUME NEW p \in Peers, Typed', Inward(p)', Waiting(p)', Faultless(p)',
           Inward(Other(p))', Waiting(Other(p))', Faultless(Other(p))'
    PROVE  Following'
<1>1. \A q \in Peers : q = p \/ q = Other(p)
    BY Others
<1>2. (Inward(p) /\ Waiting(p) /\ Faultless(p))'
    OBVIOUS
<1>3. PICK o : o = Other(p)
    OBVIOUS
<1>4. (Inward(o) /\ Waiting(o) /\ Faultless(o))'
    BY <1>3
<1>5. \A q \in Peers : (Inward(q) /\ Waiting(q) /\ Faultless(q))'
    BY <1>1, <1>2, <1>3, <1>4
<1> QED BY <1>5 DEF Following

LEMMA FollowingInit == Init => Following
<1> SUFFICES ASSUME Init PROVE Following
    OBVIOUS
<1>1. Typed
    BY TypedInit
<1>2. SUFFICES ASSUME NEW p \in Peers
               PROVE  Inward(p) /\ Waiting(p) /\ Faultless(p)
    BY <1>1 DEF Following
<1>3. PICK q : q = Other(p)
    OBVIOUS
<1>4. q \in Peers
    BY <1>3, Others
<1>5. /\ wire[p] = <<>> /\ ticks[p] = <<>> /\ fault[p] = "none" /\ links[q] = {}
      /\ \A n \in Names : state[q][n] = Fresh
    BY <1>4 DEF Init
<1>6. Len(wire[p]) = 0
    BY <1>5
<1>7. Opens(wire[p], Heard(p)) /\ Follows(wire[p], remote_handles[p])
    BY <1>6 DEF Opens, Follows
<1>8. Leads(wire[p], remote_handles[p], state[q], links[q], handle[q])
    BY <1>5 DEF Leads
<1>9. Balanced(wire[p], Heard(p), state[q])
  <2>1. SUFFICES ASSUME NEW n \in Names, NEW b
                 PROVE  state[q][n].open_requests + One(b)
                            >= state[q][n].close_requests + One(state[q][n].local_open)
    BY DEF Balanced
  <2>2. /\ state[q][n].open_requests = 0 /\ state[q][n].close_requests = 0
        /\ ~ state[q][n].local_open
    BY <1>5, FreshIs
  <2>3. One(b) \in {0, 1}
    BY DEF One
  <2> QED BY <2>2, <2>3 DEF One
<1>10. Waiting(p) /\ Faultless(p)
    BY <1>5 DEF Waiting, Faultless, Contains
<1> QED BY <1>3, <1>7, <1>8, <1>9, <1>10 DEF Inward

LEMMA FollowingStep == Following /\ [Next]_vars => Following'
<1> SUFFICES ASSUME Following, [Next]_vars
             PROVE  Following'
    OBVIOUS
<1>1. Typed /\ Typed'
    BY TypedStep DEF Following
<1>2. CASE UNCHANGED vars
  <2>1. SUFFICES ASSUME NEW p \in Peers
                 PROVE  (Inward(p) /\ Waiting(p) /\ Faultless(p))'
    BY <1>1 DEF Following
  <2>2. Inward(p) /\ Waiting(p) /\ Faultless(p)
    BY DEF Following
  <2>3. /\ links' = links /\ state' = state /\ handle' = handle
        /\ remote_handles' = remote_handles /\ ticks' = ticks /\ reading' = reading
        /\ wire' = wire /\ fault' = fault
    BY <1>2 DEF vars
  <2>4. Heard(p)' = Heard(p) /\ Running(p)' = Running(p)
    BY <2>3 DEF Heard, Running
  <2>5. Inward(p)'
    BY <2>2, <2>3, <2>4 DEF Inward
  <2> QED BY <2>2, <2>3, <2>5 DEF Waiting, Faultless
<1>3. ASSUME NEW p \in Peers, Alone(p)
      PROVE  Waiting(Other(p))' /\ Faultless(Other(p))'
  <2>1. Waiting(Other(p)) /\ Faultless(Other(p))
    BY <1>3, Others DEF Following
  <2> QED BY <1>3, <2>1, AloneWaits
<1>4. ASSUME NEW p \in Peers, NEW n \in Names,
             OpenLink(p, n) \/ CloseLink(p, n) \/ ReopenLink(p, n)
      PROVE  Following'
  <2>1. Alone(p) /\ Kept(p)
    BY <1>1, <1>4, CallsAlone, KeptOpen, KeptClose
  <2>2. /\ Waiting(p)' /\ Faultless(p)'
        /\ \A m \in Names : state'[p][m].remote_open = state[p][m].remote_open
        /\ remote_handles' = remote_handles /\ fault' = fault /\ wire' = wire
    BY <1>4, WaitingCalls
  <2>3. Inward(p)
    BY <1>4 DEF Following
  <2>4. Inward(p)'
    BY <2>1, <2>2, <2>3, InwardSame
  <2>5. Inward(Other(p))'
    BY <1>1, <2>1, KeptInward
  <2> QED BY <1>1, <1>3, <2>1, <2>2, <2>4, <2>5, FollowingBoth
<1>5. ASSUME NEW p \in Peers, Step(p)
      PROVE  Following'
  <2>1. Alone(p)
    BY <1>1, <1>5, StepsAlone
  <2>2. Inward(p) /\ Faultless(p)
    BY DEF Following
  <2>3. CASE ReadAttach(p)
    <3>1. Faultless(p)'
      <4>1. PICK n : n = wire[p][1].name
        OBVIOUS
      <4>2. Attaches(p, n)
        BY <1>1, <2>3, <4>1, AttachDoes
      <4>3. fault'[p] = fault[p] \/ fault'[p] = "Attach already received"
        BY <4>2 DEF Attaches
      <4> QED BY <2>2, <4>3 DEF Faultless
    <3>2. Inward(p)' /\ Waiting(p)'
        BY <1>1, <2>3, InwardAttach, WaitingReads
    <3>3. Inward(Other(p))'
        BY <1>1, <2>3, KeptReads, KeptInward
    <3> QED BY <1>1, <1>3, <2>1, <3>1, <3>2, <3>3, FollowingBoth
  <2>4. CASE ReadDetach(p)
    <3>1. Inward(p)' /\ fault'[p] = fault[p]
        BY <1>1, <2>4, InwardDetach
    <3>2. Faultless(p)'
        BY <2>2, <3>1 DEF Faultless
    <3>3. Waiting(p)'
        BY <2>4, WaitingReads
    <3>4. Inward(Other(p))'
        BY <1>1, <2>4, KeptReads, KeptInward
    <3> QED BY <1>1, <1>3, <2>1, <3>1, <3>2, <3>3, <3>4, FollowingBoth
  <2>5. CASE ProcessTick(p)
    <3>1. Waiting(p)' /\ fault' = fault
        BY <2>5, WaitingTicks
    <3>2. Faultless(p)'
        BY <2>2, <3>1 DEF Faultless
    <3>3. Inward(p)'
      <4>1. \A m \in Names : state'[p][m] = Settled(state[p][m])
        BY <1>1, <2>5 DEF ProcessTick, Typed, TypeOK
      <4>2. \A m \in Names : state'[p][m].remote_open = state[p][m].remote_open
        BY <1>1, <4>1, TypesAre, SettledIs
      <4>3. wire'[p] = wire[p] /\ remote_handles'[p] = remote_handles[p]
        <5>1. Other(p) # p
            BY Others
        <5> QED BY <1>1, <2>5, <5>1 DEF ProcessTick, Typed, TypeOK
      <4> QED BY <2>1, <2>2, <3>1, <4>2, <4>3, InwardSame
    <3>4. Inward(Other(p))'
        BY <1>1, <2>5, InwardBatch
    <3> QED BY <1>1, <1>3, <2>1, <3>1, <3>2, <3>3, <3>4, FollowingBoth
  <2>6. CASE CloseTick(p)
    <3>1. Waiting(p)' /\ fault' = fault
        BY <2>6, WaitingTicks
    <3>2. Faultless(p)'
        BY <2>2, <3>1 DEF Faultless
    <3>3. Inward(p)'
      <4>1. PICK n, t : n = Head(ticks[p]).name /\ t = Head(ticks[p]).token
        OBVIOUS
      <4>2. Closes(p, n, t)
        BY <1>1, <2>6, <4>1, CloseDoes
      <4>3. \A m \in Names : state'[p][m] = state[p][m] \/ state'[p][m] = Close(state[p][m])
        BY <4>2 DEF Closes
      <4>4. \A m \in Names : state'[p][m].remote_open = state[p][m].remote_open
        BY <1>1, <4>3, TypesAre, CloseIs
      <4>5. wire'[p] = wire[p] /\ remote_handles'[p] = remote_handles[p]
        BY <4>2 DEF Closes
      <4> QED BY <2>1, <2>2, <3>1, <4>4, <4>5, InwardSame
    <3>4. Inward(Other(p))'
        BY <1>1, <2>6, KeptTicks, KeptInward
    <3> QED BY <1>1, <1>3, <2>1, <3>1, <3>2, <3>3, <3>4, FollowingBoth
  <2>7. CASE RemoveTick(p)
    <3>1. Waiting(p)' /\ fault' = fault
        BY <2>7, WaitingTicks
    <3>2. Faultless(p)'
        BY <2>2, <3>1 DEF Faultless
    <3>3. Inward(p)'
        BY <1>1, <2>7, InwardRemoved
    <3>4. Inward(Other(p))'
        BY <1>1, <2>7, KeptTicks, KeptInward
    <3> QED BY <1>1, <1>3, <2>1, <3>1, <3>2, <3>3, <3>4, FollowingBoth
  <2> QED BY <1>5, <2>3, <2>4, <2>5, <2>6, <2>7 DEF Step
<1> QED BY <1>2, <1>4, <1>5 DEF Next

LEMMA AlwaysFollowing == Spec => []Following
BY FollowingInit, FollowingStep, PTL DEF Spec

\* Whatever the applications do, a detach at the head of the stream closes the link that
\* its writer meant: handles are used again, and remove_link leaves its entry, but an
\* attach always comes between.
THEOREM DetachFindsIt == Spec => []DetachFindsItsLink
<1>1. Following => DetachFindsItsLink
  <2>1. SUFFICES ASSUME Following, NEW p \in Peers, wire[p] # <<>>,
                        Head(wire[p]).type = "detach"
                 PROVE  remote_handles[p][Head(wire[p]).handle] = Head(wire[p]).name
    BY DEF DetachFindsItsLink
  <2>2. Head(wire[p]) = wire[p][1]
    BY <2>1, HeadIs DEF Following
  <2>3. ~ IsAttach(wire[p], 1)
    BY <2>1, <2>2 DEF IsAttach
  <2> QED BY <2>1, <2>2, <2>3, DetachFinds
<1> QED BY AlwaysFollowing, <1>1, PTL

\* No detach is ever refused: of the three errors that the handlers can throw the only
\* one left is that of an attach which finds the link attached.
THEOREM DetachIsNeverRefused ==
    Spec => [](\A p \in Peers : fault[p] \in {"none", "Attach already received"})
<1>1. Following => \A p \in Peers : fault[p] \in {"none", "Attach already received"}
    BY DEF Following, Faultless
<1> QED BY AlwaysFollowing, <1>1, PTL

-----------------------------------------------------------------------------
(* A link is removed only when both sides have closed it.                   *)

\* Where a request is not yet written, a _process is to come.
Asked(queue, ends) ==
    \A n \in Names : ~ HasSettled(ends[n]) => Contains(queue, Process)

\* A link that waits for its removal is closed on this side, no token of on_detach is its
\* own, and what it has to write is written before; and it waits only once.
Leaving(queue, ends, names) ==
    \A i \in 1..Len(queue), n \in Names :
        queue[i] = RemoveTask(n) =>
            /\ n \in names /\ ~ ends[n].local_open /\ ends[n].marker = 0
            /\ HasSettled(ends[n]) \/ \E j \in 1..(i - 1) : queue[j] = Process
            /\ \A j \in 1..Len(queue) : queue[j] = RemoveTask(n) => j = i

Tidy(p) == Asked(ticks[p], state[p]) /\ Leaving(ticks[p], state[p], links[p])

\* Tasks of different kinds differ, and so do the removals of two links.
LEMMA TasksDiffer ==
    /\ \A n \in Names : RemoveTask(n) # Process
    /\ \A n \in Names : \A m, t : CloseTask(m, t) # Process /\ CloseTask(m, t) # RemoveTask(n)
    /\ \A m, n \in Names : RemoveTask(m) = RemoveTask(n) => m = n
<1>1. /\ Process.task = "process" /\ \A n \in Names : RemoveTask(n).task = "remove"
      /\ \A m, t : CloseTask(m, t).task = "close"
      /\ \A n \in Names : RemoveTask(n).name = n
    BY DEF Process, CloseTask, RemoveTask
<1>2. \A n \in Names : RemoveTask(n) # Process
    BY <1>1
<1>3. \A n \in Names : \A m, t : CloseTask(m, t) # Process /\ CloseTask(m, t) # RemoveTask(n)
  <2>1. SUFFICES ASSUME NEW n \in Names, NEW m, NEW t
                 PROVE  CloseTask(m, t) # Process /\ CloseTask(m, t) # RemoveTask(n)
    OBVIOUS
  <2>2. CloseTask(m, t).task = "close"
    BY <1>1
  <2> QED BY <1>1, <2>2
<1>4. \A m, n \in Names : RemoveTask(m) = RemoveTask(n) => m = n
    BY <1>1
<1> QED BY <1>2, <1>3, <1>4

LEMMA LeavingAppend ==
    ASSUME NEW q \in Seq(Tasks), NEW x, \A n \in Names : x # RemoveTask(n),
           NEW e, NEW d, NEW L, NEW K, Leaving(q, e, L),
           \A n \in Names : Contains(q, RemoveTask(n)) => d[n] = e[n] /\ (n \in L => n \in K)
    PROVE  Leaving(q, d, K) /\ Leaving(Append(q, x), d, K)
<1>1. \A i \in 1..Len(q), n \in Names : q[i] = RemoveTask(n) => d[n] = e[n] /\ n \in K
    BY DEF Leaving, Contains
<1>2. Leaving(q, d, K)
    BY <1>1 DEF Leaving
<1>3. PICK r : r = Append(q, x)
    OBVIOUS
<1>4. /\ Len(q) \in Nat /\ Len(r) = Len(q) + 1 /\ r[Len(q) + 1] = x
      /\ \A i \in 1..Len(q) : r[i] = q[i]
    BY <1>3
<1>5. \A i \in 1..Len(r), n \in Names : r[i] = RemoveTask(n) => i \in 1..Len(q) /\ q[i] = RemoveTask(n)
    BY <1>4
<1>6. \A i \in 1..Len(q) : \A j \in 1..(i - 1) : r[j] = q[j]
    BY <1>4
<1>7. Leaving(r, d, K)
    BY <1>2, <1>5, <1>6 DEF Leaving
<1> QED BY <1>2, <1>3, <1>7

\* Asking for a _process.
LEMMA LeavingRegister ==
    ASSUME NEW q \in Seq(Tasks), NEW changed, NEW e, NEW d, NEW L, NEW K, Leaving(q, e, L),
           \A n \in Names : Contains(q, RemoveTask(n)) => d[n] = e[n] /\ (n \in L => n \in K)
    PROVE  Leaving(Register(q), d, K) /\ Leaving(RegisterIf(changed, q), d, K)
<1>1. Leaving(q, d, K) /\ Leaving(Append(q, Process), d, K)
    BY TasksDiffer, LeavingAppend
<1> QED BY <1>1 DEF Register, RegisterIf

LEMMA LeavingTail ==
    ASSUME NEW q \in Seq(Tasks), q # <<>>, Head(q) # Process,
           NEW e, NEW d, NEW L, NEW K, Leaving(q, e, L),
           \A n \in Names : Contains(Tail(q), RemoveTask(n)) => d[n] = e[n] /\ (n \in L => n \in K)
    PROVE  Leaving(Tail(q), d, K)
<1>1. PICK r : r = Tail(q)
    OBVIOUS
<1>2. /\ Len(r) = Len(q) - 1 /\ Len(q) \in Nat /\ Head(q) = q[1]
      /\ \A i \in 1..Len(r) : r[i] = q[i + 1]
    BY <1>1, HeadTailProperties
<1>3. SUFFICES ASSUME NEW i \in 1..Len(r), NEW n \in Names, r[i] = RemoveTask(n)
               PROVE  /\ n \in K /\ ~ d[n].local_open /\ d[n].marker = 0
                      /\ HasSettled(d[n]) \/ \E j \in 1..(i - 1) : r[j] = Process
                      /\ \A j \in 1..Len(r) : r[j] = RemoveTask(n) => j = i
    BY <1>1 DEF Leaving
<1>4. d[n] = e[n] /\ (n \in L => n \in K)
    BY <1>1, <1>3 DEF Contains
<1>5. i + 1 \in 1..Len(q) /\ q[i + 1] = RemoveTask(n)
    BY <1>2, <1>3
<1>6. /\ n \in L /\ ~ e[n].local_open /\ e[n].marker = 0
      /\ HasSettled(e[n]) \/ \E j \in 1..((i + 1) - 1) : q[j] = Process
      /\ \A j \in 1..Len(q) : q[j] = RemoveTask(n) => j = i + 1
    BY <1>5 DEF Leaving
<1>7. ASSUME NEW j \in 1..((i + 1) - 1), q[j] = Process
      PROVE  j - 1 \in 1..(i - 1) /\ r[j - 1] = Process
    BY <1>2, <1>7
<1>8. ASSUME NEW j \in 1..Len(r), r[j] = RemoveTask(n)
      PROVE  j = i
  <2>1. j + 1 \in 1..Len(q) /\ q[j + 1] = RemoveTask(n)
    BY <1>2, <1>8
  <2>2. j + 1 = i + 1
    BY <1>6, <2>1
  <2> QED BY <2>2
<1>9. HasSettled(d[n]) \/ \E j \in 1..(i - 1) : r[j] = Process
    BY <1>4, <1>6, <1>7
<1> QED BY <1>4, <1>6, <1>8, <1>9

\* When everything has been written, no removal waits for that.
LEMMA LeavingSettled ==
    ASSUME NEW q \in Seq(Tasks), q # <<>>, NEW e, NEW d, NEW L, Leaving(q, e, L),
           \A n \in Names : /\ HasSettled(d[n]) /\ d[n].marker = e[n].marker
                            /\ d[n].local_open = e[n].local_open
    PROVE  Leaving(Tail(q), d, L)
<1>1. PICK r : r = Tail(q)
    OBVIOUS
<1>2. /\ Len(r) = Len(q) - 1 /\ Len(q) \in Nat
      /\ \A i \in 1..Len(r) : r[i] = q[i + 1]
    BY <1>1, HeadTailProperties
<1>3. SUFFICES ASSUME NEW i \in 1..Len(r), NEW n \in Names, r[i] = RemoveTask(n)
               PROVE  /\ n \in L /\ ~ d[n].local_open /\ d[n].marker = 0 /\ HasSettled(d[n])
                      /\ \A j \in 1..Len(r) : r[j] = RemoveTask(n) => j = i
    BY <1>1 DEF Leaving
<1>4. i + 1 \in 1..Len(q) /\ q[i + 1] = RemoveTask(n)
    BY <1>2, <1>3
<1>5. /\ n \in L /\ ~ e[n].local_open /\ e[n].marker = 0
      /\ \A j \in 1..Len(q) : q[j] = RemoveTask(n) => j = i + 1
    BY <1>4 DEF Leaving
<1>6. ASSUME NEW j \in 1..Len(r), r[j] = RemoveTask(n)
      PROVE  j = i
  <2>1. j + 1 \in 1..Len(q) /\ q[j + 1] = RemoveTask(n)
    BY <1>2, <1>6
  <2>2. j + 1 = i + 1
    BY <1>5, <2>1
  <2> QED BY <2>2
<1> QED BY <1>5, <1>6

\* One more removal.
LEMMA LeavingMore ==
    ASSUME NEW q \in Seq(Tasks), NEW d, NEW L, Leaving(q, d, L), NEW n \in Names, n \in L,
           ~ d[n].local_open, d[n].marker = 0, HasSettled(d[n]) \/ Contains(q, Process),
           ~ Contains(q, RemoveTask(n))
    PROVE  Leaving(Append(q, RemoveTask(n)), d, L)
<1>1. PICK r : r = Append(q, RemoveTask(n))
    OBVIOUS
<1>2. /\ Len(q) \in Nat /\ Len(r) = Len(q) + 1 /\ r[Len(q) + 1] = RemoveTask(n)
      /\ \A i \in 1..Len(q) : r[i] = q[i]
    BY <1>1
<1>3. SUFFICES ASSUME NEW i \in 1..Len(r), NEW m \in Names, r[i] = RemoveTask(m)
               PROVE  /\ m \in L /\ ~ d[m].local_open /\ d[m].marker = 0
                      /\ HasSettled(d[m]) \/ \E j \in 1..(i - 1) : r[j] = Process
                      /\ \A j \in 1..Len(r) : r[j] = RemoveTask(m) => j = i
    BY <1>1 DEF Leaving
<1>4. CASE i = Len(q) + 1
  <2>1. m = n
    BY <1>2, <1>3, <1>4, TasksDiffer
  <2>2. HasSettled(d[n]) \/ \E j \in 1..(i - 1) : r[j] = Process
    BY <1>2, <1>4 DEF Contains
  <2>3. \A j \in 1..Len(r) : r[j] = RemoveTask(n) => j = i
    BY <1>2, <1>4 DEF Contains
  <2> QED BY <2>1, <2>2, <2>3
<1>5. CASE i # Len(q) + 1
  <2>1. i \in 1..Len(q) /\ q[i] = RemoveTask(m)
    BY <1>2, <1>3, <1>5
  <2>2. m # n
    BY <2>1 DEF Contains
  <2>3. /\ m \in L /\ ~ d[m].local_open /\ d[m].marker = 0
        /\ HasSettled(d[m]) \/ \E j \in 1..(i - 1) : q[j] = Process
        /\ \A j \in 1..Len(q) : q[j] = RemoveTask(m) => j = i
    BY <2>1 DEF Leaving
  <2>4. \A j \in 1..(i - 1) : r[j] = q[j]
    BY <1>2, <2>1
  <2>5. \A j \in 1..Len(r) : r[j] = RemoveTask(m) => j = i
    BY <1>2, <2>2, <2>3, TasksDiffer
  <2> QED BY <2>3, <2>4, <2>5
<1> QED BY <1>4, <1>5

LEMMA LeavingEmpty ==
    ASSUME NEW q, \A n \in Names : ~ Contains(q, RemoveTask(n)), NEW e, NEW L
    PROVE  Leaving(q, e, L)
BY DEF Leaving, Contains

\* A _process that has been asked for is in the queue, and stays there until its turn.
LEMMA ProcessStays ==
    ASSUME NEW q \in Seq(Tasks)
    PROVE  /\ Contains(Register(q), Process) /\ Contains(RegisterIf(TRUE, q), Process)
           /\ \A x : Contains(q, x) => /\ \A y : Contains(Append(q, y), x)
                                       /\ Contains(Register(q), x)
                                       /\ \A changed : Contains(RegisterIf(changed, q), x)
                                       /\ Head(q) # x => Contains(Tail(q), x)
<1>1. Contains(Append(q, Process), Process)
  <2>1. Len(q) + 1 \in 1..Len(Append(q, Process)) /\ Append(q, Process)[Len(q) + 1] = Process
    OBVIOUS
  <2> QED BY <2>1 DEF Contains
<1>2. Contains(Register(q), Process) /\ Contains(RegisterIf(TRUE, q), Process)
    BY <1>1 DEF Register, RegisterIf
<1>3. ASSUME NEW x, Contains(q, x)
      PROVE  /\ \A y : Contains(Append(q, y), x)
             /\ Contains(Register(q), x)
             /\ \A changed : Contains(RegisterIf(changed, q), x)
             /\ Head(q) # x => Contains(Tail(q), x)
  <2>1. PICK i \in 1..Len(q) : q[i] = x
    BY <1>3 DEF Contains
  <2>2. ASSUME NEW y
        PROVE  Contains(Append(q, y), x)
    <3>1. i \in 1..Len(Append(q, y)) /\ Append(q, y)[i] = x
        BY <2>1
    <3> QED BY <3>1 DEF Contains
  <2>3. Contains(Register(q), x) /\ \A changed : Contains(RegisterIf(changed, q), x)
    BY <1>3, <2>2 DEF Register, RegisterIf
  <2>4. ASSUME Head(q) # x
        PROVE  Contains(Tail(q), x)
    <3>1. q # <<>> /\ Len(q) \in Nat /\ i # 1
        BY <2>1, <2>4
    <3>2. PICK r : r = Tail(q)
        OBVIOUS
    <3>3. Len(r) = Len(q) - 1 /\ \A j \in 1..Len(r) : r[j] = q[j + 1]
        BY <3>1, <3>2, HeadTailProperties
    <3>4. i - 1 \in 1..Len(r) /\ r[i - 1] = x
        BY <2>1, <3>1, <3>3
    <3> QED BY <3>2, <3>4 DEF Contains
  <2> QED BY <2>2, <2>3, <2>4
<1> QED BY <1>2, <1>3


\* The requests of an end that are not yet written.
LEMMA RequestsKept ==
    ASSUME NEW e \in EndpointStates
    PROVE  /\ HasSettled(Settled(e)) /\ HasSettled(Fresh)
           /\ ~ e.local_open /\ HasSettled(e) => HasSettled(Close(e))
           /\ e.local_open /\ HasSettled(e) => HasSettled(Attached(e))
           /\ \A t \in Nat : HasSettled(Mark(RemoteClosed(e), t)) <=> HasSettled(e)
<1>1. HasSettled(Settled(e)) /\ HasSettled(Fresh)
    BY SettledIs, FreshIs DEF HasSettled
<1>2. ~ e.local_open /\ HasSettled(e) => HasSettled(Close(e))
    BY CloseIs DEF HasSettled
<1>3. e.local_open /\ HasSettled(e) => HasSettled(Attached(e))
    BY AttachedIs DEF HasSettled
<1>4. \A t \in Nat : HasSettled(Mark(RemoteClosed(e), t)) <=> HasSettled(e)
    BY DetachedIs DEF HasSettled
<1> QED BY <1>1, <1>2, <1>3, <1>4

\* A call that opens a new link or closes an open one.
LEMMA TidyCalls ==
    ASSUME Typed, NEW p \in Peers, NEW n \in Names, OpenLink(p, n) \/ CloseLink(p, n), Tidy(p)
    PROVE  Tidy(p)'
<1>1. /\ ticks[p] \in Seq(Tasks) /\ ticks'[p] = Register(ticks[p])
      /\ links[p] \subseteq links'[p]
  <2>1. ticks' = [ticks EXCEPT ![p] = Register(@)]
    BY DEF OpenLink, CloseLink
  <2>2. links' = [links EXCEPT ![p] = @ \cup {n}] \/ links' = links
    BY DEF OpenLink, CloseLink
  <2> QED BY <2>1, <2>2 DEF Typed, TypeOK
<1>2. Contains(ticks'[p], Process)
    BY <1>1, ProcessStays
<1>3. \A m \in Names \ {n} : state'[p][m] = state[p][m]
  <2>1. CASE OpenLink(p, n)
    BY <2>1 DEF OpenLink, Typed, TypeOK
  <2>2. CASE CloseLink(p, n)
    BY <2>2 DEF CloseLink, Typed, TypeOK
  <2> QED BY <2>1, <2>2
<1>4. ~ Contains(ticks[p], RemoveTask(n))
  <2>1. n \notin links[p] \/ state[p][n].local_open
    BY DEF OpenLink, CloseLink
  <2> QED BY <2>1 DEF Tidy, Leaving, Contains
<1>5. Leaving(ticks[p], state[p], links[p])
    BY DEF Tidy
<1>6. \A m \in Names : Contains(ticks[p], RemoveTask(m))
          => state'[p][m] = state[p][m] /\ (m \in links[p] => m \in links'[p])
    BY <1>1, <1>3, <1>4
<1>7. PICK q, e, d, L, K : /\ q = ticks[p] /\ e = state[p] /\ d = state'[p]
                            /\ L = links[p] /\ K = links'[p]
    OBVIOUS
<1>8. Leaving(Register(q), d, K)
  <2>1. /\ q \in Seq(Tasks) /\ Leaving(q, e, L)
        /\ \A m \in Names : Contains(q, RemoveTask(m)) => d[m] = e[m] /\ (m \in L => m \in K)
    BY <1>1, <1>5, <1>6, <1>7
  <2> QED BY <2>1, LeavingRegister
<1> QED BY <1>1, <1>2, <1>7, <1>8 DEF Tidy, Asked

\* No frame is read while a link waits for its removal.
LEMMA NoneLeaves ==
    ASSUME Typed, NEW p \in Peers, Waiting(p), reading[p] \/ ticks[p] = <<>>
    PROVE  \A n \in Names : ~ Contains(ticks[p], RemoveTask(n))
BY DEF Waiting, Contains

LEMMA TidyAttach ==
    ASSUME Typed, NEW p \in Peers, ReadAttach(p), Waiting(p), Tidy(p)
    PROVE  Tidy(p)'
<1>1. PICK n : n = wire[p][1].name
    OBVIOUS
<1>2. Attaches(p, n) /\ ticks[p] \in Seq(Tasks) /\ n \in Names
  <2>1. Attaches(p, n)
    BY <1>1, AttachDoes
  <2>2. ticks[p] \in Seq(Tasks)
    BY TypesAre
  <2> QED BY <2>1, <2>2 DEF Attaches
<1>3. reading[p] \/ ticks[p] = <<>>
    BY <1>2 DEF Attaches
<1>4. \A m \in Names : ~ Contains(ticks[p], RemoveTask(m))
    BY <1>3, NoneLeaves
<1>5. CASE state[p][n].remote_open
  <2>1. state'[p] = state[p] /\ ticks'[p] = ticks[p]
    BY <1>2, <1>5 DEF Attaches
  <2>2. Leaving(ticks[p], state[p], links'[p])
    BY <1>4, LeavingEmpty
  <2> QED BY <2>1, <2>2 DEF Tidy, Asked
<1>6. CASE ~ state[p][n].remote_open
  <2>1. PICK changed \in BOOLEAN : changed = ~ state[p][n].local_open
    OBVIOUS
  <2>2. /\ \A m \in Names : state'[p][m] = IF m = n THEN Attached(state[p][n]) ELSE state[p][m]
        /\ ticks'[p] = RegisterIf(changed, ticks[p])
    BY <1>2, <1>6, <2>1 DEF Attaches
  <2>3. \A m \in Names : ~ Contains(ticks'[p], RemoveTask(m))
    BY <1>2, <1>4, <2>2, RegisterKeeps
  <2>4. Leaving(ticks'[p], state'[p], links'[p])
    BY <2>3, LeavingEmpty
  <2>5. SUFFICES ASSUME NEW m \in Names, ~ HasSettled(state'[p][m])
                 PROVE  Contains(ticks'[p], Process)
    BY <2>4 DEF Tidy, Asked
  <2>6. CASE changed
    BY <1>2, <2>2, <2>6, ProcessStays
  <2>7. CASE ~ changed
    <3>1. state[p][n] \in EndpointStates /\ state[p][n].local_open
        BY <1>2, <2>1, <2>7, TypesAre
    <3>2. ~ HasSettled(state[p][m])
        BY <2>2, <2>5, <3>1, RequestsKept
    <3>3. Contains(ticks[p], Process)
        BY <3>2 DEF Tidy, Asked
    <3> QED BY <1>2, <2>2, <3>3, ProcessStays
  <2> QED BY <2>6, <2>7
<1> QED BY <1>5, <1>6

LEMMA TidyDetach ==
    ASSUME Typed, NEW p \in Peers, ReadDetach(p), Waiting(p), Tidy(p)
    PROVE  Tidy(p)'
<1>1. PICK n : n = remote_handles[p][wire[p][1].handle]
    OBVIOUS
<1>2. Detaches(p, n) /\ ticks[p] \in Seq(Tasks)
    BY <1>1, DetachDoes, TypesAre
<1>3. (reading[p] \/ ticks[p] = <<>>) /\ links'[p] = links[p]
    BY <1>2 DEF Detaches
<1>4. \A m \in Names : ~ Contains(ticks[p], RemoveTask(m))
    BY <1>3, NoneLeaves
<1>5. CASE n \in Names /\ state[p][n].remote_open
  <2>1. PICK t \in Times :
            /\ \A m \in Names : state'[p][m] = IF m = n THEN Mark(RemoteClosed(state[p][n]), t)
                                                        ELSE state[p][m]
            /\ ticks'[p] = Append(ticks[p], CloseTask(n, t))
    BY <1>2, <1>5 DEF Detaches
  <2>2. \A m \in Names : ~ Contains(ticks'[p], RemoveTask(m))
    BY <1>2, <1>4, <2>1, TasksDiffer, AppendContains
  <2>3. Leaving(ticks'[p], state'[p], links'[p])
    BY <2>2, LeavingEmpty
  <2>4. state[p][n] \in EndpointStates /\ t \in Nat
    BY <1>5, TypesAre, TimeValues
  <2>5. \A m \in Names : HasSettled(state'[p][m]) <=> HasSettled(state[p][m])
    BY <2>1, <2>4, RequestsKept
  <2>6. Contains(ticks[p], Process) => Contains(ticks'[p], Process)
    BY <1>2, <2>1, ProcessStays
  <2> QED BY <2>3, <2>5, <2>6 DEF Tidy, Asked
<1>6. CASE ~ (n \in Names /\ state[p][n].remote_open)
  <2>1. state'[p] = state[p] /\ ticks'[p] = ticks[p]
    BY <1>2, <1>6 DEF Detaches
  <2> QED BY <1>3, <2>1 DEF Tidy, Asked
<1> QED BY <1>5, <1>6

LEMMA TidyProcess ==
    ASSUME Typed, NEW p \in Peers, ProcessTick(p), Tidy(p)
    PROVE  Tidy(p)'
<1>1. /\ ticks[p] # <<>> /\ ticks[p] \in Seq(Tasks) /\ ticks'[p] = Tail(ticks[p])
      /\ links'[p] = links[p]
      /\ \A n \in Names : state'[p][n] = Settled(state[p][n]) /\ state[p][n] \in EndpointStates
  <2>1. /\ ticks[p] # <<>> /\ ticks' = [ticks EXCEPT ![p] = Tail(@)] /\ links' = links
        /\ state' = [state EXCEPT ![p] = [n \in Names |-> Settled(@[n])]]
    BY DEF ProcessTick, Tick
  <2>2. ticks'[p] = Tail(ticks[p]) /\ \A n \in Names : state'[p][n] = Settled(state[p][n])
    BY <2>1 DEF Typed, TypeOK
  <2> QED BY <2>1, <2>2, TypesAre
<1>2. \A n \in Names : /\ HasSettled(state'[p][n]) /\ state'[p][n].marker = state[p][n].marker
                       /\ state'[p][n].local_open = state[p][n].local_open
    BY <1>1, RequestsKept, SettledIs
<1>3. Leaving(ticks[p], state[p], links[p])
    BY DEF Tidy
<1>4. Leaving(Tail(ticks[p]), state'[p], links[p])
    BY <1>1, <1>2, <1>3, LeavingSettled
<1> QED BY <1>1, <1>2, <1>4 DEF Tidy, Asked

LEMMA TidyClose ==
    ASSUME Typed, NEW p \in Peers, CloseTick(p), Tidy(p)
    PROVE  Tidy(p)'
<1>1. PICK n, t : n = Head(ticks[p]).name /\ t = Head(ticks[p]).token
    OBVIOUS
<1>2. Closes(p, n, t)
    BY <1>1, CloseDoes
<1>3. /\ ticks[p] # <<>> /\ n \in Names /\ t \in Times /\ links'[p] = links[p]
      /\ Head(ticks[p]) = CloseTask(n, t)
  <2>1. ticks[p] # <<>> /\ Head(ticks[p]).task = "close"
    BY DEF CloseTick, Tick
  <2> QED BY <1>1, <1>2, <2>1, TickIs DEF Closes
<1>4. PICK q : q = Tail(ticks[p])
    OBVIOUS
<1>5. /\ ticks[p] \in Seq(Tasks) /\ q \in Seq(Tasks)
      /\ state[p][n] \in EndpointStates /\ Head(ticks[p]) # Process
    BY <1>3, <1>4, TypesAre, TasksDiffer
<1>6. \A m \in Names : ~ HasSettled(state[p][m]) => Contains(q, Process)
  <2>1. Contains(ticks[p], Process) => Contains(q, Process)
    BY <1>4, <1>5, ProcessStays
  <2> QED BY <2>1 DEF Tidy, Asked
<1>7. Leaving(ticks[p], state[p], links[p])
    BY DEF Tidy
<1>8. CASE state[p][n].marker # t
  <2>1. state'[p] = state[p] /\ ticks'[p] = q
    BY <1>2, <1>4, <1>8 DEF Closes
  <2>2. Leaving(q, state[p], links[p])
    BY <1>3, <1>4, <1>5, <1>7, LeavingTail
  <2> QED BY <1>3, <1>6, <2>1, <2>2 DEF Tidy, Asked
<1>9. CASE state[p][n].marker = t
  <2>1. PICK r : r = RegisterIf(state[p][n].local_open, q)
    OBVIOUS
  <2>2. /\ \A m \in Names : state'[p][m] = IF m = n THEN Close(state[p][n]) ELSE state[p][m]
        /\ ticks'[p] = Append(r, RemoveTask(n))
    BY <1>2, <1>4, <1>9, <2>1 DEF Closes
  <2>3. state[p][n].local_open \in BOOLEAN
    BY <1>5 DEF EndpointStates
  <2>4. r \in Seq(Tasks)
    BY <1>5, <2>1, <2>3, RegisterIs
  <2>5. t # 0
    BY <1>3, TimeValues
  <2>6. ~ Contains(ticks[p], RemoveTask(n))
    BY <1>3, <1>7, <1>9, <2>5 DEF Leaving, Contains
  <2>7. ~ Contains(q, RemoveTask(n))
    BY <1>3, <1>4, <1>5, <2>6, TailContains
  <2>8. ~ Contains(r, RemoveTask(n))
    BY <1>5, <2>1, <2>7, RegisterKeeps
  <2>9. Leaving(q, state[p], links[p])
    BY <1>3, <1>4, <1>5, <1>7, LeavingTail
  <2>10. Leaving(r, state'[p], links[p])
    <3>1. \A m \in Names : Contains(q, RemoveTask(m))
              => state'[p][m] = state[p][m] /\ (m \in links[p] => m \in links[p])
        BY <2>2, <2>7
    <3> QED BY <1>5, <2>1, <2>9, <3>1, LeavingRegister
  <2>11. /\ state'[p][n] = Close(state[p][n])
         /\ ~ state'[p][n].local_open /\ state'[p][n].marker = 0
    BY <1>3, <1>5, <2>2, CloseIs
  <2>12. \A m \in Names : ~ HasSettled(state'[p][m]) => Contains(r, Process)
    <3>1. SUFFICES ASSUME NEW m \in Names, ~ HasSettled(state'[p][m])
                   PROVE  Contains(r, Process)
        OBVIOUS
    <3>2. CASE state[p][n].local_open
      <4>1. r = RegisterIf(TRUE, q)
        BY <2>1, <2>3, <3>2
      <4> QED BY <1>5, <4>1, ProcessStays
    <3>3. CASE ~ state[p][n].local_open
      <4>1. ~ HasSettled(state[p][m])
        BY <1>5, <2>2, <3>1, <3>3, RequestsKept
      <4> QED BY <1>5, <1>6, <2>1, <4>1, ProcessStays
    <3> QED BY <3>2, <3>3
  <2>13. n \in links[p]
    BY <1>3, <1>9, <2>5, FreshIs DEF Typed, Named
  <2>14. Leaving(ticks'[p], state'[p], links[p])
    BY <1>3, <2>2, <2>4, <2>8, <2>10, <2>11, <2>12, <2>13, LeavingMore
  <2>15. Contains(r, Process) => Contains(ticks'[p], Process)
    BY <2>2, <2>4, ProcessStays
  <2> QED BY <1>3, <2>12, <2>14, <2>15 DEF Tidy, Asked
<1> QED BY <1>8, <1>9

\* The tick that removes a link finds it closed, and leaves the others as they were.
LEMMA TidyRemove ==
    ASSUME Typed, NEW p \in Peers, RemoveTick(p), Tidy(p), Waiting(p)
    PROVE  /\ Tidy(p)'
           /\ \A n \in Names : n \in links[p] /\ n \notin links'[p]
                  => IsClosed(state[p][n]) /\ HasSettled(state[p][n])
<1>1. PICK n : n = Head(ticks[p]).name
    OBVIOUS
<1>2. Removes(p, n)
    BY <1>1, RemoveDoes
<1>3. PICK q : q = Tail(ticks[p])
    OBVIOUS
<1>4. /\ ticks[p] # <<>> /\ n \in Names /\ Head(ticks[p]) = RemoveTask(n) /\ ticks'[p] = q
      /\ links'[p] = links[p] \ {n}
      /\ \A m \in Names : state'[p][m] = IF m = n THEN Fresh ELSE state[p][m]
    BY <1>2, <1>3 DEF Removes
<1>5. /\ ticks[p] \in Seq(Tasks) /\ ticks[p][1] = RemoveTask(n) /\ 1 \in 1..Len(ticks[p])
      /\ q \in Seq(Tasks) /\ Head(ticks[p]) # Process
  <2>1. Len(ticks[p]) \in Nat \ {0} /\ ticks[p][1] = RemoveTask(n) /\ q \in Seq(Tasks)
    BY <1>3, <1>4, TickIs
  <2> QED BY <1>4, <2>1, TypesAre, TasksDiffer
<1>6. Leaving(ticks[p], state[p], links[p])
    BY DEF Tidy
<1>7. /\ ~ state[p][n].local_open
      /\ HasSettled(state[p][n]) \/ \E j \in 1..(1 - 1) : ticks[p][j] = Process
      /\ \A j \in 1..Len(ticks[p]) : ticks[p][j] = RemoveTask(n) => j = 1
    BY <1>4, <1>5, <1>6 DEF Leaving
<1>8. HasSettled(state[p][n])
    BY <1>7
<1>9. ~ state[p][n].remote_open /\ ~ state[p][n].was_open
  <2>1. Contains(ticks[p], RemoveTask(n))
    BY <1>5 DEF Contains
  <2> QED BY <1>4, <2>1 DEF Waiting, Typed, MarkedIsClosed
<1>10. ~ Contains(q, RemoveTask(n))
  <2>1. SUFFICES ASSUME NEW i \in 1..Len(q), q[i] = RemoveTask(n)
                 PROVE  FALSE
    BY DEF Contains
  <2>2. /\ Len(q) = Len(ticks[p]) - 1 /\ Len(ticks[p]) \in Nat \ {0}
        /\ \A j \in 1..Len(q) : q[j] = ticks[p][j + 1]
    BY <1>3, <1>4, TickIs
  <2>3. i + 1 \in 1..Len(ticks[p]) /\ ticks[p][i + 1] = RemoveTask(n)
    BY <2>1, <2>2
  <2>4. i + 1 = 1
    BY <1>7, <2>3
  <2> QED BY <2>4
<1>11. Leaving(q, state'[p], links'[p])
  <2>1. \A m \in Names : Contains(q, RemoveTask(m))
            => state'[p][m] = state[p][m] /\ (m \in links[p] => m \in links'[p])
    BY <1>4, <1>10
  <2> QED BY <1>3, <1>4, <1>5, <1>6, <2>1, LeavingTail
<1>12. \A m \in Names : ~ HasSettled(state'[p][m]) => Contains(q, Process)
  <2>1. \A m \in Names : ~ HasSettled(state'[p][m]) => ~ HasSettled(state[p][m])
    BY <1>4, FreshIs DEF HasSettled
  <2>2. Contains(ticks[p], Process) => Contains(q, Process)
    BY <1>3, <1>5, ProcessStays
  <2> QED BY <2>1, <2>2 DEF Tidy, Asked
<1>13. Tidy(p)'
    BY <1>4, <1>11, <1>12 DEF Tidy, Asked
<1>14. IsClosed(state[p][n])
    BY <1>7, <1>9 DEF IsClosed
<1>15. \A m : m \in links[p] /\ m \notin links'[p] => m = n
    BY <1>4
<1> QED BY <1>8, <1>13, <1>14, <1>15

-----------------------------------------------------------------------------

Tidied == Following /\ \A p \in Peers : Tidy(p)

LEMMA TidiedInit == Init => Tidied
<1> SUFFICES ASSUME Init PROVE Tidied
    OBVIOUS
<1>1. Following
    BY FollowingInit
<1>2. \A p \in Peers : ticks[p] = <<>> /\ \A n \in Names : state[p][n] = Fresh
    BY DEF Init
<1>3. HasSettled(Fresh)
    BY FreshIs DEF HasSettled
<1>4. \A p \in Peers, n \in Names : ~ Contains(ticks[p], RemoveTask(n))
    BY <1>2 DEF Contains
<1>5. \A p \in Peers : Leaving(ticks[p], state[p], links[p])
    BY <1>4, LeavingEmpty
<1>6. \A p \in Peers : Asked(ticks[p], state[p])
    BY <1>2, <1>3 DEF Asked
<1> QED BY <1>1, <1>5, <1>6 DEF Tidied, Tidy

\* A step, and what it removes.
RemovesClosed ==
    \A p \in Peers, n \in Names :
        n \in links[p] /\ n \notin links'[p] => IsClosed(state[p][n]) /\ HasSettled(state[p][n])

\* What a step of one peer leaves to the other.
LEMMA TidiedBoth ==
    ASSUME Tidied, Following', NEW p \in Peers, Alone(p), Tidy(p)'
    PROVE  Tidied'
<1>1. PICK o : o = Other(p)
    OBVIOUS
<1>2. /\ o \in Peers /\ links'[o] = links[o] /\ state'[o] = state[o] /\ ticks'[o] = ticks[o]
    BY <1>1, Others DEF Alone
<1>3. (Tidy(o))'
    BY <1>2 DEF Tidied, Tidy
<1>4. \A q \in Peers : q = p \/ q = o
    BY <1>1, Others
<1>5. \A q \in Peers : (Tidy(q))'
    BY <1>3, <1>4
<1> QED BY <1>5 DEF Tidied

LEMMA RemovesNothing ==
    ASSUME NEW p \in Peers, Alone(p), links[p] \subseteq links'[p]
    PROVE  RemovesClosed
<1>1. \A q \in Peers : links[q] \subseteq links'[q]
    BY Others DEF Alone
<1> QED BY <1>1 DEF RemovesClosed

LEMMA TidiedStep ==
    ASSUME "reopen" \notin Liberties, Tidied, [Next]_vars
    PROVE  Tidied' /\ RemovesClosed
<1>1. Following' /\ Typed
    BY FollowingStep DEF Tidied, Following
<1>2. CASE UNCHANGED vars
  <2>1. Tidied'
    BY <1>1, <1>2 DEF vars, Tidied, Tidy
  <2> QED BY <1>2, <2>1 DEF vars, RemovesClosed
<1>3. ASSUME NEW p \in Peers, NEW n \in Names, OpenLink(p, n) \/ CloseLink(p, n) \/ ReopenLink(p, n)
      PROVE  Tidied' /\ RemovesClosed
  <2>1. OpenLink(p, n) \/ CloseLink(p, n)
    BY <1>3 DEF ReopenLink
  <2>2. Alone(p)
    BY <1>1, <1>3, CallsAlone
  <2>3. Tidy(p)'
    BY <1>1, <2>1, TidyCalls DEF Tidied
  <2>4. links[p] \subseteq links'[p]
    <3>1. links' = [links EXCEPT ![p] = @ \cup {n}] \/ links' = links
        BY <2>1 DEF OpenLink, CloseLink
    <3> QED BY <1>1, <3>1 DEF Typed, TypeOK
  <2> QED BY <1>1, <2>2, <2>3, <2>4, TidiedBoth, RemovesNothing
<1>4. ASSUME NEW p \in Peers, Step(p)
      PROVE  Tidied' /\ RemovesClosed
  <2>1. Alone(p) /\ Tidy(p) /\ Waiting(p)
    BY <1>1, <1>4, StepsAlone DEF Tidied, Following
  <2>2. CASE RemoveTick(p)
    <3>1. /\ Tidy(p)'
          /\ \A n \in Names : n \in links[p] /\ n \notin links'[p]
                 => IsClosed(state[p][n]) /\ HasSettled(state[p][n])
        BY <1>1, <2>1, <2>2, TidyRemove
    <3>2. RemovesClosed
      <4>1. \A q \in Peers : q = p \/ links'[q] = links[q]
        BY <2>1, Others DEF Alone
      <4> QED BY <3>1, <4>1 DEF RemovesClosed
    <3> QED BY <1>1, <2>1, <3>1, <3>2, TidiedBoth
  <2>3. CASE ~ RemoveTick(p)
    <3>1. Tidy(p)'
        BY <1>1, <1>4, <2>1, <2>3, TidyAttach, TidyDetach, TidyProcess, TidyClose DEF Step
    <3>2. links[p] \subseteq links'[p]
      <4>1. CASE ReadAttach(p)
        <5>1. \/ links' = links
              \/ links' = [links EXCEPT ![p] = @ \cup {Head(wire[p]).name}]
            BY <4>1 DEF ReadAttach
        <5> QED BY <1>1, <5>1 DEF Typed, TypeOK
      <4>2. CASE ReadDetach(p) \/ ProcessTick(p) \/ CloseTick(p)
        BY <4>2 DEF ReadDetach, ProcessTick, CloseTick
      <4> QED BY <1>4, <2>3, <4>1, <4>2 DEF Step
    <3> QED BY <1>1, <2>1, <3>1, <3>2, TidiedBoth, RemovesNothing
  <2> QED BY <2>2, <2>3
<1> QED BY <1>2, <1>3, <1>4 DEF Next

\* As long as no application opens a link again that it has just closed, remove_link
\* forgets a link only when both sides have closed it and everything about it is written:
\* the tick that removes comes behind the _process that writes the detach.
THEOREM RemovedOnlyWhenClosed == "reopen" \notin Liberties => (Spec => RemovedWhenClosed)
<1>1. SUFFICES ASSUME "reopen" \notin Liberties
               PROVE  Spec => RemovedWhenClosed
    OBVIOUS
<1>2. Tidied /\ [Next]_vars => Tidied' /\ RemovesClosed
    BY <1>1, TidiedStep
<1>3. RemovesClosed <=>
          \A p \in Peers, n \in Names :
              n \in links[p] /\ n \notin links'[p]
                  => IsClosed(state[p][n]) /\ HasSettled(state[p][n])
    BY DEF RemovesClosed
<1> QED BY TidiedInit, <1>2, <1>3, PTL DEF Spec, RemovedWhenClosed

-----------------------------------------------------------------------------
(* Attach and detach in turn.                                               *)

\* The frames about one link that a peer writes are an attach, a detach, an attach, and so
\* on.  Count them, and the odd ones are the attaches.
Odd(x) == x % 2 = 1

\* Reading f takes the count of the frames about n from x to z.
Passes(f, n, x, z) ==
    IF f.name = n THEN z = x + 1 /\ (f.type = "attach" <=> Odd(z)) ELSE z = x

\* The frames of w about n are those that take the count from x to y.
Numbered(w, n, x, y) ==
    \E at \in [0..Len(w) -> 0..y] :
        /\ at[0] = x /\ at[Len(w)] = y
        /\ \A i \in 1..Len(w) : Passes(w[i], n, at[i - 1], at[i])

LEMMA OddNext ==
    ASSUME NEW x \in Nat
    PROVE  Odd(x + 1) <=> ~ Odd(x)
BY DEF Odd

LEMMA NumberedIs ==
    ASSUME NEW w \in Seq(Frames), NEW n, NEW x \in Nat, NEW y \in Int, Numbered(w, n, x, y)
    PROVE  /\ y \in Nat /\ x <= y
           /\ w = <<>> => x = y
<1>1. PICK at \in [0..Len(w) -> 0..y] : at[0] = x /\ at[Len(w)] = y
    BY DEF Numbered
<1>2. Len(w) \in Nat
    OBVIOUS
<1>3. x \in 0..y
    BY <1>1, <1>2
<1>4. w = <<>> => Len(w) = 0
    OBVIOUS
<1> QED BY <1>1, <1>3, <1>4

LEMMA NumberedNone ==
    ASSUME NEW w \in Seq(Frames), NEW n, \A i \in 1..Len(w) : w[i].name # n, NEW x \in Nat
    PROVE  Numbered(w, n, x, x)
<1> DEFINE at == [i \in 0..Len(w) |-> x]
<1>1. Len(w) \in Nat
    OBVIOUS
<1>2. at \in [0..Len(w) -> 0..x] /\ at[0] = x /\ at[Len(w)] = x
    BY <1>1
<1>3. \A i \in 1..Len(w) : at[i - 1] = x /\ at[i] = x
    BY <1>1
<1>4. \A i \in 1..Len(w) : Passes(w[i], n, at[i - 1], at[i])
    BY <1>3 DEF Passes
<1> HIDE DEF at
<1> QED BY <1>2, <1>4 DEF Numbered

\* One frame less.
LEMMA NumberedTail ==
    ASSUME NEW w \in Seq(Frames), w # <<>>, NEW n, NEW x \in Nat, NEW y \in Nat,
           Numbered(w, n, x, y)
    PROVE  \E z \in 0..y : Passes(w[1], n, x, z) /\ Numbered(Tail(w), n, z, y)
<1>1. PICK at \in [0..Len(w) -> 0..y] :
          /\ at[0] = x /\ at[Len(w)] = y
          /\ \A i \in 1..Len(w) : Passes(w[i], n, at[i - 1], at[i])
    BY DEF Numbered
<1>2. /\ Len(Tail(w)) = Len(w) - 1 /\ Len(w) \in Nat \ {0}
      /\ \A i \in 1..Len(Tail(w)) : Tail(w)[i] = w[i + 1]
    BY TailIs
<1>3. at[1] \in 0..y /\ Passes(w[1], n, x, at[1])
  <2>1. 1 \in 1..Len(w) /\ 1 \in 0..Len(w) /\ 1 - 1 = 0
    BY <1>2
  <2> QED BY <1>1, <2>1
<1> DEFINE later == [i \in 0..Len(Tail(w)) |-> at[i + 1]]
<1>4. later \in [0..Len(Tail(w)) -> 0..y]
  <2>1. \A i \in 0..Len(Tail(w)) : i + 1 \in 0..Len(w)
    BY <1>2
  <2> QED BY <1>1, <2>1
<1>5. later[0] = at[1] /\ later[Len(Tail(w))] = y
    BY <1>1, <1>2
<1>6. \A i \in 1..Len(Tail(w)) : Passes(Tail(w)[i], n, later[i - 1], later[i])
  <2>1. SUFFICES ASSUME NEW i \in 1..Len(Tail(w))
                 PROVE  Passes(Tail(w)[i], n, later[i - 1], later[i])
    OBVIOUS
  <2>2. i + 1 \in 1..Len(w) /\ (i + 1) - 1 = i /\ i \in 0..Len(Tail(w)) /\ i - 1 \in 0..Len(Tail(w))
        /\ (i - 1) + 1 = i
    BY <1>2
  <2>3. Passes(w[i + 1], n, at[i], at[i + 1])
    BY <1>1, <2>2
  <2> QED BY <1>2, <2>2, <2>3
<1> HIDE DEF later
<1>7. Numbered(Tail(w), n, at[1], y)
    BY <1>4, <1>5, <1>6 DEF Numbered
<1> QED BY <1>3, <1>7

\* Frames behind frames.
LEMMA NumberedMore ==
    ASSUME NEW w \in Seq(Frames), NEW u \in Seq(Frames), NEW n,
           NEW x \in Nat, NEW y \in Nat, NEW z \in Nat, y <= z,
           Numbered(w, n, x, y), Numbered(u, n, y, z)
    PROVE  Numbered(w \o u, n, x, z)
<1>1. PICK at \in [0..Len(w) -> 0..y] :
          /\ at[0] = x /\ at[Len(w)] = y
          /\ \A i \in 1..Len(w) : Passes(w[i], n, at[i - 1], at[i])
    BY DEF Numbered
<1>2. PICK on \in [0..Len(u) -> 0..z] :
          /\ on[0] = y /\ on[Len(u)] = z
          /\ \A i \in 1..Len(u) : Passes(u[i], n, on[i - 1], on[i])
    BY DEF Numbered
<1>3. PICK v, l, m : v = w \o u /\ l = Len(w) /\ m = Len(u)
    OBVIOUS
<1>4. /\ l \in Nat /\ m \in Nat /\ Len(v) = l + m
      /\ \A i \in 1..l : v[i] = w[i]
      /\ \A i \in 1..m : v[l + i] = u[i]
    BY <1>3, LongerIs
<1> DEFINE all == [i \in 0..(l + m) |-> IF i <= l THEN at[i] ELSE on[i - l]]
<1>5. all \in [0..(l + m) -> 0..z]
  <2>1. \A i \in 0..l : at[i] \in 0..z
    BY <1>1, <1>3, <1>4
  <2>2. \A i \in 0..(l + m) : IF i <= l THEN i \in 0..l ELSE i - l \in 0..m
    BY <1>4
  <2>3. \A i \in 0..m : on[i] \in 0..z
    BY <1>2, <1>3
  <2> QED BY <2>1, <2>2, <2>3
<1>6. /\ \A i \in 0..l : all[i] = at[i]
      /\ \A i \in 0..m : all[l + i] = on[i]
  <2>1. \A i \in 0..l : all[i] = at[i]
    BY <1>4
  <2>2. ASSUME NEW i \in 0..m
        PROVE  all[l + i] = on[i]
    <3>1. l + i \in 0..(l + m) /\ (l + i) - l = i /\ (l + i <= l => i = 0)
        BY <1>4
    <3>2. at[l] = on[0] /\ l + 0 = l
        BY <1>1, <1>2, <1>3, <1>4
    <3>3. CASE i = 0
        BY <1>4, <3>1, <3>2, <3>3
    <3>4. CASE i # 0
        BY <1>4, <3>1, <3>4
    <3> QED BY <3>3, <3>4
  <2> QED BY <2>1, <2>2
<1> HIDE DEF all
<1>7. all[0] = x /\ all[l + m] = z
  <2>1. 0 \in 0..l /\ m \in 0..m
    BY <1>4
  <2> QED BY <1>1, <1>2, <1>3, <1>6, <2>1
<1>8. \A i \in 1..(l + m) : Passes(v[i], n, all[i - 1], all[i])
  <2>1. SUFFICES ASSUME NEW i \in 1..(l + m)
                 PROVE  Passes(v[i], n, all[i - 1], all[i])
    OBVIOUS
  <2>2. CASE i <= l
    <3>1. i \in 1..l /\ i \in 0..l /\ i - 1 \in 0..l
        BY <1>4, <2>2
    <3> QED BY <1>1, <1>3, <1>4, <1>6, <3>1
  <2>3. CASE ~ (i <= l)
    <3>1. PICK j : j = i - l
        OBVIOUS
    <3>2. j \in 1..m /\ j \in 0..m /\ j - 1 \in 0..m /\ i = l + j /\ i - 1 = l + (j - 1)
        BY <1>4, <2>3, <3>1
    <3>3. Passes(u[j], n, on[j - 1], on[j])
        BY <1>2, <1>3, <3>2
    <3>4. v[i] = u[j] /\ all[i] = on[j] /\ all[i - 1] = on[j - 1]
        BY <1>4, <1>6, <3>2
    <3> QED BY <3>3, <3>4
  <2> QED BY <2>2, <2>3
<1>9. Len(v) = l + m
    BY <1>4
<1> QED BY <1>3, <1>5, <1>7, <1>8, <1>9 DEF Numbered

LEMMA NumberedOne ==
    ASSUME NEW w \in Seq(Frames), NEW n, NEW k \in 1..Len(w),
           \A i \in 1..Len(w) : w[i].name = n <=> i = k,
           NEW x \in Nat, w[k].type = "attach" <=> Odd(x + 1)
    PROVE  Numbered(w, n, x, x + 1)
<1> DEFINE at == [i \in 0..Len(w) |-> IF i < k THEN x ELSE x + 1]
<1>1. Len(w) \in Nat
    OBVIOUS
<1>2. at \in [0..Len(w) -> 0..(x + 1)] /\ at[0] = x /\ at[Len(w)] = x + 1
    BY <1>1
<1>3. \A i \in 1..Len(w) : /\ at[i] = IF i < k THEN x ELSE x + 1
                           /\ at[i - 1] = IF i <= k THEN x ELSE x + 1
    BY <1>1
<1> HIDE DEF at
<1>4. \A i \in 1..Len(w) : Passes(w[i], n, at[i - 1], at[i])
    BY <1>3 DEF Passes
<1> QED BY <1>2, <1>4 DEF Numbered

LEMMA NumberedTwo ==
    ASSUME NEW w \in Seq(Frames), NEW n, NEW k \in 1..Len(w), NEW l \in 1..Len(w), k < l,
           \A i \in 1..Len(w) : w[i].name = n <=> i = k \/ i = l,
           NEW x \in Nat, w[k].type = "attach", w[l].type # "attach", Odd(x + 1)
    PROVE  Numbered(w, n, x, x + 2)
<1> DEFINE at == [i \in 0..Len(w) |-> IF i < k THEN x ELSE IF i < l THEN x + 1 ELSE x + 2]
<1>1. Len(w) \in Nat
    OBVIOUS
<1>2. at \in [0..Len(w) -> 0..(x + 2)] /\ at[0] = x /\ at[Len(w)] = x + 2
    BY <1>1
<1>3. \A i \in 1..Len(w) :
          /\ at[i] = IF i < k THEN x ELSE IF i < l THEN x + 1 ELSE x + 2
          /\ at[i - 1] = IF i <= k THEN x ELSE IF i <= l THEN x + 1 ELSE x + 2
    BY <1>1
<1> HIDE DEF at
<1>4. ~ Odd(x + 2)
  <2>1. (x + 1) \in Nat /\ (x + 1) + 1 = x + 2
    OBVIOUS
  <2>2. Odd((x + 1) + 1) <=> ~ Odd(x + 1)
    BY <2>1, OddNext
  <2> QED BY <2>1, <2>2
<1>5. \A i \in 1..Len(w) : Passes(w[i], n, at[i - 1], at[i])
  <2>1. SUFFICES ASSUME NEW i \in 1..Len(w)
                 PROVE  Passes(w[i], n, at[i - 1], at[i])
    OBVIOUS
  <2>2. x + 2 = (x + 1) + 1
    OBVIOUS
  <2>3. CASE i = k
    <3>1. at[i - 1] = x /\ at[i] = x + 1 /\ w[i].name = n
        BY <1>3, <2>3
    <3> QED BY <2>3, <3>1 DEF Passes
  <2>4. CASE i = l
    <3>1. at[i - 1] = x + 1 /\ at[i] = x + 2 /\ w[i].name = n
        BY <1>3, <2>4
    <3> QED BY <1>4, <2>2, <2>4, <3>1 DEF Passes
  <2>5. CASE i # k /\ i # l
    <3>1. at[i - 1] = at[i] /\ w[i].name # n
        BY <1>3, <2>5
    <3> QED BY <3>1 DEF Passes
  <2> QED BY <2>3, <2>4, <2>5
<1> QED BY <1>2, <1>5 DEF Numbered

-----------------------------------------------------------------------------
(* What a peer has asked for, and what it has read.                         *)

Due(e) == e.open_requests + e.close_requests

\* An end that has asked for a frames about its link, and has read r.
Counted(e, a, r) ==
    /\ e.local_open <=> Odd(a)
    /\ e.remote_open <=> Odd(r)
    /\ a <= r + 1 /\ r <= a + 1
    /\ r = a + 1 <=> e.local_open /\ e.marker # 0
    /\ e.open_requests <= 1 /\ e.close_requests <= 1
    /\ e.close_requests = 1 => ~ e.local_open
    /\ e.open_requests = 1 /\ e.close_requests = 0 => e.local_open

\* The frames of a batch about n, by their places.
LEMMA BatchPlaces ==
    ASSUME Typed, NEW p \in Peers, NEW requests, NEW u, IsBatch(p, requests, u),
           NEW n \in Names, NEW e, e = state[p][n]
    PROVE  /\ Due(e) = 0 => \A j \in 1..Len(u) : u[j].name # n
           /\ Due(e) = 1 => \E k \in 1..Len(u) :
                  /\ \A j \in 1..Len(u) : u[j].name = n <=> j = k
                  /\ u[k].type = FrameType(e, 1)
           /\ Due(e) = 2 => \E k, l \in 1..Len(u) :
                  /\ k < l /\ \A j \in 1..Len(u) : u[j].name = n <=> j = k \/ j = l
                  /\ u[k].type = FrameType(e, 1) /\ u[l].type = FrameType(e, 2)
<1>1. PICK due : due = Due(e)
    OBVIOUS
<1>2. /\ Len(u) \in Nat
      /\ \A j \in 1..Len(u) : u[j].name = n =>
             /\ n \in links[p] /\ requests[j].index \in 1..due
             /\ u[j].type = FrameType(e, requests[j].index)
    BY <1>1, BatchFrames DEF Due
<1>3. CASE n \notin links[p]
  <2>1. e = Fresh
    BY <1>3 DEF Typed, Named
  <2>2. Due(e) = 0
    BY <2>1, FreshIs DEF Due
  <2> QED BY <1>2, <1>3, <2>2
<1>4. CASE n \in links[p]
  <2>1. due = state[p][n].open_requests + state[p][n].close_requests
    BY <1>1 DEF Due
  <2>2. /\ \A j \in 1..Len(u) : u[j].name = n /\ requests[j].index = 1
             => \A l \in 1..(j - 1) : u[l].name # n
        /\ \A x \in 1..due : \E i \in 1..Len(u) : u[i].name = n /\ requests[i].index = x
        /\ \A i \in 1..Len(u) : u[i].name = n /\ requests[i].index = due
               => \A l \in (i + 1)..Len(u) : u[l].name # n
    BY <1>4, <2>1, BatchOrder
  <2>3. \A j \in 1..Len(u) : u[j].name = n /\ requests[j].index > 1
             => \E i \in 1..(j - 1) :
                    /\ u[i].name = n /\ requests[i].index = requests[j].index - 1
                    /\ \A l \in (i + 1)..(j - 1) : u[l].name # n
    BY <1>4, <2>1, BatchOrder
  <2>4. CASE due = 0
    <3>1. \A j \in 1..Len(u) : u[j].name # n
        BY <1>2, <2>4
    <3> QED BY <1>1, <2>4, <3>1
  <2>5. CASE due = 1
    <3>1. 1 \in 1..due
        BY <2>5
    <3>2. PICK k \in 1..Len(u) : u[k].name = n /\ requests[k].index = 1
        BY <2>2, <3>1
    <3>3. \A j \in 1..Len(u) : u[j].name = n => j = k
      <4>1. SUFFICES ASSUME NEW j \in 1..Len(u), u[j].name = n, j # k
                     PROVE  FALSE
        OBVIOUS
      <4>2. j \in 1..(k - 1) \/ j \in (k + 1)..Len(u)
        BY <1>2, <4>1
      <4> QED BY <2>2, <2>5, <3>2, <4>1, <4>2
    <3> QED BY <1>1, <1>2, <2>5, <3>2, <3>3
  <2>6. CASE due = 2
    <3>1. 2 \in 1..due
        BY <2>6
    <3>2. PICK l \in 1..Len(u) : u[l].name = n /\ requests[l].index = 2
        BY <2>2, <3>1
    <3>3. PICK k \in 1..(l - 1) : /\ u[k].name = n /\ requests[k].index = 1
                                  /\ \A j \in (k + 1)..(l - 1) : u[j].name # n
        BY <2>3, <3>2
    <3>4. k \in 1..Len(u) /\ k < l
        BY <1>2, <3>3
    <3>5. \A j \in 1..Len(u) : u[j].name = n => j = k \/ j = l
      <4>1. SUFFICES ASSUME NEW j \in 1..Len(u), u[j].name = n, j # k, j # l
                     PROVE  FALSE
        OBVIOUS
      <4>2. j \in 1..(k - 1) \/ j \in (k + 1)..(l - 1) \/ j \in (l + 1)..Len(u)
        BY <1>2, <3>4, <4>1
      <4> QED BY <2>2, <2>6, <3>2, <3>3, <3>4, <4>1, <4>2
    <3>6. \A j \in 1..Len(u) : u[j].name = n <=> j = k \/ j = l
        BY <3>1, <3>2, <3>3, <3>4, <3>5
    <3>7. u[k].type = FrameType(e, 1) /\ u[l].type = FrameType(e, 2)
        BY <1>2, <3>2, <3>3, <3>4
    <3> QED BY <1>1, <2>6, <3>4, <3>6, <3>7
  <2>7. CASE due \notin {0, 1, 2}
    BY <1>1, <2>7
  <2> QED BY <2>4, <2>5, <2>6, <2>7
<1> QED BY <1>3, <1>4

LEMMA DueTypes ==
    ASSUME NEW e \in EndpointStates, e.open_requests <= 1, e.close_requests <= 1
    PROVE  /\ Due(e) \in {0, 1, 2}
           /\ Due(e) = 1 => FrameType(e, 1) = IF e.open_requests = 1 THEN "attach" ELSE "detach"
           /\ Due(e) = 2 => /\ e.open_requests = 1 /\ e.close_requests = 1
                            /\ FrameType(e, 1) = "attach" /\ FrameType(e, 2) = "detach"
<1>1. PICK o, c : o = e.open_requests /\ c = e.close_requests
    OBVIOUS
<1>2. o \in {0, 1} /\ c \in {0, 1} /\ Due(e) = o + c
    BY <1>1 DEF EndpointStates, Due
<1>3. CASE o = 1 /\ c = 1
    BY <1>1, <1>2, <1>3 DEF FrameType
<1>4. CASE ~ (o = 1 /\ c = 1)
  <2>1. Due(e) # 2
    BY <1>2, <1>4
  <2>2. Due(e) = 1 => 1 \in 1..(e.open_requests + e.close_requests)
    BY <1>1, <1>2
  <2>3. /\ o >= 1 => FrameType(e, 1) = "attach"
        /\ Due(e) = 1 /\ o = 0 => FrameType(e, 1) = "detach"
    BY <1>1, <1>2, <2>2, FrameTypes DEF FrameType
  <2> QED BY <1>1, <1>2, <2>1, <2>3
<1> QED BY <1>3, <1>4

LEMMA BatchNumbered ==
    ASSUME Typed, NEW p \in Peers, NEW requests, NEW u, IsBatch(p, requests, u),
           NEW n \in Names, NEW e, e = state[p][n], NEW a \in Nat, NEW r \in Nat,
           Counted(e, a, r), NEW y \in Nat, y = a - Due(e)
    PROVE  Numbered(u, n, y, a)
<1>1. e \in EndpointStates /\ u \in Seq(Frames)
    BY TypesAre, BatchFrames
<1>2. /\ Due(e) \in {0, 1, 2}
      /\ Due(e) = 1 => FrameType(e, 1) = IF e.open_requests = 1 THEN "attach" ELSE "detach"
      /\ Due(e) = 2 => /\ e.open_requests = 1 /\ e.close_requests = 1
                       /\ FrameType(e, 1) = "attach" /\ FrameType(e, 2) = "detach"
    BY <1>1, DueTypes DEF Counted
<1>3. CASE Due(e) = 0
  <2>1. y = a /\ \A j \in 1..Len(u) : u[j].name # n
    BY <1>3, BatchPlaces
  <2> QED BY <1>1, <2>1, NumberedNone
<1>4. CASE Due(e) = 1
  <2>1. PICK k \in 1..Len(u) : /\ \A j \in 1..Len(u) : u[j].name = n <=> j = k
                               /\ u[k].type = FrameType(e, 1)
    BY <1>4, BatchPlaces
  <2>2. a = y + 1
    BY <1>4
  <2>3. e.open_requests = 1 <=> Odd(a)
    <3>1. PICK o, c : o = e.open_requests /\ c = e.close_requests
        OBVIOUS
    <3>2. o \in Nat /\ c \in Nat /\ o + c = 1
        BY <1>1, <1>4, <3>1 DEF EndpointStates, Due
    <3>3. (o = 1 /\ c = 0) \/ (o = 0 /\ c = 1)
        BY <3>2
    <3>4. e.local_open <=> Odd(a)
        BY DEF Counted
    <3>5. o = 1 /\ c = 0 => e.local_open
        BY <3>1 DEF Counted
    <3>6. c = 1 => ~ e.local_open
        BY <3>1 DEF Counted
    <3> QED BY <3>1, <3>3, <3>4, <3>5, <3>6
  <2>4. u[k].type = "attach" <=> Odd(y + 1)
    BY <1>2, <1>4, <2>1, <2>2, <2>3
  <2> QED BY <1>1, <2>1, <2>2, <2>4, NumberedOne
<1>5. CASE Due(e) = 2
  <2>1. PICK k, l \in 1..Len(u) :
            /\ k < l /\ \A j \in 1..Len(u) : u[j].name = n <=> j = k \/ j = l
            /\ u[k].type = FrameType(e, 1) /\ u[l].type = FrameType(e, 2)
    BY <1>5, BatchPlaces
  <2>2. a = y + 2 /\ a = (y + 1) + 1
    BY <1>5
  <2>3. ~ Odd(a)
    BY <1>2, <1>5 DEF Counted
  <2>4. Odd(y + 1)
    BY <2>2, <2>3, OddNext
  <2>5. u[k].type = "attach" /\ u[l].type # "attach"
    BY <1>2, <1>5, <2>1
  <2> QED BY <1>1, <2>1, <2>2, <2>4, <2>5, NumberedTwo
<1> QED BY <1>2, <1>3, <1>4, <1>5

-----------------------------------------------------------------------------
(* The two ends of one link: e with the frames v on their way to it, d with *)
(* the frames w.  Each has read what the other has asked for, but for the   *)
(* frames on the way and those that are still due.                          *)

InPhase(n, e, v, d, w) ==
    \E a, r, b, s \in Nat :
        /\ Counted(e, a, r) /\ Counted(d, b, s)
        /\ Numbered(v, n, r, b - Due(d)) /\ Numbered(w, n, s, a - Due(e))

LEMMA PhaseTurned ==
    ASSUME NEW n, NEW e, NEW d, NEW v, NEW w, InPhase(n, e, v, d, w)
    PROVE  InPhase(n, d, w, e, v)
BY DEF InPhase

LEMMA PhaseOpened ==
    ASSUME NEW n, NEW d, NEW v, NEW w, InPhase(n, Fresh, v, d, w)
    PROVE  InPhase(n, Open(Fresh), v, d, w)
<1>1. PICK a, r, b, s \in Nat :
          /\ Counted(Fresh, a, r) /\ Counted(d, b, s)
          /\ Numbered(v, n, r, b - Due(d)) /\ Numbered(w, n, s, a - Due(Fresh))
    BY DEF InPhase
<1>2. PICK e : e = Open(Fresh)
    OBVIOUS
<1>3. /\ Fresh \in EndpointStates /\ ~ Fresh.local_open /\ ~ Fresh.remote_open
      /\ Fresh.open_requests = 0 /\ Fresh.close_requests = 0
    BY FreshIs
<1>4. /\ e.local_open /\ e.marker = 0 /\ ~ e.remote_open
      /\ e.open_requests = 1 /\ e.close_requests = 0
    BY <1>2, <1>3, OpenIs
<1>5. ~ Odd(a) /\ ~ Odd(r) /\ a <= r + 1 /\ r <= a + 1
    BY <1>1, <1>3 DEF Counted
<1>6. a = r
    BY <1>5 DEF Odd
<1>7. a + 1 \in Nat /\ Odd(a + 1)
    BY <1>5, OddNext
<1>8. Counted(e, a + 1, r)
    BY <1>4, <1>5, <1>6, <1>7 DEF Counted
<1>9. Due(Fresh) = 0 /\ Due(e) = 1 /\ (a + 1) - Due(e) = a - Due(Fresh)
    BY <1>3, <1>4 DEF Due
<1> QED BY <1>1, <1>2, <1>7, <1>8, <1>9 DEF InPhase

\* A close of an end that both sides have opened, or that the peer has closed.
LEMMA PhaseClosed ==
    ASSUME NEW n, NEW e \in EndpointStates, NEW d, NEW v, NEW w, InPhase(n, e, v, d, w),
           e.local_open => e.remote_open \/ e.marker # 0
    PROVE  InPhase(n, Close(e), v, d, w)
<1>1. PICK a, r, b, s \in Nat :
          /\ Counted(e, a, r) /\ Counted(d, b, s)
          /\ Numbered(v, n, r, b - Due(d)) /\ Numbered(w, n, s, a - Due(e))
    BY DEF InPhase
<1>2. PICK c : c = Close(e)
    OBVIOUS
<1>3. /\ ~ c.local_open /\ c.marker = 0 /\ c.remote_open = e.remote_open
      /\ c.open_requests = e.open_requests
      /\ c.close_requests = e.close_requests + (IF e.local_open THEN 1 ELSE 0)
    BY <1>2, CloseIs
<1>4. /\ e.open_requests \in Nat /\ e.close_requests \in Nat
    BY DEF EndpointStates
<1>5. /\ e.local_open <=> Odd(a)
      /\ e.remote_open <=> Odd(r)
      /\ a <= r + 1 /\ r <= a + 1
      /\ (r = a + 1) <=> (e.local_open /\ e.marker # 0)
    BY <1>1 DEF Counted
<1>6. /\ e.open_requests <= 1 /\ e.close_requests <= 1
      /\ e.close_requests = 1 => ~ e.local_open
      /\ e.open_requests = 1 /\ e.close_requests = 0 => e.local_open
    BY <1>1 DEF Counted
<1>7. CASE e.local_open
  <2>1. a = r \/ r = a + 1
    <3>1. r = a + 1 \/ e.remote_open
        BY <1>5, <1>7
    <3>2. e.remote_open => a = r
        BY <1>5, <1>7 DEF Odd
    <3> QED BY <3>1, <3>2
  <2>2. a + 1 \in Nat /\ ~ Odd(a + 1)
    BY <1>5, <1>7, OddNext
  <2>3. e.close_requests = 0 /\ c.close_requests = 1
    BY <1>3, <1>4, <1>6, <1>7
  <2>4. Counted(c, a + 1, r)
    <3>1. a + 1 <= r + 1 /\ r <= (a + 1) + 1 /\ r # (a + 1) + 1
        BY <2>1
    <3> QED BY <1>3, <1>5, <1>6, <2>2, <2>3, <3>1 DEF Counted
  <2>5. (a + 1) - Due(c) = a - Due(e)
    BY <1>3, <1>4, <2>3 DEF Due
  <2> QED BY <1>1, <1>2, <2>2, <2>4, <2>5 DEF InPhase
<1>8. CASE ~ e.local_open
  <2>1. c.close_requests = e.close_requests
    BY <1>3, <1>4, <1>8
  <2>2. Counted(c, a, r)
    BY <1>3, <1>5, <1>6, <1>8, <2>1 DEF Counted
  <2>3. Due(c) = Due(e)
    BY <1>3, <2>1 DEF Due
  <2> QED BY <1>1, <1>2, <2>2, <2>3 DEF InPhase
<1> QED BY <1>7, <1>8

\* The head of the frames on their way to e is about another link.
LEMMA PhaseTail ==
    ASSUME NEW n, NEW e \in EndpointStates, NEW d \in EndpointStates, NEW v \in Seq(Frames), NEW w,
           InPhase(n, e, v, d, w), v # <<>>, v[1].name # n
    PROVE  InPhase(n, e, Tail(v), d, w)
<1>1. PICK a, r, b, s \in Nat :
          /\ Counted(e, a, r) /\ Counted(d, b, s)
          /\ Numbered(v, n, r, b - Due(d)) /\ Numbered(w, n, s, a - Due(e))
    BY DEF InPhase
<1>2. PICK y : y = b - Due(d)
    OBVIOUS
<1>3. Due(d) \in Nat
    BY DEF Due, EndpointStates
<1>4. y \in Nat
    BY <1>1, <1>2, <1>3, NumberedIs
<1>5. PICK z \in 0..y : Passes(v[1], n, r, z) /\ Numbered(Tail(v), n, z, y)
    BY <1>1, <1>2, <1>4, NumberedTail
<1>6. z = r
    BY <1>5 DEF Passes
<1> QED BY <1>1, <1>2, <1>5, <1>6 DEF InPhase

\* It is about this one, and the two counts bound each other.
LEMMA PhaseHead ==
    ASSUME NEW n, NEW e \in EndpointStates, NEW d \in EndpointStates,
           NEW v \in Seq(Frames), NEW w \in Seq(Frames),
           InPhase(n, e, v, d, w), v # <<>>, v[1].name = n
    PROVE  \E a, r, b, s \in Nat :
               /\ Counted(e, a, r) /\ Counted(d, b, s)
               /\ Numbered(Tail(v), n, r + 1, b - Due(d)) /\ Numbered(w, n, s, a - Due(e))
               /\ IsAttach(v, 1) <=> Odd(r + 1)
               /\ r <= a - Due(e)
<1>1. PICK a, r, b, s \in Nat :
          /\ Counted(e, a, r) /\ Counted(d, b, s)
          /\ Numbered(v, n, r, b - Due(d)) /\ Numbered(w, n, s, a - Due(e))
    BY DEF InPhase
<1>2. PICK y, x : y = b - Due(d) /\ x = a - Due(e)
    OBVIOUS
<1>3. Due(d) \in Nat /\ Due(e) \in Nat
    BY DEF Due, EndpointStates
<1>4. y \in Nat /\ x \in Nat /\ s <= x
    BY <1>1, <1>2, <1>3, NumberedIs
<1>5. PICK z \in 0..y : Passes(v[1], n, r, z) /\ Numbered(Tail(v), n, z, y)
    BY <1>1, <1>2, <1>4, NumberedTail
<1>6. z = r + 1 /\ (v[1].type = "attach" <=> Odd(r + 1))
    BY <1>5 DEF Passes
<1>7. b <= s + 1
    BY <1>1 DEF Counted
<1>8. r + 1 <= y /\ y <= b
    BY <1>2, <1>3, <1>5, <1>6
<1>9. r <= x
    BY <1>4, <1>7, <1>8
<1> QED BY <1>1, <1>2, <1>5, <1>6, <1>9 DEF IsAttach

\* An attach finds an end that the peer has not opened.
LEMMA PhaseAttached ==
    ASSUME NEW n, NEW e \in EndpointStates, NEW d \in EndpointStates,
           NEW v \in Seq(Frames), NEW w \in Seq(Frames),
           InPhase(n, e, v, d, w), v # <<>>, v[1].name = n, IsAttach(v, 1)
    PROVE  ~ e.remote_open /\ InPhase(n, Attached(e), Tail(v), d, w)
<1>1. PICK a, r, b, s \in Nat :
          /\ Counted(e, a, r) /\ Counted(d, b, s)
          /\ Numbered(Tail(v), n, r + 1, b - Due(d)) /\ Numbered(w, n, s, a - Due(e))
          /\ IsAttach(v, 1) <=> Odd(r + 1)
          /\ r <= a - Due(e)
    BY PhaseHead
<1>2. ~ Odd(r) /\ Odd(r + 1) /\ r + 1 \in Nat
    BY <1>1, OddNext
<1>3. /\ e.local_open <=> Odd(a)
      /\ e.remote_open <=> Odd(r)
      /\ a <= r + 1 /\ r <= a + 1
      /\ (r = a + 1) <=> (e.local_open /\ e.marker # 0)
    BY <1>1 DEF Counted
<1>4. /\ e.open_requests <= 1 /\ e.close_requests <= 1
      /\ e.close_requests = 1 => ~ e.local_open
      /\ e.open_requests = 1 /\ e.close_requests = 0 => e.local_open
    BY <1>1 DEF Counted
<1>5. ~ e.remote_open
    BY <1>2, <1>3
<1>6. PICK c : c = Attached(e)
    OBVIOUS
<1>7. /\ c.local_open /\ c.marker = 0 /\ c.remote_open
      /\ c.close_requests = e.close_requests
      /\ c.open_requests = e.open_requests + (IF e.local_open THEN 0 ELSE 1)
    BY <1>6, AttachedIs
<1>8. e.open_requests \in Nat /\ e.close_requests \in Nat /\ Due(e) \in Nat
    BY DEF EndpointStates, Due
<1>9. r <= a
    BY <1>1, <1>8
<1>10. CASE e.local_open
  <2>1. a = r + 1
    BY <1>2, <1>3, <1>9, <1>10
  <2>2. c.open_requests = e.open_requests
    BY <1>7, <1>8, <1>10
  <2>3. Counted(c, a, r + 1)
    <3>1. a <= (r + 1) + 1 /\ r + 1 <= a + 1 /\ r + 1 # a + 1
        BY <2>1
    <3> QED BY <1>2, <1>3, <1>4, <1>7, <1>10, <2>2, <3>1 DEF Counted
  <2>4. Due(c) = Due(e)
    BY <1>7, <2>2 DEF Due
  <2> QED BY <1>1, <1>2, <1>5, <1>6, <2>3, <2>4 DEF InPhase
<1>11. CASE ~ e.local_open
  <2>1. ~ Odd(a)
    BY <1>3, <1>11
  <2>2. a = r
    BY <1>2, <1>3, <1>9, <2>1
  <2>3. Due(e) = 0
    BY <1>1, <1>8, <2>2
  <2>4. e.open_requests = 0 /\ e.close_requests = 0
    BY <1>8, <2>3 DEF Due
  <2>5. c.open_requests = 1 /\ c.close_requests = 0
    BY <1>7, <1>11, <2>4
  <2>6. Counted(c, a + 1, r + 1)
    BY <1>2, <1>7, <2>2, <2>5 DEF Counted
  <2>7. (a + 1) - Due(c) = a - Due(e) /\ a + 1 \in Nat
    BY <2>4, <2>5 DEF Due
  <2> QED BY <1>1, <1>2, <1>5, <1>6, <2>6, <2>7 DEF InPhase
<1> QED BY <1>10, <1>11

LEMMA PhaseDetached ==
    ASSUME NEW n, NEW e \in EndpointStates, NEW d \in EndpointStates,
           NEW v \in Seq(Frames), NEW w \in Seq(Frames),
           InPhase(n, e, v, d, w), v # <<>>, v[1].name = n, ~ IsAttach(v, 1),
           NEW t \in Nat \ {0}
    PROVE  InPhase(n, Mark(RemoteClosed(e), t), Tail(v), d, w)
<1>1. PICK a, r, b, s \in Nat :
          /\ Counted(e, a, r) /\ Counted(d, b, s)
          /\ Numbered(Tail(v), n, r + 1, b - Due(d)) /\ Numbered(w, n, s, a - Due(e))
          /\ IsAttach(v, 1) <=> Odd(r + 1)
          /\ r <= a - Due(e)
    BY PhaseHead
<1>2. Odd(r) /\ ~ Odd(r + 1) /\ r + 1 \in Nat
    BY <1>1, OddNext
<1>3. /\ e.local_open <=> Odd(a)
      /\ a <= r + 1 /\ r <= a + 1
    BY <1>1 DEF Counted
<1>4. /\ e.open_requests <= 1 /\ e.close_requests <= 1
      /\ e.close_requests = 1 => ~ e.local_open
      /\ e.open_requests = 1 /\ e.close_requests = 0 => e.local_open
    BY <1>1 DEF Counted
<1>5. PICK c : c = Mark(RemoteClosed(e), t)
    OBVIOUS
<1>6. /\ c.local_open = e.local_open /\ c.marker = t /\ ~ c.remote_open
      /\ c.open_requests = e.open_requests /\ c.close_requests = e.close_requests
    BY <1>5, DetachedIs
<1>7. Due(e) \in Nat
    BY DEF EndpointStates, Due
<1>8. r <= a
    BY <1>1, <1>7
<1>9. IF e.local_open THEN a = r ELSE a = r + 1
  <2>1. a = r \/ a = r + 1
    BY <1>3, <1>8
  <2> QED BY <1>2, <1>3, <2>1
<1>10. Counted(c, a, r + 1)
  <2>1. a <= (r + 1) + 1 /\ r + 1 <= a + 1
    BY <1>3, <1>8
  <2>2. r + 1 = a + 1 <=> e.local_open
    BY <1>9
  <2>3. (r + 1 = a + 1) <=> (c.local_open /\ c.marker # 0)
    BY <1>6, <2>2
  <2> QED BY <1>2, <1>3, <1>4, <1>6, <2>1, <2>3 DEF Counted
<1>11. Due(c) = Due(e)
    BY <1>6 DEF Due
<1> QED BY <1>1, <1>2, <1>5, <1>10, <1>11 DEF InPhase

\* The requests are written, and the frames join those on their way to d.
LEMMA PhaseBatch ==
    ASSUME Typed, NEW p \in Peers, NEW requests, NEW u, IsBatch(p, requests, u),
           NEW n \in Names, NEW e, e = state[p][n], NEW d,
           NEW v, NEW w \in Seq(Frames), InPhase(n, e, v, d, w)
    PROVE  InPhase(n, Settled(e), v, d, w \o u)
<1>1. PICK a, r, b, s \in Nat :
          /\ Counted(e, a, r) /\ Counted(d, b, s)
          /\ Numbered(v, n, r, b - Due(d)) /\ Numbered(w, n, s, a - Due(e))
    BY DEF InPhase
<1>2. PICK y : y = a - Due(e)
    OBVIOUS
<1>3. e \in EndpointStates /\ u \in Seq(Frames)
    BY TypesAre, BatchFrames
<1>4. Due(e) \in Nat
    BY <1>3 DEF Due, EndpointStates
<1>5. y \in Nat /\ y <= a
    BY <1>1, <1>2, <1>4, NumberedIs
<1>6. Numbered(u, n, y, a)
    BY <1>1, <1>2, <1>5, BatchNumbered
<1>7. Numbered(w \o u, n, s, a)
    BY <1>1, <1>2, <1>3, <1>5, <1>6, NumberedMore
<1>8. PICK c : c = Settled(e)
    OBVIOUS
<1>9. /\ c.local_open = e.local_open /\ c.marker = e.marker /\ c.remote_open = e.remote_open
      /\ c.open_requests = 0 /\ c.close_requests = 0
    BY <1>3, <1>8, SettledIs
<1>10. Counted(c, a, r)
    BY <1>1, <1>9 DEF Counted
<1>11. a - Due(c) = a
    BY <1>9 DEF Due
<1> QED BY <1>1, <1>7, <1>8, <1>10, <1>11 DEF InPhase

\* A link that is closed on both sides may be forgotten.
LEMMA PhaseForgotten ==
    ASSUME NEW n, NEW e \in EndpointStates, NEW d, NEW v, NEW w, InPhase(n, e, v, d, w),
           ~ e.local_open, ~ e.remote_open, HasSettled(e)
    PROVE  InPhase(n, Fresh, v, d, w)
<1>1. PICK a, r, b, s \in Nat :
          /\ Counted(e, a, r) /\ Counted(d, b, s)
          /\ Numbered(v, n, r, b - Due(d)) /\ Numbered(w, n, s, a - Due(e))
    BY DEF InPhase
<1>2. /\ ~ Fresh.local_open /\ ~ Fresh.remote_open /\ Fresh.marker = 0
      /\ Fresh.open_requests = 0 /\ Fresh.close_requests = 0
    BY FreshIs
<1>3. Due(Fresh) = 0 /\ Due(e) = 0
    BY <1>2 DEF Due, HasSettled
<1>4. Counted(Fresh, a, r)
    BY <1>1, <1>2 DEF Counted
<1> QED BY <1>1, <1>3, <1>4 DEF InPhase

Phased ==
    \A p \in Peers, n \in Names :
        InPhase(n, state[p][n], wire[p], state[Other(p)][n], wire[Other(p)])

LEMMA PhasedInit == Init => Phased /\ NeverRefused
<1> SUFFICES ASSUME Init PROVE Phased /\ NeverRefused
    OBVIOUS
<1>1. \A n \in Names : InPhase(n, Fresh, <<>>, Fresh, <<>>)
  <2>1. /\ ~ Fresh.local_open /\ ~ Fresh.remote_open /\ Fresh.marker = 0
        /\ Fresh.open_requests = 0 /\ Fresh.close_requests = 0
    BY FreshIs
  <2>2. ~ Odd(0)
    BY DEF Odd
  <2>3. Counted(Fresh, 0, 0)
    BY <2>1, <2>2 DEF Counted
  <2>4. 0 - Due(Fresh) = 0
    BY <2>1 DEF Due
  <2>5. \A n \in Names : Numbered(<<>>, n, 0, 0)
    <3>1. PICK w \in Seq(Frames) : w = <<>>
        BY EmptySeq
    <3>2. Len(w) = 0
        BY <3>1, EmptySeq
    <3>3. \A n \in Names : \A i \in 1..Len(w) : w[i].name # n
        BY <3>2
    <3>4. \A n \in Names : Numbered(w, n, 0, 0)
        BY <3>3, NumberedNone
    <3> QED BY <3>1, <3>4
  <2> QED BY <2>3, <2>4, <2>5 DEF InPhase
<1>2. \A p \in Peers : /\ wire[p] = <<>> /\ fault[p] = "none"
                       /\ \A n \in Names : state[p][n] = Fresh
    BY DEF Init
<1> QED BY <1>1, <1>2, Others DEF Phased, NeverRefused

LEMMA PhasedBoth ==
    ASSUME NEW p \in Peers,
           \A n \in Names :
               InPhase(n, state'[p][n], wire'[p], state'[Other(p)][n], wire'[Other(p)])
    PROVE  Phased'
<1>1. PICK o : o = Other(p)
    OBVIOUS
<1>2. o \in Peers /\ Other(o) = p /\ \A q \in Peers : q = p \/ q = o
    BY <1>1, Others
<1>3. \A n \in Names : /\ InPhase(n, state'[p][n], wire'[p], state'[o][n], wire'[o])
                       /\ InPhase(n, state'[o][n], wire'[o], state'[p][n], wire'[p])
    BY <1>1, PhaseTurned
<1>4. \A q \in Peers, n \in Names :
          InPhase(n, state'[q][n], wire'[q], state'[Other(q)][n], wire'[Other(q)])
    BY <1>1, <1>2, <1>3
<1> QED BY <1>4 DEF Phased

\* A step that changes one end and no stream.
LEMMA PhasedOne ==
    ASSUME Phased, NEW p \in Peers, Alone(p),
           wire'[p] = wire[p], wire'[Other(p)] = wire[Other(p)], NEW n \in Names, NEW x,
           \A m \in Names : state'[p][m] = IF m = n THEN x ELSE state[p][m],
           InPhase(n, x, wire[p], state[Other(p)][n], wire[Other(p)])
    PROVE  Phased'
<1>1. state'[Other(p)] = state[Other(p)]
    BY DEF Alone
<1>2. \A m \in Names :
          InPhase(m, state'[p][m], wire'[p], state'[Other(p)][m], wire'[Other(p)])
    BY <1>1 DEF Phased
<1> QED BY <1>2, PhasedBoth

LEMMA PhasedCalls ==
    ASSUME "early" \notin Liberties, Typed, Phased, NEW p \in Peers, NEW n \in Names,
           OpenLink(p, n) \/ CloseLink(p, n)
    PROVE  Phased' /\ fault' = fault
<1>1. Alone(p) /\ wire' = wire
    BY CallsAlone
<1>2. PICK e, d, v, w : e = state[p][n] /\ d = state[Other(p)][n] /\ v = wire[p] /\ w = wire[Other(p)]
    OBVIOUS
<1>3. InPhase(n, e, v, d, w) /\ e \in EndpointStates
    BY <1>2, TypesAre DEF Phased
<1>4. CASE OpenLink(p, n)
  <2>1. e = Fresh /\ fault' = fault
    BY <1>2, <1>4 DEF OpenLink, Typed, Named
  <2>2. \A m \in Names : state'[p][m] = IF m = n THEN Open(Fresh) ELSE state[p][m]
    BY <1>4 DEF OpenLink, Typed, TypeOK
  <2>3. InPhase(n, Open(Fresh), v, d, w)
    BY <1>3, <2>1, PhaseOpened
  <2> QED BY <1>1, <1>2, <2>1, <2>2, <2>3, PhasedOne
<1>5. CASE CloseLink(p, n)
  <2>1. (e.remote_open \/ e.marker # 0) /\ fault' = fault
    BY <1>2, <1>5 DEF CloseLink
  <2>2. \A m \in Names : state'[p][m] = IF m = n THEN Close(e) ELSE state[p][m]
    BY <1>2, <1>5 DEF CloseLink, Typed, TypeOK
  <2>3. InPhase(n, Close(e), v, d, w)
    BY <1>3, <2>1, PhaseClosed
  <2> QED BY <1>1, <1>2, <2>1, <2>2, <2>3, PhasedOne
<1> QED BY <1>4, <1>5

LEMMA PhasedAttach ==
    ASSUME Typed, Phased, NEW p \in Peers, ReadAttach(p)
    PROVE  Phased' /\ fault'[p] = fault[p]
<1>1. PICK n, o : n = wire[p][1].name /\ o = Other(p)
    OBVIOUS
<1>2. Attaches(p, n) /\ Alone(p) /\ wire'[o] = wire[o] /\ o \in Peers
    BY <1>1, AttachDoes, StepsAlone, Others DEF Step
<1>3. PICK v, w : v = wire[p] /\ w = wire[o]
    OBVIOUS
<1>4. /\ v \in Seq(Frames) /\ w \in Seq(Frames)
      /\ \A m \in Names : state[p][m] \in EndpointStates /\ state[o][m] \in EndpointStates
    BY <1>2, <1>3, TypesAre
<1>5. v # <<>> /\ n \in Names /\ IsAttach(v, 1) /\ v[1].name = n /\ wire'[p] = Tail(v)
    BY <1>1, <1>2, <1>3 DEF Attaches
<1>6. \A m \in Names : InPhase(m, state[p][m], v, state[o][m], w)
    BY <1>1, <1>3 DEF Phased
<1>7. /\ ~ state[p][n].remote_open
      /\ InPhase(n, Attached(state[p][n]), Tail(v), state[o][n], w)
    BY <1>4, <1>5, <1>6, PhaseAttached
<1>8. /\ fault'[p] = fault[p]
      /\ \A m \in Names : state'[p][m] = IF m = n THEN Attached(state[p][n]) ELSE state[p][m]
    BY <1>2, <1>7 DEF Attaches
<1>9. \A m \in Names : m # n => InPhase(m, state[p][m], Tail(v), state[o][m], w)
    BY <1>4, <1>5, <1>6, PhaseTail
<1>10. state'[o] = state[o]
    BY <1>1, <1>2 DEF Alone
<1>11. \A m \in Names : InPhase(m, state'[p][m], wire'[p], state'[o][m], wire'[o])
    BY <1>2, <1>3, <1>5, <1>7, <1>8, <1>9, <1>10
<1> QED BY <1>1, <1>8, <1>11, PhasedBoth

LEMMA PhasedDetach ==
    ASSUME Following, Phased, NEW p \in Peers, ReadDetach(p)
    PROVE  Phased' /\ fault'[p] = fault[p]
<1>1. PICK n, o : n = wire[p][1].name /\ o = Other(p)
    OBVIOUS
<1>2. Typed /\ Running(p)
    BY DEF Following, ReadDetach, Read
<1>3. Alone(p) /\ wire'[o] = wire[o] /\ o \in Peers
    BY <1>1, <1>2, StepsAlone, Others DEF Step
<1>4. PICK m : m = remote_handles[p][wire[p][1].handle]
    OBVIOUS
<1>5. Detaches(p, m)
    BY <1>2, <1>4, DetachDoes
<1>6. wire[p] # <<>> /\ ~ IsAttach(wire[p], 1)
    BY <1>5 DEF Detaches
<1>7. m = n /\ n \in Names /\ state[p][n].remote_open
    BY <1>1, <1>2, <1>4, <1>6, DetachFinds
<1>8. PICK v, w : v = wire[p] /\ w = wire[o]
    OBVIOUS
<1>9. /\ v \in Seq(Frames) /\ w \in Seq(Frames)
      /\ \A l \in Names : state[p][l] \in EndpointStates /\ state[o][l] \in EndpointStates
    BY <1>2, <1>3, <1>8, TypesAre
<1>10. v # <<>> /\ ~ IsAttach(v, 1) /\ v[1].name = n /\ wire'[p] = Tail(v)
    BY <1>1, <1>5, <1>8 DEF Detaches
<1>11. \A l \in Names : InPhase(l, state[p][l], v, state[o][l], w)
    BY <1>1, <1>8 DEF Phased
<1>12. fault'[p] = fault[p]
    BY <1>5, <1>7 DEF Detaches
<1>13. PICK t \in Times : \A l \in Names :
           state'[p][l] = IF l = n THEN Mark(RemoteClosed(state[p][n]), t) ELSE state[p][l]
    BY <1>5, <1>7 DEF Detaches
<1>14. t \in Nat \ {0}
    BY TimeValues
<1>15. InPhase(n, Mark(RemoteClosed(state[p][n]), t), Tail(v), state[o][n], w)
    BY <1>7, <1>9, <1>10, <1>11, <1>14, PhaseDetached
<1>16. \A l \in Names : l # n => InPhase(l, state[p][l], Tail(v), state[o][l], w)
    BY <1>9, <1>10, <1>11, PhaseTail
<1>17. state'[o] = state[o]
    BY <1>1, <1>3 DEF Alone
<1>18. \A l \in Names : InPhase(l, state'[p][l], wire'[p], state'[o][l], wire'[o])
    BY <1>3, <1>8, <1>10, <1>13, <1>15, <1>16, <1>17
<1> QED BY <1>1, <1>12, <1>18, PhasedBoth

LEMMA PhasedProcess ==
    ASSUME Typed, Phased, NEW p \in Peers, ProcessTick(p)
    PROVE  Phased' /\ fault' = fault
<1>1. PICK o : o = Other(p)
    OBVIOUS
<1>2. Alone(p) /\ o \in Peers /\ o # p /\ fault' = fault
    BY <1>1, StepsAlone, Others DEF Step, ProcessTick, Tick
<1>3. PICK requests \in SetToSeqs(Requests(p)) :
          /\ LinkByLink(requests)
          /\ wire' = [wire EXCEPT ![o] =
                        @ \o [i \in DOMAIN requests |-> FrameFor(p, requests[i])]]
    BY <1>1 DEF ProcessTick
<1>4. PICK u : u = [i \in DOMAIN requests |-> FrameFor(p, requests[i])]
    OBVIOUS
<1>5. IsBatch(p, requests, u)
    BY <1>3, <1>4 DEF IsBatch
<1>6. wire[o] \in Seq(Frames) /\ wire'[o] = wire[o] \o u /\ wire'[p] = wire[p]
    BY <1>2, <1>3, <1>4 DEF Typed, TypeOK
<1>7. \A n \in Names : state'[p][n] = Settled(state[p][n])
  <2>1. state' = [state EXCEPT ![p] = [n \in Names |-> Settled(@[n])]]
    BY DEF ProcessTick
  <2> QED BY <2>1 DEF Typed, TypeOK
<1>8. state'[o] = state[o]
    BY <1>1, <1>2 DEF Alone
<1>9. \A n \in Names : InPhase(n, Settled(state[p][n]), wire[p], state[o][n], wire[o] \o u)
  <2>1. \A n \in Names : InPhase(n, state[p][n], wire[p], state[o][n], wire[o])
    BY <1>1 DEF Phased
  <2> QED BY <1>5, <1>6, <2>1, PhaseBatch
<1>10. \A n \in Names : InPhase(n, state'[p][n], wire'[p], state'[o][n], wire'[o])
    BY <1>6, <1>7, <1>8, <1>9
<1> QED BY <1>1, <1>2, <1>10, PhasedBoth

LEMMA PhasedClose ==
    ASSUME Typed, Phased, NEW p \in Peers, CloseTick(p)
    PROVE  Phased' /\ fault' = fault
<1>1. PICK n, t : n = Head(ticks[p]).name /\ t = Head(ticks[p]).token
    OBVIOUS
<1>2. Closes(p, n, t) /\ Alone(p) /\ wire'[Other(p)] = wire[Other(p)]
    BY <1>1, CloseDoes, StepsAlone DEF Step
<1>3. fault' = fault
    BY DEF CloseTick, Tick
<1>4. PICK e : e = state[p][n]
    OBVIOUS
<1>5. n \in Names /\ t # 0 /\ wire'[p] = wire[p] /\ e \in EndpointStates
    BY <1>2, <1>4, TimeValues, TypesAre DEF Closes
<1>6. InPhase(n, e, wire[p], state[Other(p)][n], wire[Other(p)])
    BY <1>4, <1>5 DEF Phased
<1>7. CASE e.marker = t
  <2>1. InPhase(n, Close(e), wire[p], state[Other(p)][n], wire[Other(p)])
    BY <1>5, <1>6, <1>7, PhaseClosed
  <2>2. \A m \in Names : state'[p][m] = IF m = n THEN Close(e) ELSE state[p][m]
    BY <1>2, <1>4, <1>7 DEF Closes
  <2> QED BY <1>2, <1>3, <1>5, <2>1, <2>2, PhasedOne
<1>8. CASE e.marker # t
  <2>1. \A m \in Names : state'[p][m] = IF m = n THEN e ELSE state[p][m]
    BY <1>2, <1>4, <1>8 DEF Closes
  <2> QED BY <1>2, <1>3, <1>5, <1>6, <2>1, PhasedOne
<1> QED BY <1>7, <1>8

LEMMA PhasedRemove ==
    ASSUME Tidied, Phased, NEW p \in Peers, RemoveTick(p)
    PROVE  Phased' /\ fault' = fault
<1>1. PICK n : n = Head(ticks[p]).name
    OBVIOUS
<1>2. Typed /\ Tidy(p) /\ Waiting(p)
    BY DEF Tidied, Following
<1>3. Removes(p, n) /\ Alone(p) /\ wire'[Other(p)] = wire[Other(p)]
    BY <1>1, <1>2, RemoveDoes, StepsAlone DEF Step
<1>4. fault' = fault
    BY DEF RemoveTick, Tick
<1>5. PICK e : e = state[p][n]
    OBVIOUS
<1>6. n \in Names /\ wire'[p] = wire[p] /\ e \in EndpointStates
    BY <1>2, <1>3, <1>5, TypesAre DEF Removes
<1>7. InPhase(n, e, wire[p], state[Other(p)][n], wire[Other(p)])
    BY <1>5, <1>6 DEF Phased
<1>8. n \in links[p] /\ n \notin links'[p]
  <2>1. Contains(ticks[p], RemoveTask(n)) /\ 1 \in 1..Len(ticks[p]) /\ ticks[p][1] = RemoveTask(n)
    <3>1. /\ ticks[p] # <<>> /\ Head(ticks[p]) = RemoveTask(n)
        BY <1>3 DEF Removes
    <3>2. 1 \in 1..Len(ticks[p]) /\ ticks[p][1] = RemoveTask(n)
        BY <1>2, <3>1, TickIs
    <3> QED BY <3>2 DEF Contains
  <2>2. n \in links[p]
    BY <1>2, <1>6, <2>1 DEF Tidy, Leaving
  <2>3. links'[p] = links[p] \ {n}
    BY <1>3 DEF Removes
  <2> QED BY <2>2, <2>3
<1>9. IsClosed(e) /\ HasSettled(e)
    BY <1>2, <1>5, <1>6, <1>8, TidyRemove
<1>10. InPhase(n, Fresh, wire[p], state[Other(p)][n], wire[Other(p)])
    BY <1>6, <1>7, <1>9, PhaseForgotten DEF IsClosed
<1>11. \A m \in Names : state'[p][m] = IF m = n THEN Fresh ELSE state[p][m]
    BY <1>3 DEF Removes
<1> QED BY <1>3, <1>4, <1>6, <1>10, <1>11, PhasedOne

\* In turn: the invariant of applications that close a link only once the peer's attach
\* has come, and do not open it again before it is removed.
InTurn == Tidied /\ Phased /\ NeverRefused

LEMMA InTurnStep ==
    ASSUME "early" \notin Liberties, "reopen" \notin Liberties, InTurn, [Next]_vars
    PROVE  InTurn'
<1>1. Tidied' /\ Typed /\ Following /\ Phased /\ Tidied
    BY TidiedStep DEF InTurn, Tidied, Following
<1>2. CASE UNCHANGED vars
  <2>1. Phased' /\ NeverRefused'
    BY <1>2 DEF vars, InTurn, Phased, NeverRefused
  <2> QED BY <1>1, <2>1 DEF InTurn
<1>3. ASSUME NEW p \in Peers, NEW n \in Names, OpenLink(p, n) \/ CloseLink(p, n) \/ ReopenLink(p, n)
      PROVE  InTurn'
  <2>1. OpenLink(p, n) \/ CloseLink(p, n)
    BY <1>3 DEF ReopenLink
  <2>2. Phased' /\ fault' = fault
    BY <1>1, <2>1, PhasedCalls
  <2> QED BY <1>1, <2>2 DEF InTurn, NeverRefused
<1>4. ASSUME NEW p \in Peers, Step(p)
      PROVE  InTurn'
  <2>1. Phased' /\ fault'[p] = fault[p]
    BY <1>1, <1>4, PhasedAttach, PhasedDetach, PhasedProcess, PhasedClose, PhasedRemove DEF Step
  <2>2. Alone(p)
    BY <1>1, <1>4, StepsAlone
  <2>3. \A q \in Peers : fault'[q] = fault[q]
    BY <2>1, <2>2, Others DEF Alone
  <2> QED BY <1>1, <2>1, <2>3 DEF InTurn, NeverRefused
<1> QED BY <1>2, <1>3, <1>4 DEF Next

\* No handler throws, whatever crosses, as long as no application closes a link before the
\* peer's attach has come (src/lib/link.js:146 and 179): attach and detach take turns in
\* each direction, and a peer never writes more of them than the other has answered.
THEOREM NothingIsRefused ==
    "early" \notin Liberties /\ "reopen" \notin Liberties => (Spec => []NeverRefused)
<1>1. SUFFICES ASSUME "early" \notin Liberties, "reopen" \notin Liberties
               PROVE  Spec => []NeverRefused
    OBVIOUS
<1>2. Init => InTurn
    BY TidiedInit, PhasedInit DEF InTurn
<1>3. InTurn /\ [Next]_vars => InTurn'
    BY <1>1, InTurnStep
<1>4. InTurn => NeverRefused
    BY DEF InTurn
<1> QED BY <1>2, <1>3, <1>4, PTL DEF Spec

-----------------------------------------------------------------------------
(* No half of a link is left over.                                          *)

\* A marker is the token of a close that waits; a link closed on both sides is one that
\* such a close, or a removal, will take away.
Answers(queue, end, linked, n) ==
    /\ end.marker # 0 => Contains(queue, CloseTask(n, end.marker))
    /\ linked /\ ~ end.local_open /\ ~ end.remote_open
           => end.marker # 0 \/ Contains(queue, RemoveTask(n))

Answered(queue, ends, names) == \A n \in Names : Answers(queue, ends[n], n \in names, n)

LEMMA TokensDiffer ==
    \A m, n, s, t : /\ CloseTask(m, s) = CloseTask(n, t) => m = n /\ s = t
                    /\ CloseTask(m, s) # Process /\ RemoveTask(m) # Process
                    /\ CloseTask(m, s) # RemoveTask(n)
                    /\ RemoveTask(m) = RemoveTask(n) => m = n
<1> SUFFICES ASSUME NEW m, NEW n, NEW s, NEW t
             PROVE  /\ CloseTask(m, s) = CloseTask(n, t) => m = n /\ s = t
                    /\ CloseTask(m, s) # Process /\ RemoveTask(m) # Process
                    /\ CloseTask(m, s) # RemoveTask(n)
                    /\ RemoveTask(m) = RemoveTask(n) => m = n
    OBVIOUS
<1>1. /\ CloseTask(m, s).name = m /\ CloseTask(n, t).name = n
      /\ CloseTask(m, s).token = s /\ CloseTask(n, t).token = t
      /\ RemoveTask(m).name = m /\ RemoveTask(n).name = n
    BY DEF CloseTask, RemoveTask
<1>2. /\ CloseTask(m, s).task = "close" /\ RemoveTask(m).task = "remove"
      /\ RemoveTask(n).task = "remove" /\ Process.task = "process"
    BY DEF CloseTask, RemoveTask, Process
<1>3. CloseTask(m, s) # Process /\ RemoveTask(m) # Process /\ CloseTask(m, s) # RemoveTask(n)
    BY <1>2
<1> QED BY <1>1, <1>3

LEMMA AppendAdds ==
    ASSUME NEW queue \in Seq(Tasks), NEW t \in Tasks
    PROVE  Contains(Append(queue, t), t)
<1>1. /\ Len(Append(queue, t)) = Len(queue) + 1 /\ Len(queue) \in Nat
      /\ Append(queue, t)[Len(queue) + 1] = t
    OBVIOUS
<1>2. Len(queue) + 1 \in 1..Len(Append(queue, t))
    BY <1>1
<1> QED BY <1>1, <1>2 DEF Contains

\* Whatever the queue held for n it still holds.
Holds(queue, later, n) ==
    /\ \A s : Contains(queue, CloseTask(n, s)) => Contains(later, CloseTask(n, s))
    /\ Contains(queue, RemoveTask(n)) => Contains(later, RemoveTask(n))

\* Of the links only n has changed.
AllBut(queue, ends, names, later, after, more, n) ==
    \A m \in Names : m # n => /\ after[m] = ends[m] /\ (m \in more => m \in names)
                              /\ Holds(queue, later, m)

LEMMA AnsweredOne ==
    ASSUME NEW queue, NEW ends, NEW names, Answered(queue, ends, names),
           NEW later, NEW after, NEW more, NEW n, AllBut(queue, ends, names, later, after, more, n),
           Answers(later, after[n], n \in more, n)
    PROVE  Answered(later, after, more)
<1>1. SUFFICES ASSUME NEW m \in Names, m # n
               PROVE  Answers(later, after[m], m \in more, m)
    BY DEF Answered
<1>2. Answers(queue, ends[m], m \in names, m) /\ after[m] = ends[m] /\ Holds(queue, later, m)
      /\ (m \in more => m \in names)
    BY <1>1 DEF Answered, AllBut
<1> QED BY <1>2 DEF Answers, Holds

LEMMA HoldsAll ==
    ASSUME NEW queue, NEW later, \A x : Contains(queue, x) => Contains(later, x), NEW n
    PROVE  Holds(queue, later, n)
BY DEF Holds

LEMMA AnsweredCalls ==
    ASSUME "late" \notin Liberties, "early" \notin Liberties, Typed, NEW p \in Peers,
           NEW n \in Names, OpenLink(p, n) \/ CloseLink(p, n),
           Answered(ticks[p], state[p], links[p])
    PROVE  Answered(ticks'[p], state'[p], links'[p])
<1>1. PICK e : e = state[p][n]
    OBVIOUS
<1>2. e \in EndpointStates /\ ticks[p] \in Seq(Tasks)
    BY <1>1, TypesAre
<1>3. ticks'[p] = Register(ticks[p])
  <2>1. ticks' = [ticks EXCEPT ![p] = Register(@)]
    BY DEF OpenLink, CloseLink
  <2> QED BY <2>1 DEF Typed, TypeOK
<1>4. \A m \in Names : Holds(ticks[p], ticks'[p], m)
  <2>1. \A x : Contains(ticks[p], x) => Contains(ticks'[p], x)
    BY <1>2, <1>3, ProcessStays
  <2> QED BY <2>1, HoldsAll
<1>5. CASE OpenLink(p, n)
  <2>1. /\ \A m \in Names : state'[p][m] = IF m = n THEN Open(Fresh) ELSE state[p][m]
        /\ links'[p] = links[p] \cup {n}
    BY <1>5 DEF OpenLink, Typed, TypeOK
  <2>2. Open(Fresh).local_open /\ Open(Fresh).marker = 0
    BY FreshIs, OpenIs
  <2>3. Answers(ticks'[p], state'[p][n], n \in links'[p], n)
    BY <2>1, <2>2 DEF Answers
  <2>4. \A m \in Names : m # n => state'[p][m] = state[p][m] /\ (m \in links'[p] => m \in links[p])
    BY <2>1
  <2>5. AllBut(ticks[p], state[p], links[p], ticks'[p], state'[p], links'[p], n)
    BY <1>4, <2>4 DEF AllBut
  <2> QED BY <2>3, <2>5, AnsweredOne
<1>6. CASE CloseLink(p, n)
  <2>1. /\ \A m \in Names : state'[p][m] = IF m = n THEN Close(e) ELSE state[p][m]
        /\ links'[p] = links[p] /\ e.remote_open
    BY <1>1, <1>6 DEF CloseLink, Typed, TypeOK
  <2>2. Close(e).remote_open /\ Close(e).marker = 0
    BY <1>2, <2>1, CloseIs
  <2>3. Answers(ticks'[p], state'[p][n], n \in links'[p], n)
    BY <2>1, <2>2 DEF Answers
  <2>4. \A m \in Names : m # n => state'[p][m] = state[p][m] /\ (m \in links'[p] => m \in links[p])
    BY <2>1
  <2>5. AllBut(ticks[p], state[p], links[p], ticks'[p], state'[p], links'[p], n)
    BY <1>4, <2>4 DEF AllBut
  <2> QED BY <2>3, <2>5, AnsweredOne
<1> QED BY <1>5, <1>6

LEMMA AnsweredAttach ==
    ASSUME Typed, NEW p \in Peers, ReadAttach(p), fault'[p] = "none",
           Answered(ticks[p], state[p], links[p])
    PROVE  Answered(ticks'[p], state'[p], links'[p])
<1>1. PICK n, e : n = wire[p][1].name /\ e = state[p][n]
    OBVIOUS
<1>2. Attaches(p, n)
    BY <1>1, AttachDoes
<1>3. n \in Names /\ ~ e.remote_open
    BY <1>1, <1>2 DEF Attaches
<1>4. e \in EndpointStates /\ ticks[p] \in Seq(Tasks)
    BY <1>1, <1>3, TypesAre
<1>5. PICK changed : changed = ~ e.local_open
    OBVIOUS
<1>6. /\ ticks'[p] = RegisterIf(changed, ticks[p])
      /\ \A m \in Names : state'[p][m] = IF m = n THEN Attached(e) ELSE state[p][m]
      /\ \A m \in links'[p] : m = n \/ m \in links[p]
    BY <1>1, <1>2, <1>3, <1>5 DEF Attaches
<1>7. \A m \in Names : Holds(ticks[p], ticks'[p], m)
  <2>1. \A x : Contains(ticks[p], x) => Contains(ticks'[p], x)
    BY <1>4, <1>6, ProcessStays
  <2> QED BY <2>1, HoldsAll
<1>8. Attached(e).local_open /\ Attached(e).marker = 0
    BY <1>4, AttachedIs
<1>9. Answers(ticks'[p], state'[p][n], n \in links'[p], n)
    BY <1>3, <1>6, <1>8 DEF Answers
<1>10. \A m \in Names : m # n => state'[p][m] = state[p][m] /\ (m \in links'[p] => m \in links[p])
    BY <1>6
<1>11. AllBut(ticks[p], state[p], links[p], ticks'[p], state'[p], links'[p], n)
    BY <1>7, <1>10 DEF AllBut
<1> QED BY <1>9, <1>11, AnsweredOne

LEMMA AnsweredDetach ==
    ASSUME Typed, NEW p \in Peers, ReadDetach(p), fault'[p] = "none",
           Answered(ticks[p], state[p], links[p])
    PROVE  Answered(ticks'[p], state'[p], links'[p])
<1>1. PICK n, e : n = remote_handles[p][wire[p][1].handle] /\ e = state[p][n]
    OBVIOUS
<1>2. Detaches(p, n)
    BY <1>1, DetachDoes
<1>3. n \in Names /\ state[p][n].remote_open /\ links'[p] = links[p]
    BY <1>2 DEF Detaches
<1>4. PICK t \in Times :
          /\ \A m \in Names : state'[p][m] = IF m = n THEN Mark(RemoteClosed(e), t) ELSE state[p][m]
          /\ ticks'[p] = Append(ticks[p], CloseTask(n, t))
    BY <1>1, <1>2, <1>3 DEF Detaches
<1>5. e \in EndpointStates /\ ticks[p] \in Seq(Tasks) /\ t \in Nat \ {0}
    BY <1>1, <1>3, TypesAre, TimeValues
<1>6. Mark(RemoteClosed(e), t).marker = t
    BY <1>5, DetachedIs
<1>7. CloseTask(n, t) \in Tasks
    BY <1>3 DEF Tasks, CloseTask
<1>8. Contains(ticks'[p], CloseTask(n, t))
    BY <1>4, <1>5, <1>7, AppendAdds
<1>9. \A m \in Names : Holds(ticks[p], ticks'[p], m)
  <2>1. \A x : Contains(ticks[p], x) => Contains(ticks'[p], x)
    BY <1>4, <1>5, ProcessStays
  <2> QED BY <2>1, HoldsAll
<1>10. Answers(ticks'[p], state'[p][n], n \in links'[p], n)
  <2>1. state'[p][n].marker = t /\ t # 0
    BY <1>3, <1>4, <1>5, <1>6
  <2> QED BY <1>8, <2>1 DEF Answers
<1>11. \A m \in Names : m # n => state'[p][m] = state[p][m] /\ (m \in links'[p] => m \in links[p])
    BY <1>3, <1>4
<1>12. AllBut(ticks[p], state[p], links[p], ticks'[p], state'[p], links'[p], n)
    BY <1>9, <1>11 DEF AllBut
<1> QED BY <1>10, <1>12, AnsweredOne

LEMMA AnsweredProcess ==
    ASSUME Typed, NEW p \in Peers, ProcessTick(p), Answered(ticks[p], state[p], links[p])
    PROVE  Answered(ticks'[p], state'[p], links'[p])
<1>1. /\ ticks[p] # <<>> /\ ticks' = [ticks EXCEPT ![p] = Tail(@)] /\ links' = links
      /\ state' = [state EXCEPT ![p] = [n \in Names |-> Settled(@[n])]]
      /\ Head(ticks[p]).task = "process"
    BY DEF ProcessTick, Tick
<1>2. ticks'[p] = Tail(ticks[p]) /\ \A n \in Names : state'[p][n] = Settled(state[p][n])
    BY <1>1 DEF Typed, TypeOK
<1>3. /\ ticks[p] \in Seq(Tasks) /\ \A n \in Names : state[p][n] \in EndpointStates
    BY TypesAre
<1>4. Head(ticks[p]) = Process
    BY <1>1, TickIs
<1>5. \A x : x # Process /\ Contains(ticks[p], x) => Contains(ticks'[p], x)
    BY <1>2, <1>3, <1>4, ProcessStays
<1>6. \A n \in Names : Holds(ticks[p], ticks'[p], n)
    BY <1>5, TokensDiffer DEF Holds
<1>7. \A n \in Names : /\ state'[p][n].marker = state[p][n].marker
                       /\ state'[p][n].local_open = state[p][n].local_open
                       /\ state'[p][n].remote_open = state[p][n].remote_open
    BY <1>2, <1>3, SettledIs
<1> QED BY <1>1, <1>6, <1>7 DEF Answered, Answers, Holds

LEMMA AnsweredClose ==
    ASSUME Typed, NEW p \in Peers, CloseTick(p), Answered(ticks[p], state[p], links[p])
    PROVE  Answered(ticks'[p], state'[p], links'[p])
<1>1. PICK n, t : n = Head(ticks[p]).name /\ t = Head(ticks[p]).token
    OBVIOUS
<1>2. Closes(p, n, t)
    BY <1>1, CloseDoes
<1>3. ticks[p] # <<>> /\ n \in Names /\ t \in Times /\ links'[p] = links[p]
    BY <1>2 DEF Closes
<1>4. Head(ticks[p]) = CloseTask(n, t)
  <2>1. Head(ticks[p]).task = "close"
    BY DEF CloseTick, Tick
  <2> QED BY <1>1, <1>3, <2>1, TickIs
<1>5. PICK q, e : q = Tail(ticks[p]) /\ e = state[p][n]
    OBVIOUS
<1>6. ticks[p] \in Seq(Tasks) /\ q \in Seq(Tasks) /\ e \in EndpointStates
    BY <1>3, <1>5, TypesAre, TickIs
<1>7. \A x : x # CloseTask(n, t) /\ Contains(ticks[p], x) => Contains(q, x)
    BY <1>4, <1>5, <1>6, ProcessStays
<1>8. \A m \in Names : m # n => Holds(ticks[p], q, m)
    BY <1>7, TokensDiffer DEF Holds
<1>9. CASE e.marker # t
  <2>1. state'[p] = state[p] /\ ticks'[p] = q
    BY <1>2, <1>5, <1>9 DEF Closes
  <2>2. Answers(ticks[p], e, n \in links[p], n)
    BY <1>3, <1>5 DEF Answered
  <2>3. /\ Contains(ticks[p], CloseTask(n, e.marker)) => Contains(q, CloseTask(n, e.marker))
        /\ Contains(ticks[p], RemoveTask(n)) => Contains(q, RemoveTask(n))
    BY <1>7, <1>9, TokensDiffer
  <2>4. Answers(q, e, n \in links[p], n)
    BY <2>2, <2>3 DEF Answers
  <2>5. AllBut(ticks[p], state[p], links[p], ticks'[p], state'[p], links'[p], n)
    BY <1>3, <1>8, <2>1 DEF AllBut
  <2> QED BY <1>3, <1>5, <2>1, <2>4, <2>5, AnsweredOne
<1>10. CASE e.marker = t
  <2>1. PICK r : r = RegisterIf(e.local_open, q)
    OBVIOUS
  <2>2. /\ \A m \in Names : state'[p][m] = IF m = n THEN Close(e) ELSE state[p][m]
        /\ ticks'[p] = Append(r, RemoveTask(n))
    BY <1>2, <1>5, <1>10, <2>1 DEF Closes
  <2>3. r \in Seq(Tasks)
    BY <1>6, <2>1, RegisterIs DEF EndpointStates
  <2>4. \A x : Contains(q, x) => Contains(ticks'[p], x)
    BY <1>6, <2>1, <2>2, <2>3, ProcessStays
  <2>5. RemoveTask(n) \in Tasks
    BY <1>3 DEF Tasks, RemoveTask
  <2>6. Contains(ticks'[p], RemoveTask(n))
    BY <2>2, <2>3, <2>5, AppendAdds
  <2>7. Close(e).marker = 0
    BY <1>6, CloseIs
  <2>8. Answers(ticks'[p], state'[p][n], n \in links'[p], n)
    <3>1. state'[p][n].marker = 0
        BY <1>3, <2>2, <2>7
    <3> QED BY <2>6, <3>1 DEF Answers
  <2>9. \A m \in Names : m # n => Holds(ticks[p], ticks'[p], m)
    BY <1>8, <2>4 DEF Holds
  <2>10. \A m \in Names : m # n => state'[p][m] = state[p][m] /\ (m \in links'[p] => m \in links[p])
    BY <1>3, <2>2
  <2>11. AllBut(ticks[p], state[p], links[p], ticks'[p], state'[p], links'[p], n)
    BY <2>9, <2>10 DEF AllBut
  <2> QED BY <2>8, <2>11, AnsweredOne
<1> QED BY <1>9, <1>10

LEMMA AnsweredRemove ==
    ASSUME Typed, NEW p \in Peers, RemoveTick(p), Answered(ticks[p], state[p], links[p])
    PROVE  Answered(ticks'[p], state'[p], links'[p])
<1>1. PICK n : n = Head(ticks[p]).name
    OBVIOUS
<1>2. Removes(p, n)
    BY <1>1, RemoveDoes
<1>3. /\ ticks[p] # <<>> /\ n \in Names /\ Head(ticks[p]) = RemoveTask(n)
      /\ ticks'[p] = Tail(ticks[p]) /\ links'[p] = links[p] \ {n}
      /\ \A m \in Names : state'[p][m] = IF m = n THEN Fresh ELSE state[p][m]
    BY <1>2 DEF Removes
<1>4. ticks[p] \in Seq(Tasks)
    BY TypesAre
<1>5. \A x : x # RemoveTask(n) /\ Contains(ticks[p], x) => Contains(ticks'[p], x)
    BY <1>3, <1>4, ProcessStays
<1>6. \A m \in Names : m # n => Holds(ticks[p], ticks'[p], m)
    BY <1>5, TokensDiffer DEF Holds
<1>7. Answers(ticks'[p], state'[p][n], n \in links'[p], n)
  <2>1. Fresh.marker = 0
    BY FreshIs
  <2>2. state'[p][n] = Fresh /\ n \notin links'[p]
    BY <1>3
  <2> QED BY <2>1, <2>2 DEF Answers
<1>8. \A m \in Names : m # n => state'[p][m] = state[p][m] /\ (m \in links'[p] => m \in links[p])
    BY <1>3
<1>9. AllBut(ticks[p], state[p], links[p], ticks'[p], state'[p], links'[p], n)
    BY <1>6, <1>8 DEF AllBut
<1> QED BY <1>7, <1>9, AnsweredOne

-----------------------------------------------------------------------------

AllAnswered == \A p \in Peers : Answered(ticks[p], state[p], links[p])

LEMMA AnsweredInit == Init => AllAnswered
<1> SUFFICES ASSUME Init PROVE AllAnswered
    OBVIOUS
<1>1. \A p \in Peers : links[p] = {} /\ \A n \in Names : state[p][n] = Fresh
    BY DEF Init
<1> QED BY <1>1, FreshIs DEF AllAnswered, Answered, Answers

LEMMA AnsweredStep ==
    ASSUME Liberties = {}, InTurn, InTurn', AllAnswered, [Next]_vars
    PROVE  AllAnswered'
<1>1. /\ Typed /\ \A p \in Peers : fault'[p] = "none"
      /\ \A p \in Peers : Answered(ticks[p], state[p], links[p])
    BY DEF InTurn, Tidied, Following, NeverRefused, AllAnswered
<1>2. CASE UNCHANGED vars
    BY <1>2 DEF vars, AllAnswered, Answered
<1>3. ASSUME NEW p \in Peers, Alone(p), Answered(ticks'[p], state'[p], links'[p])
      PROVE  AllAnswered'
  <2>1. PICK o : o = Other(p)
    OBVIOUS
  <2>2. /\ o \in Peers /\ ticks'[o] = ticks[o] /\ state'[o] = state[o] /\ links'[o] = links[o]
    BY <1>3, <2>1, Others DEF Alone
  <2>3. \A q \in Peers : q = p \/ q = o
    BY <2>1, Others
  <2>4. \A q \in Peers : Answered(ticks'[q], state'[q], links'[q])
    BY <1>1, <1>3, <2>2, <2>3
  <2> QED BY <2>4 DEF AllAnswered
<1>4. ASSUME NEW p \in Peers, NEW n \in Names, OpenLink(p, n) \/ CloseLink(p, n) \/ ReopenLink(p, n)
      PROVE  AllAnswered'
  <2>1. OpenLink(p, n) \/ CloseLink(p, n)
    BY <1>4 DEF ReopenLink
  <2>2. Answered(ticks'[p], state'[p], links'[p])
    BY <1>1, <2>1, AnsweredCalls
  <2>3. Alone(p)
    BY <1>1, <1>4, CallsAlone
  <2> QED BY <1>3, <2>2, <2>3
<1>5. ASSUME NEW p \in Peers, Step(p)
      PROVE  AllAnswered'
  <2>1. Answered(ticks'[p], state'[p], links'[p])
    BY <1>1, <1>5, AnsweredAttach, AnsweredDetach, AnsweredProcess, AnsweredClose, AnsweredRemove
       DEF Step
  <2>2. Alone(p)
    BY <1>1, <1>5, StepsAlone
  <2> QED BY <1>3, <2>1, <2>2
<1> QED BY <1>2, <1>4, <1>5 DEF Next

\* Two ends between which nothing is due or on its way are open, or closed, together.
LEMMA RestIsEven ==
    ASSUME NEW n, NEW e, NEW d, InPhase(n, e, <<>>, d, <<>>),
           HasSettled(e), HasSettled(d), e.marker = 0, d.marker = 0
    PROVE  /\ e.local_open <=> e.remote_open
           /\ e.local_open <=> d.local_open
<1>1. PICK a, r, b, s \in Nat :
          /\ Counted(e, a, r) /\ Counted(d, b, s)
          /\ Numbered(<<>>, n, r, b - Due(d)) /\ Numbered(<<>>, n, s, a - Due(e))
    BY DEF InPhase
<1>2. Due(e) = 0 /\ Due(d) = 0
    BY DEF Due, HasSettled
<1>3. r = b /\ s = a
  <2>1. PICK w \in Seq(Frames) : w = <<>>
    BY EmptySeq
  <2>2. Numbered(w, n, r, b) /\ Numbered(w, n, s, a)
    BY <1>1, <1>2, <2>1
  <2>3. b \in Int /\ a \in Int
    OBVIOUS
  <2>4. r = b
    BY <2>1, <2>2, <2>3, NumberedIs
  <2>5. s = a
    BY <2>1, <2>2, <2>3, NumberedIs
  <2> QED BY <2>4, <2>5
<1>4. a <= r + 1 /\ r <= a + 1 /\ r # a + 1 /\ s # b + 1
    BY <1>1 DEF Counted
<1>5. a = r /\ a = b
    BY <1>3, <1>4
<1>6. /\ e.local_open <=> Odd(a)
      /\ e.remote_open <=> Odd(r)
      /\ d.local_open <=> Odd(b)
    BY <1>1 DEF Counted
<1> QED BY <1>5, <1>6

LEMMA RestAgrees == InTurn /\ AllAnswered => AgreeAtRest
<1> SUFFICES ASSUME InTurn, AllAnswered, AtRest, NEW p \in Peers, NEW n \in Names, n \in links[p]
             PROVE  /\ n \in links[Other(p)] /\ IsOpen(state[p][n])
                    /\ remote_handles[Other(p)][handle[p][n]] = n
    BY DEF AgreeAtRest
<1>1. PICK o, e, d : o = Other(p) /\ e = state[p][n] /\ d = state[o][n]
    OBVIOUS
<1>2. /\ Typed /\ Phased /\ \A q \in Peers : Tidy(q) /\ Inward(q)
    BY DEF InTurn, Tidied, Following
<1>3. n \in Names /\ o \in Peers /\ Other(o) = p
    BY <1>1, <1>2, Others DEF Typed, TypeOK
<1>4. \A q \in Peers : wire[q] = <<>> /\ ticks[q] = <<>> /\ \A x : ~ Contains(ticks[q], x)
  <2>1. \A q \in Peers : wire[q] = <<>> /\ ticks[q] = <<>>
    BY DEF AtRest
  <2>2. \A x : ~ Contains(<<>>, x)
    BY DEF Contains
  <2> QED BY <2>1, <2>2
<1>5. \A q \in Peers : HasSettled(state[q][n]) /\ state[q][n].marker = 0
    BY <1>2, <1>3, <1>4 DEF Tidy, Asked, AllAnswered, Answered, Answers
<1>6. InPhase(n, e, <<>>, d, <<>>)
    BY <1>1, <1>2, <1>3, <1>4 DEF Phased
<1>7. (e.local_open <=> e.remote_open) /\ (e.local_open <=> d.local_open)
    BY <1>1, <1>3, <1>5, <1>6, RestIsEven
<1>8. e.local_open
  <2>1. ~ e.local_open /\ ~ e.remote_open => e.marker # 0 \/ Contains(ticks[p], RemoveTask(n))
    BY <1>1, <1>3 DEF AllAnswered, Answered, Answers
  <2> QED BY <1>1, <1>4, <1>5, <1>7, <2>1
<1>9. n \in links[o]
  <2>1. d.local_open
    BY <1>7, <1>8
  <2>2. d # Fresh
    BY <2>1, FreshIs
  <2> QED BY <1>1, <1>2, <1>3, <2>2 DEF Typed, Named
<1>10. remote_handles[o][handle[p][n]] = n
  <2>1. Leads(wire[o], remote_handles[o], state[p], links[p], handle[p])
    BY <1>2, <1>3 DEF Inward
  <2>2. ~ Ahead(e)
    BY <1>1, <1>5, <1>8 DEF Ahead, HasSettled
  <2>3. Led(wire[o], remote_handles[o], handle[p][n], Len(wire[o]) + 1, n)
    BY <1>1, <2>1, <2>2 DEF Leads
  <2>4. Len(wire[o]) = 0
    BY <1>3, <1>4
  <2> QED BY <2>3, <2>4 DEF Led
<1> QED BY <1>1, <1>7, <1>8, <1>9, <1>10 DEF IsOpen

\* Applications that close a link only while the peer has it open leave no half of one
\* behind: whenever no frame is on its way and no tick waits, both sides have the same
\* links, open on both, each behind the handle that its writer uses.
THEOREM RestLeavesNoHalf == Liberties = {} => (Spec => []AgreeAtRest)
<1>1. SUFFICES ASSUME Liberties = {}
               PROVE  Spec => []AgreeAtRest
    OBVIOUS
<1>2. Init => InTurn /\ AllAnswered
    BY TidiedInit, PhasedInit, AnsweredInit DEF InTurn
<1>3. InTurn /\ AllAnswered /\ [Next]_vars => InTurn' /\ AllAnswered'
    BY <1>1, InTurnStep, AnsweredStep
<1> QED BY <1>2, <1>3, RestAgrees, PTL DEF Spec
=============================================================================
