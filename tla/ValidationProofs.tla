-------------------------- MODULE ValidationProofs --------------------------
(***************************************************************************)
(* Why the searches of Validation find what they are for, on the graph of  *)
(* every well-formed workflow.  Paths are given by the sets that no edge   *)
(* leaves (Path), so that nothing here needs an induction: what Tarjan's   *)
(* algorithm puts in components at any time, and what the search has seen  *)
(* in the end, are such sets.                                              *)
(***************************************************************************)
EXTENDS Validation, SequenceLemmas

\* Leads, in any graph.
Path(g, n, m) ==
    \A S \in SUBSET Name :
        n \in S /\ (\A k \in S : ToSet(g[k]) \subseteq S) => m \in S

\* The strongly connected component of n.
Class(g, n) == {m \in Name : Path(g, n, m) /\ Path(g, m, n)}

Visited   == DOMAIN index
OnStack   == ToSet(stack)
Done      == Visited \ OnStack
Caller(i) == calls[i].state

\* The edge from n to m has been followed, if cs are the calls.
FollowedIn(cs, n, m) ==
    /\ m \in ToSet(graph[n])
    /\ \A i \in DOMAIN cs : cs[i].state = n => m \notin ToSet(cs[i].edges)

Followed(n, m) == FollowedIn(calls, n, m)

CallT == [state : Name, edges : Seq(Name)]

Typed ==
    /\ WellFormed(wf)
    /\ graph \in [Name -> Seq(Name)]
    /\ Visited \in SUBSET Name /\ IsFiniteSet(Visited)
    /\ index \in [Visited -> Nat] /\ low \in [Visited -> Nat]
    /\ \A n \in Visited : low[n] <= index[n] /\ index[n] < Cardinality(Visited)
    /\ stack \in Seq(Visited)
    /\ calls \in Seq(CallT)

\* The stack, and the calls on it, are in the order of the visits.
Sorted ==
    /\ \A j, k \in 1 .. Len(stack) : j < k => index[stack[j]] < index[stack[k]]
    /\ \A j, k \in 1 .. Len(calls) : j < k => index[Caller(j)] < index[Caller(k)]
    /\ \A i \in 1 .. Len(calls) :
          Caller(i) \in OnStack /\ ToSet(calls[i].edges) \subseteq ToSet(graph[Caller(i)])

\* A call leads to all that was visited later and is on the stack, and all that is on
\* the stack leads to a call from before.
Down ==
    \A i \in 1 .. Len(calls), u \in OnStack :
        index[Caller(i)] <= index[u] => Path(graph, Caller(i), u)

Up ==
    \A u \in OnStack : \E i \in 1 .. Len(calls) :
        index[Caller(i)] <= index[u] /\ Path(graph, u, Caller(i))

\* low of a call is found on the stack, and it is the least that edges followed from
\* its own part of the stack lead to.
LowFound ==
    \A i \in 1 .. Len(calls) : \E w \in OnStack :
        index[w] = low[Caller(i)] /\ Path(graph, Caller(i), w)

Below(i, u) ==
    /\ index[Caller(i)] <= index[u]
    /\ \A j \in 1 .. Len(calls) : i < j => index[u] < index[Caller(j)]

LowIsLeast ==
    \A i \in 1 .. Len(calls), u, w \in OnStack :
        Below(i, u) /\ Followed(u, w) => low[Caller(i)] <= index[w]

\* What edges followed lead to was visited, and from the components only to others.
Known ==
    /\ \A u \in OnStack : \A w : Followed(u, w) => w \in Visited
    /\ \A u \in Done : ToSet(graph[u]) \subseteq Done

ComponentsFound == sccs = {Class(graph, n) : n \in Done}

Tarjan == Sorted /\ Down /\ Up /\ LowFound /\ LowIsLeast /\ Known /\ ComponentsFound

\* What each check leaves for the next.
Phases ==
    /\ pc # "shape" => graph = buildGraph(wf)
    /\ pc = "shape" => Visited = {} /\ stack = <<>> /\ calls = <<>> /\ sccs = {}
    /\ pc \in {"reach", "accepted", "rejected"} => calls = <<>> /\ Declared(wf) \subseteq Visited
    /\ (pc = "reach" /\ valid) \/ pc = "accepted" => checkLoopsTerminate(wf, sccs)

\* The states seen, and those to be seen, are what the entry state leads to.
Searched ==
    /\ seen \in SUBSET Name /\ todo \in Seq(Name)
    /\ pc \in {"shape", "cycles"} => seen = {} /\ todo = <<>>
    /\ pc \in {"accepted", "rejected"} => todo = <<>>
    /\ \A n \in seen \cup ToSet(todo) : Path(graph, wf.entry, n)
    /\ \A n \in seen : ToSet(graph[n]) \subseteq seen \cup ToSet(todo)
    /\ pc \notin {"shape", "cycles"} /\ wf.entry \in Declared(wf) => wf.entry \in seen \cup ToSet(todo)
    /\ pc \in {"shape", "cycles", "reach", "accepted", "rejected"} /\ valid \in BOOLEAN

SInv == Typed /\ Tarjan /\ Phases /\ Searched

-----------------------------------------------------------------------------
(***************************************************************************)
(* Paths.                                                                  *)
(***************************************************************************)

\* A state leads to itself.
LEMMA PathToItself ==
  ASSUME NEW g, NEW n
  PROVE  Path(g, n, n)
BY DEF Path

\* An edge is a path.
LEMMA EdgeIsPath ==
  ASSUME NEW g, NEW n, NEW m \in ToSet(g[n])
  PROVE  Path(g, n, m)
BY DEF Path

\* Paths can be joined.
LEMMA PathsJoin ==
  ASSUME NEW g, NEW n, NEW m, NEW k, Path(g, n, m), Path(g, m, k)
  PROVE  Path(g, n, k)
BY DEF Path

\* A set that no edge leaves, no path leaves.
LEMMA NoPathLeaves ==
  ASSUME NEW g, NEW n, NEW m, Path(g, n, m),
         NEW S \in SUBSET Name, n \in S, \A k \in S : ToSet(g[k]) \subseteq S
  PROVE  m \in S
BY DEF Path

-----------------------------------------------------------------------------
(***************************************************************************)
(* The graph.                                                              *)
(***************************************************************************)

\* buildGraph gives each name the states its transitions lead to: an edge for a
\* target of each of them, and no other.
LEMMA GraphOfTargets ==
  ASSUME NEW w, WellFormed(w)
  PROVE  /\ buildGraph(w) \in [Name -> Seq(Name)]
         /\ \A n \in Name : ToSet(buildGraph(w)[n]) =
              UNION {Targets(t) : t \in AllTransitions(State(w, n))}
<1> DEFINE parts(n) == [k \in DOMAIN State(w, n).transitions |->
                          SetToSeq(Targets(State(w, n).transitions[k]))]
<1>1. ASSUME NEW n \in Name
      PROVE  /\ FlattenSeq(parts(n)) \in Seq(Name)
             /\ ToSet(FlattenSeq(parts(n))) =
                  UNION {Targets(t) : t \in AllTransitions(State(w, n))}
  <2> DEFINE ts == State(w, n).transitions
  <2>1. /\ ts \in Seq(AllTransitions(State(w, n)))
        /\ \A t \in AllTransitions(State(w, n)) :
              Targets(t) \subseteq Name /\ IsFiniteSet(Targets(t))
    <3>1. CASE n \in Declared(w)
      BY <3>1 DEF WellFormed, State
    <3>2. CASE n \notin Declared(w)
      <4>1. ts = <<>>
        BY <3>2 DEF State
      <4>2. AllTransitions(State(w, n)) = {}
        BY <4>1 DEF AllTransitions, ToSet
      <4> QED
        BY <4>1, <4>2
    <3> QED
      BY <3>1, <3>2
  <2>2. /\ DOMAIN ts = 1 .. Len(ts) /\ Len(ts) \in Nat
        /\ AllTransitions(State(w, n)) = {ts[k] : k \in 1 .. Len(ts)}
    BY <2>1 DEF AllTransitions, ToSet
  <2> HIDE DEF ts
  <2>3. ASSUME NEW k \in 1 .. Len(ts)
        PROVE  /\ SetToSeq(Targets(ts[k])) \in Seq(Name)
               /\ ToSet(SetToSeq(Targets(ts[k]))) = Targets(ts[k])
    <3> DEFINE T == Targets(ts[k])
               q == SetToSeq(T)
    <3>1. T \subseteq Name /\ IsFiniteSet(T)
      BY <2>1, <2>2
    <3> HIDE DEF T
    <3>2. /\ q \in [1 .. Cardinality(T) -> T]
          /\ \A x \in T : \E j \in 1 .. Cardinality(T) : q[j] = x
          /\ Cardinality(T) \in Nat
      BY <3>1, SetToSeqListsAll, FS_CardinalityType
    <3> HIDE DEF q
    <3>3. q \in Seq(T) /\ q \in Seq(Name)
      BY <3>1, <3>2
    <3>4. ToSet(q) = T
      BY <3>2 DEF ToSet
    <3> QED
      BY <3>3, <3>4 DEF q, T
  <2>4. parts(n) = [k \in 1 .. Len(ts) |-> SetToSeq(Targets(ts[k]))]
    BY <2>2 DEF ts
  <2> HIDE DEF parts
  <2>5. /\ parts(n) \in Seq(Seq(Name)) /\ Len(parts(n)) = Len(ts)
        /\ \A k \in 1 .. Len(ts) : ToSet(parts(n)[k]) = Targets(ts[k])
    BY <2>2, <2>3, <2>4
  <2>6. UNION {ToSet(parts(n)[k]) : k \in 1 .. Len(parts(n))} =
          UNION {Targets(t) : t \in AllTransitions(State(w, n))}
    BY <2>2, <2>5
  <2> QED
    BY <2>5, <2>6, FlatteningLists
<1>2. buildGraph(w) = [n \in Name |-> FlattenSeq(parts(n))]
  BY DEF buildGraph
<1> HIDE DEF parts
<1> QED
  BY <1>1, <1>2

-----------------------------------------------------------------------------
(***************************************************************************)
(* The state of the search for components.                                 *)
(***************************************************************************)

\* The types of what the search reads.
LEMMA TypedFacts ==
  ASSUME Typed
  PROVE  /\ Visited \subseteq Name /\ OnStack \subseteq Visited
         /\ Len(calls) \in Nat /\ Len(stack) \in Nat /\ Cardinality(Visited) \in Nat
         /\ DOMAIN calls = 1 .. Len(calls) /\ DOMAIN stack = 1 .. Len(stack)
         /\ \A u \in Visited : /\ index[u] \in Nat /\ low[u] \in Nat
                               /\ low[u] <= index[u] /\ index[u] < Cardinality(Visited)
         /\ \A i \in 1 .. Len(calls) : Caller(i) \in Name /\ calls[i].edges \in Seq(Name)
         /\ \A n \in Name : graph[n] \in Seq(Name) /\ ToSet(graph[n]) \subseteq Name
         /\ \A u \in OnStack : \E k \in 1 .. Len(stack) : stack[k] = u
         /\ \A k \in 1 .. Len(stack) : stack[k] \in OnStack
<1>1. /\ Len(calls) \in Nat /\ Len(stack) \in Nat
      /\ DOMAIN calls = 1 .. Len(calls) /\ DOMAIN stack = 1 .. Len(stack)
      /\ \A i \in 1 .. Len(calls) : calls[i] \in CallT
  BY DEF Typed
<1>2. /\ Visited \subseteq Name /\ Cardinality(Visited) \in Nat
      /\ \A u \in Visited : /\ index[u] \in Nat /\ low[u] \in Nat
                            /\ low[u] <= index[u] /\ index[u] < Cardinality(Visited)
  BY FS_CardinalityType DEF Typed
<1>3. /\ OnStack \subseteq Visited
      /\ \A u \in OnStack : \E k \in 1 .. Len(stack) : stack[k] = u
      /\ \A k \in 1 .. Len(stack) : stack[k] \in OnStack
  BY Listed DEF Typed, OnStack
<1>4. \A n \in Name : graph[n] \in Seq(Name) /\ ToSet(graph[n]) \subseteq Name
  BY Listed DEF Typed
<1>5. \A i \in 1 .. Len(calls) : Caller(i) \in Name /\ calls[i].edges \in Seq(Name)
  BY <1>1 DEF CallT, Caller
<1> QED
  BY <1>1, <1>2, <1>3, <1>4, <1>5

\* No two states of the stack have an index in common, and no two calls.
LEMMA IndexTells ==
  ASSUME Typed, Sorted
  PROVE  /\ \A u, w \in OnStack : index[u] = index[w] => u = w
         /\ \A i \in 1 .. Len(calls) : Caller(i) \in OnStack
         /\ \A i, j \in 1 .. Len(calls) :
               index[Caller(i)] <= index[Caller(j)] => i <= j
<1>1. ASSUME NEW u \in OnStack, NEW w \in OnStack, index[u] = index[w]
      PROVE  u = w
  <2>1. PICK j \in 1 .. Len(stack), k \in 1 .. Len(stack) : stack[j] = u /\ stack[k] = w
    BY TypedFacts
  <2>2. ~(j < k) /\ ~(k < j)
    BY <1>1, <2>1, TypedFacts DEF Sorted
  <2> QED
    BY <2>1, <2>2, TypedFacts
<1>2. \A i \in 1 .. Len(calls) : Caller(i) \in OnStack
  BY DEF Sorted
<1>3. ASSUME NEW i \in 1 .. Len(calls), NEW j \in 1 .. Len(calls),
             index[Caller(i)] <= index[Caller(j)]
      PROVE  i <= j
  <2>1. j < i => index[Caller(j)] < index[Caller(i)]
    BY DEF Sorted
  <2>2. index[Caller(i)] \in Nat /\ index[Caller(j)] \in Nat /\ Len(calls) \in Nat
    BY <1>2, TypedFacts
  <2> QED
    BY <1>3, <2>1, <2>2
<1> QED
  BY <1>1, <1>2, <1>3

\* Between the calls of strong the stack is empty.
LEMMA EmptyBetweenCalls ==
  ASSUME Typed, Up, calls = <<>>
  PROVE  OnStack = {} /\ Done = Visited
<1>1. Len(calls) = 0
  OBVIOUS
<1> QED
  BY <1>1 DEF Up, Done

\* What was put in components, no edge leaves.
LEMMA ComponentsAreClosed ==
  ASSUME Typed, Known, NEW n \in Done
  PROVE  Class(graph, n) \subseteq Done
<1>1. Done \subseteq Name /\ \A k \in Done : ToSet(graph[k]) \subseteq Done
  BY TypedFacts DEF Known, Done
<1> QED
  BY <1>1, NoPathLeaves DEF Class

\* The calls callers are calls but for one edge less of the last, which led to u.
Advanced(callers, u) ==
    /\ callers \in Seq(CallT) /\ Len(callers) = Len(calls)
    /\ \A i \in 1 .. Len(calls) :
         /\ callers[i].state = Caller(i)
         /\ ToSet(callers[i].edges) \subseteq ToSet(calls[i].edges)
    /\ \A n, m : FollowedIn(callers, n, m) =>
          Followed(n, m) \/ (n = Caller(Len(calls)) /\ m = u)

\* An edge that FollowEdge takes is one of the state of the last call.
LEMMA TakingAnEdge ==
  ASSUME Typed, Sorted, calls # <<>>, Last(calls).edges # <<>>,
         NEW callers, callers = [calls EXCEPT ![Len(calls)].edges = Tail(@)],
         NEW u, u = Head(Last(calls).edges)
  PROVE  /\ Len(calls) \in 1 .. Len(calls)
         /\ Last(calls).state = Caller(Len(calls))
         /\ u \in ToSet(graph[Caller(Len(calls))])
         /\ u \in Name
         /\ Advanced(callers, u)
<1> DEFINE L == Len(calls)
           es == calls[L].edges
<1>1. /\ L \in 1 .. L /\ L \in Nat /\ Last(calls) = calls[L]
      /\ Last(calls).state = Caller(L) /\ Caller(L) \in Name
      /\ es \in Seq(Name) /\ es # <<>>
  BY TypedFacts DEF Last, Caller
<1>2. /\ u \in ToSet(es) /\ Tail(es) \in Seq(Name)
      /\ ToSet(es) = {u} \cup ToSet(Tail(es))
  BY <1>1, TailLists DEF Last
<1>3. u \in ToSet(graph[Caller(L)]) /\ u \in Name
  BY <1>1, <1>2, TypedFacts DEF Sorted
<1>4. /\ callers \in Seq(CallT) /\ Len(callers) = L /\ DOMAIN callers = 1 .. L
      /\ DOMAIN calls = 1 .. L
      /\ callers[L] = [state |-> Caller(L), edges |-> Tail(es)]
      /\ \A i \in 1 .. L : i # L => callers[i] = calls[i]
  <2>1. calls \in Seq(CallT) /\ DOMAIN calls = 1 .. L
    BY TypedFacts DEF Typed
  <2>2. calls[L] \in CallT
    BY <1>1, <2>1
  <2>3. ASSUME NEW c \in CallT, NEW t
        PROVE  [c EXCEPT !.edges = t] = [state |-> c.state, edges |-> t]
    BY DEF CallT
  <2>4. [state |-> Caller(L), edges |-> Tail(es)] \in CallT
    BY <1>1, <1>2 DEF CallT
  <2>5. callers = [calls EXCEPT ![L] = [state |-> Caller(L), edges |-> Tail(es)]]
    BY <2>2, <2>3 DEF Caller
  <2> DEFINE c == [state |-> Caller(L), edges |-> Tail(es)]
  <2> HIDE DEF c
  <2>6. /\ [calls EXCEPT ![L] = c] \in Seq(CallT) /\ Len([calls EXCEPT ![L] = c]) = L
        /\ [calls EXCEPT ![L] = c][L] = c
        /\ \A i \in 1 .. L : i # L => [calls EXCEPT ![L] = c][i] = calls[i]
    BY <1>1, <2>1, <2>4 DEF c
  <2>7. callers = [calls EXCEPT ![L] = c]
    BY <2>5 DEF c
  <2> QED
    BY <2>1, <2>6, <2>7 DEF c
<1> HIDE DEF es
<1>5. \A i \in 1 .. L : /\ callers[i].state = Caller(i)
                        /\ ToSet(callers[i].edges) \subseteq ToSet(calls[i].edges)
  BY <1>1, <1>2, <1>4 DEF Caller, es
<1>6. ASSUME NEW n, NEW m, FollowedIn(callers, n, m), ~(n = Caller(L) /\ m = u)
      PROVE  Followed(n, m)
  <2>1. SUFFICES ASSUME NEW i \in 1 .. L, calls[i].state = n
                 PROVE  m \notin ToSet(calls[i].edges)
    BY <1>4, <1>6 DEF Followed, FollowedIn
  <2>2. callers[i].state = n /\ m \notin ToSet(callers[i].edges)
    BY <1>4, <1>5, <1>6, <2>1 DEF FollowedIn, Caller
  <2>3. CASE i # L
    BY <2>2, <2>3, <1>4
  <2>4. CASE i = L
    <3>1. m # u /\ m \notin ToSet(Tail(es))
      BY <1>4, <1>6, <2>1, <2>2, <2>4 DEF Caller
    <3> QED
      BY <3>1, <1>2, <2>4 DEF es
  <2> QED
    BY <2>3, <2>4
<1> QED
  BY <1>1, <1>3, <1>4, <1>5, <1>6 DEF Advanced

-----------------------------------------------------------------------------
(***************************************************************************)
(* A call begins.                                                          *)
(***************************************************************************)

\* What a call changes: the state called is the last of all.
LEMMA CallFacts ==
  ASSUME Typed, NEW u \in Name \ Visited, NEW callers, Advanced(callers, u),
         Call(u, callers)
  PROVE  /\ Visited' = Visited \cup {u} /\ OnStack' = OnStack \cup {u} /\ Done' = Done
         /\ graph' = graph /\ sccs' = sccs
         /\ Cardinality(Visited)' = Cardinality(Visited) + 1
         /\ index' \in [Visited' -> Nat] /\ low' \in [Visited' -> Nat]
         /\ \A x \in Visited : index'[x] = index[x] /\ low'[x] = low[x]
         /\ index'[u] = Cardinality(Visited) /\ low'[u] = Cardinality(Visited)
         /\ stack' \in Seq(Visited') /\ Len(stack') = Len(stack) + 1
         /\ \A k \in 1 .. Len(stack) : stack'[k] = stack[k]
         /\ stack'[Len(stack) + 1] = u
         /\ calls' \in Seq(CallT) /\ Len(calls') = Len(calls) + 1
         /\ \A i \in 1 .. Len(calls) : calls'[i].state = Caller(i) /\ calls'[i] = callers[i]
         /\ calls'[Len(calls) + 1].state = u /\ calls'[Len(calls) + 1].edges = graph[u]
         /\ DOMAIN calls' = 1 .. Len(calls) + 1
<1> DEFINE N == Cardinality(Visited)
<1>1. /\ index' = [n \in Visited \cup {u} |-> IF n = u THEN N ELSE index[n]]
      /\ low' = [n \in DOMAIN index' |-> IF n = u THEN index'[u] ELSE low[n]]
      /\ stack' = Append(stack, u)
      /\ calls' = Append(callers, [state |-> u, edges |-> graph[u]])
      /\ graph' = graph /\ sccs' = sccs
  BY DEF Call, Visited
<1>2. N \in Nat /\ IsFiniteSet(Visited) /\ N + 1 \in Nat
  BY TypedFacts DEF Typed
<1>3. Visited' = Visited \cup {u}
  BY <1>1 DEF Visited
<1>4. Cardinality(Visited)' = N + 1
  BY <1>2, <1>3, FS_AddElement
<1> HIDE DEF N
<1>5. /\ index' \in [Visited \cup {u} -> Nat] /\ DOMAIN index' = Visited \cup {u}
      /\ \A x \in Visited : index'[x] = index[x]
      /\ index'[u] = N
  BY <1>1, <1>2 DEF Typed
<1>6. /\ low' \in [Visited \cup {u} -> Nat]
      /\ \A x \in Visited : low'[x] = low[x]
      /\ low'[u] = N
  BY <1>1, <1>2, <1>5 DEF Typed
<1>7. /\ stack' \in Seq(Visited \cup {u}) /\ Len(stack') = Len(stack) + 1
      /\ \A k \in 1 .. Len(stack) : stack'[k] = stack[k]
      /\ stack'[Len(stack) + 1] = u
      /\ ToSet(stack') = ToSet(stack) \cup {u}
  <2>1. stack \in Seq(Visited \cup {u})
    BY DEF Typed
  <2> QED
    BY <1>1, <2>1, AppendLists
<1>8. /\ calls' \in Seq(CallT) /\ Len(calls') = Len(calls) + 1
      /\ \A i \in 1 .. Len(calls) : calls'[i] = callers[i]
      /\ calls'[Len(calls) + 1] = [state |-> u, edges |-> graph[u]]
      /\ DOMAIN calls' = 1 .. Len(calls) + 1
  <2>1. [state |-> u, edges |-> graph[u]] \in CallT
    BY TypedFacts DEF CallT
  <2>2. callers \in Seq(CallT) /\ Len(callers) = Len(calls)
    BY DEF Advanced
  <2>3. /\ calls' \in Seq(CallT) /\ Len(calls') = Len(calls) + 1
        /\ \A i \in 1 .. Len(calls) : calls'[i] = callers[i]
        /\ calls'[Len(calls) + 1] = [state |-> u, edges |-> graph[u]]
    BY <1>1, <2>1, <2>2, AppendLists
  <2> QED
    BY <2>3
<1>9. \A i \in 1 .. Len(calls) : calls'[i].state = Caller(i)
  BY <1>8 DEF Advanced, Caller
<1>10. OnStack' = OnStack \cup {u} /\ Done' = Done
  BY <1>3, <1>7, TypedFacts DEF OnStack, Done
<1> QED
  BY <1>1, <1>3, <1>4, <1>5, <1>6, <1>7, <1>8, <1>9, <1>10 DEF N, Caller

\* A call of a state that all callers lead to keeps the invariant of the search.
LEMMA CallKeeps ==
  ASSUME Typed, Tarjan, NEW u \in Name \ Visited, NEW callers, Advanced(callers, u),
         Call(u, callers), \A i \in 1 .. Len(calls) : Path(graph, Caller(i), u)
  PROVE  Typed' /\ Tarjan'
<1> DEFINE L == Len(calls)
           N == Cardinality(Visited)
<1> USE DEF Tarjan
<1>1. /\ L \in Nat /\ N \in Nat /\ Len(stack) \in Nat /\ L' = L + 1
      /\ 1 .. L + 1 = (1 .. L) \cup {L + 1} /\ L + 1 \notin 1 .. L
      /\ OnStack \subseteq Visited /\ u \notin OnStack /\ u \notin Visited
      /\ \A x \in Visited : index[x] \in Nat /\ low[x] \in Nat
                            /\ low[x] <= index[x] /\ index[x] < N
      /\ \A i \in 1 .. L : Caller(i) \in OnStack
  <2>1. Len(calls') = Len(calls) + 1
    BY CallFacts
  <2>2. \A i \in 1 .. L : Caller(i) \in OnStack
    BY IndexTells
  <2>3. L \in Nat /\ N \in Nat /\ Len(stack) \in Nat /\ OnStack \subseteq Visited
    BY TypedFacts
  <2>4. \A x \in Visited : index[x] \in Nat /\ low[x] \in Nat
                            /\ low[x] <= index[x] /\ index[x] < N
    BY TypedFacts
  <2>5. 1 .. L + 1 = (1 .. L) \cup {L + 1} /\ L + 1 \notin 1 .. L
    <3> HIDE DEF L, N
    <3> QED
      BY <2>3
  <2> QED
    BY <2>1, <2>2, <2>3, <2>4, <2>5
<1>2. Typed'
  <2>1. wf' = wf /\ IsFiniteSet(Visited')
    <3>1. IsFiniteSet(Visited \cup {u})
      BY FS_AddElement DEF Typed
    <3> QED
      BY <3>1, CallFacts DEF Call
  <2>2. \A n \in Visited' : low'[n] <= index'[n] /\ index'[n] < N + 1
    <3>1. /\ Visited' = Visited \cup {u} /\ index'[u] = N /\ low'[u] = N
          /\ \A x \in Visited : index'[x] = index[x] /\ low'[x] = low[x]
      BY CallFacts
    <3> HIDE DEF N
    <3> QED
      BY <1>1, <3>1
  <2> QED
    BY <2>1, <2>2, CallFacts DEF Typed
<1> HIDE DEF L, N
<1>3. /\ OnStack' = OnStack \cup {u} /\ Done' = Done /\ graph' = graph /\ sccs' = sccs
      /\ \A x \in Visited : index'[x] = index[x] /\ low'[x] = low[x]
      /\ index'[u] = N /\ low'[u] = N
      /\ \A i \in 1 .. L : /\ calls'[i].state = Caller(i)
                           /\ calls'[i] = callers[i]
      /\ calls'[L + 1].state = u /\ calls'[L + 1].edges = graph[u]
      /\ DOMAIN calls' = 1 .. L + 1 /\ Len(calls') = L + 1 /\ Visited' = Visited \cup {u}
  BY CallFacts DEF L, N, Caller
<1>4. \A n, m : FollowedIn(calls', n, m) /\ m # u /\ n # u => Followed(n, m)
  <2> SUFFICES ASSUME NEW n, NEW m, FollowedIn(calls', n, m), m # u, n # u
               PROVE  Followed(n, m)
    OBVIOUS
  <2>0. /\ L \in Nat /\ 1 .. L + 1 = (1 .. L) \cup {L + 1}
        /\ \A i \in 1 .. L : calls'[i] = callers[i]
        /\ calls'[L + 1].state = u /\ DOMAIN calls' = 1 .. L + 1
    BY <1>1, <1>3
  <2>1. FollowedIn(callers, n, m)
    BY <2>0 DEF FollowedIn, Advanced, L
  <2> QED
    BY <2>1 DEF Advanced
<1>5. \A m : ~FollowedIn(calls', u, m)
  BY <1>1, <1>3 DEF FollowedIn
<1>6. Sorted'
  <2>0. /\ Len(stack') = Len(stack) + 1 /\ stack'[Len(stack) + 1] = u
        /\ \A k \in 1 .. Len(stack) : stack'[k] = stack[k] /\ stack[k] \in OnStack
    <3>1. \A k \in 1 .. Len(stack) : stack[k] \in OnStack
      BY TypedFacts
    <3> QED
      BY <3>1, CallFacts
  <2>1. \A j, k \in 1 .. Len(stack) + 1 : j < k => index'[stack'[j]] < index'[stack'[k]]
    <3> SUFFICES ASSUME NEW j \in 1 .. Len(stack) + 1, NEW k \in 1 .. Len(stack) + 1, j < k
                 PROVE  index'[stack'[j]] < index'[stack'[k]]
      OBVIOUS
    <3>1. j \in 1 .. Len(stack) /\ stack'[j] = stack[j] /\ stack[j] \in OnStack
      BY <1>1, <2>0
    <3>2. CASE k = Len(stack) + 1
      <4>1. stack'[k] = u
        BY <2>0, <3>2
      <4> QED
        BY <1>1, <1>3, <3>1, <4>1
    <3>3. CASE k # Len(stack) + 1
      <4>1. k \in 1 .. Len(stack) /\ stack'[k] = stack[k] /\ stack[k] \in OnStack
        BY <1>1, <2>0, <3>3
      <4>2. index[stack[j]] < index[stack[k]]
        BY <3>1, <4>1 DEF Sorted
      <4> QED
        BY <1>1, <1>3, <3>1, <4>1, <4>2
    <3> QED
      BY <3>2, <3>3
  <2>2. \A j, k \in 1 .. L + 1 : j < k => index'[calls'[j].state] < index'[calls'[k].state]
    BY <1>1, <1>3 DEF Sorted, L
  <2>3. \A i \in 1 .. L + 1 :
           calls'[i].state \in OnStack' /\ ToSet(calls'[i].edges) \subseteq ToSet(graph[calls'[i].state])
    <3> SUFFICES ASSUME NEW i \in 1 .. L + 1
                 PROVE  /\ calls'[i].state \in OnStack'
                        /\ ToSet(calls'[i].edges) \subseteq ToSet(graph[calls'[i].state])
      OBVIOUS
    <3>1. CASE i = L + 1
      BY <3>1, <1>3
    <3>2. CASE i \in 1 .. L
      BY <3>2, <1>3 DEF Sorted, Advanced, L
    <3> QED
      BY <1>1, <3>1, <3>2
  <2> QED
    BY <1>3, <2>0, <2>1, <2>2, <2>3 DEF Sorted, Caller
<1>7. Down'
  <2> SUFFICES ASSUME NEW i \in 1 .. L + 1, NEW x \in OnStack',
                      index'[calls'[i].state] <= index'[x]
               PROVE  Path(graph, calls'[i].state, x)
    BY <1>3 DEF Down, Caller
  <2>1. CASE x = u
    BY <2>1, <1>1, <1>3, PathToItself DEF L
  <2>2. CASE x # u
    BY <2>2, <1>1, <1>3 DEF Down, L
  <2> QED
    BY <2>1, <2>2
<1>8. Up'
  <2> SUFFICES ASSUME NEW x \in OnStack'
               PROVE  \E i \in 1 .. L + 1 :
                         index'[calls'[i].state] <= index'[x] /\ Path(graph, x, calls'[i].state)
    BY <1>3 DEF Up, Caller
  <2>1. CASE x = u
    <3>1. index'[calls'[L + 1].state] <= index'[x] /\ Path(graph, x, calls'[L + 1].state)
      BY <2>1, <1>1, <1>3, PathToItself
    <3> QED
      BY <1>1, <3>1
  <2>2. CASE x # u
    <3>1. PICK i \in 1 .. L : index[Caller(i)] <= index[x] /\ Path(graph, x, Caller(i))
      BY <2>2, <1>3 DEF Up, L
    <3> QED
      BY <1>1, <1>3, <2>2, <3>1
  <2> QED
    BY <2>1, <2>2
<1>9. LowFound'
  <2> SUFFICES ASSUME NEW i \in 1 .. L + 1
               PROVE  \E w \in OnStack' :
                         index'[w] = low'[calls'[i].state] /\ Path(graph, calls'[i].state, w)
    BY <1>3 DEF LowFound, Caller
  <2>1. CASE i = L + 1
    BY <2>1, <1>3, PathToItself
  <2>2. CASE i \in 1 .. L
    <3>1. PICK w \in OnStack : index[w] = low[Caller(i)] /\ Path(graph, Caller(i), w)
      BY <2>2 DEF LowFound, L
    <3> QED
      BY <1>1, <1>3, <2>2, <3>1
  <2> QED
    BY <1>1, <2>1, <2>2
<1>10. LowIsLeast'
  <2> SUFFICES ASSUME NEW i \in 1 .. L + 1, NEW x \in OnStack', NEW w \in OnStack',
                      index'[calls'[i].state] <= index'[x],
                      \A j \in 1 .. L + 1 : i < j => index'[x] < index'[calls'[j].state],
                      FollowedIn(calls', x, w)
               PROVE  low'[calls'[i].state] <= index'[w]
    BY <1>3 DEF LowIsLeast, Below, Followed, FollowedIn, Caller
  <2>1. x # u /\ x \in OnStack
    BY <1>3, <1>5
  <2>2. i \in 1 .. L
    BY <1>1, <1>3, <2>1
  <2>3. CASE w = u
    BY <1>1, <1>3, <2>2, <2>3
  <2>4. CASE w # u
    <3>1. Followed(x, w) /\ w \in OnStack
      BY <1>3, <1>4, <2>1, <2>4
    <3>2. Below(i, x)
      BY <1>1, <1>3, <2>1, <2>2 DEF Below, L
    <3>3. low[Caller(i)] <= index[w]
      BY <2>1, <2>2, <3>1, <3>2 DEF LowIsLeast, L
    <3> QED
      BY <1>1, <1>3, <2>2, <3>1, <3>3
  <2> QED
    BY <2>3, <2>4
<1>11. Known'
  <2>1. \A x \in OnStack' : \A w : FollowedIn(calls', x, w) => w \in Visited'
    BY <1>3, <1>4, <1>5 DEF Known
  <2>2. \A x \in Done' : ToSet(graph'[x]) \subseteq Done'
    BY <1>3 DEF Known
  <2> QED
    BY <1>3, <2>1, <2>2 DEF Known, Followed, FollowedIn
<1>12. ComponentsFound'
  BY <1>3 DEF ComponentsFound, Class
<1> QED
  BY <1>2, <1>6, <1>7, <1>8, <1>9, <1>10, <1>11, <1>12

-----------------------------------------------------------------------------
(***************************************************************************)
(* An edge to a state visited before.                                      *)
(***************************************************************************)

\* Such an edge can only lower low of the last call, to what the edge leads to.
LEMMA EdgeKeeps ==
  ASSUME Typed, Tarjan, calls # <<>>, NEW v, v = Caller(Len(calls)),
         NEW u \in Visited, u \in ToSet(graph[v]), NEW callers, Advanced(callers, u),
         low' = [low EXCEPT ![v] = BackTo(v, u)], calls' = callers,
         UNCHANGED <<wf, graph, index, stack, sccs>>
  PROVE  Typed' /\ Tarjan'
<1> DEFINE L == Len(calls)
<1> USE DEF Tarjan
<1>1. /\ L \in Nat /\ L \in 1 .. L
      /\ OnStack \subseteq Visited /\ v \in OnStack
      /\ \A x \in Visited : index[x] \in Nat /\ low[x] \in Nat /\ low[x] <= index[x]
      /\ \A i \in 1 .. L : Caller(i) \in OnStack
  <2>1. L \in Nat /\ L # 0
    BY TypedFacts DEF Typed
  <2> QED
    BY <2>1, TypedFacts, IndexTells
<1>2. \A i \in 1 .. L : Caller(i) = v => i = L
  <2> SUFFICES ASSUME NEW i \in 1 .. L, Caller(i) = v, i # L
               PROVE  FALSE
    OBVIOUS
  <2>1. index[Caller(i)] < index[Caller(L)]
    BY <1>1 DEF Sorted
  <2> QED
    BY <1>1, <2>1
<1>3. /\ calls' \in Seq(CallT) /\ Len(calls') = L /\ DOMAIN calls' = 1 .. L
      /\ Visited' = Visited /\ OnStack' = OnStack /\ Done' = Done
      /\ graph' = graph /\ sccs' = sccs /\ index' = index /\ stack' = stack /\ wf' = wf
      /\ \A i \in 1 .. L : calls'[i].state = Caller(i)
  <2>1. callers \in Seq(CallT) /\ Len(callers) = L
    BY DEF Advanced
  <2>2. DOMAIN callers = 1 .. L
    BY <2>1
  <2> QED
    BY <2>1, <2>2 DEF Advanced, Visited, OnStack, Done
<1>4. /\ low' \in [Visited -> Nat]
      /\ \A x \in Visited \ {v} : low'[x] = low[x]
      /\ \A x \in Visited : low'[x] <= low[x]
      /\ u \in OnStack => low'[v] <= index[u]
      /\ low'[v] = low[v] \/ (u \in OnStack /\ low'[v] = index[u])
  <2>1. /\ low \in [Visited -> Nat] /\ v \in Visited
        /\ BackTo(v, u) \in Nat /\ BackTo(v, u) <= low[v]
        /\ u \in OnStack => BackTo(v, u) <= index[u]
        /\ BackTo(v, u) = low[v] \/ (u \in OnStack /\ BackTo(v, u) = index[u])
    BY <1>1 DEF Typed, BackTo, Minimum, OnStack
  <2> QED
    BY <1>1, <2>1
<1> HIDE DEF L
<1>5. \A n, m : FollowedIn(calls', n, m) => Followed(n, m) \/ (n = v /\ m = u)
  BY <1>3 DEF Advanced, L
<1>6. Typed'
  <2>1. \A x \in Visited : low'[x] <= index'[x] /\ index'[x] < Cardinality(Visited')
    BY <1>1, <1>3, <1>4 DEF Typed
  <2> QED
    BY <1>3, <1>4, <2>1 DEF Typed
<1>7. Sorted'
  <2>1. \A i \in 1 .. L : ToSet(calls'[i].edges) \subseteq ToSet(graph[Caller(i)])
    BY DEF Advanced, Sorted, L
  <2>2. \A j, k \in 1 .. L : j < k => index[Caller(j)] < index[Caller(k)]
    BY DEF Sorted, L
  <2> QED
    BY <1>1, <1>3, <2>1, <2>2 DEF Sorted, Caller
<1>8. Down'
  BY <1>3 DEF Down, Caller, L
<1>9. Up'
  BY <1>3 DEF Up, Caller, L
<1>10. LowFound'
  <2> SUFFICES ASSUME NEW i \in 1 .. L
               PROVE  \E w \in OnStack :
                         index[w] = low'[Caller(i)] /\ Path(graph, Caller(i), w)
    BY <1>3 DEF LowFound, Caller
  <2>1. CASE low'[Caller(i)] = low[Caller(i)]
    BY <2>1 DEF LowFound, L
  <2>2. CASE low'[Caller(i)] # low[Caller(i)]
    <3>1. Caller(i) = v /\ u \in OnStack /\ low'[v] = index[u]
      BY <1>1, <1>4, <2>2
    <3>2. Path(graph, Caller(i), u)
      BY <3>1, EdgeIsPath
    <3> QED
      BY <3>1, <3>2
  <2> QED
    BY <2>1, <2>2
<1>11. LowIsLeast'
  <2> SUFFICES ASSUME NEW i \in 1 .. L, NEW x \in OnStack, NEW w \in OnStack,
                      Below(i, x), FollowedIn(calls', x, w)
               PROVE  low'[Caller(i)] <= index[w]
    BY <1>3 DEF LowIsLeast, Below, Followed, FollowedIn, Caller, L
  <2>1. CASE Followed(x, w)
    <3>1. low[Caller(i)] <= index[w]
      BY <2>1 DEF LowIsLeast, L
    <3>2. low'[Caller(i)] <= low[Caller(i)] /\ low'[Caller(i)] \in Nat
      BY <1>1, <1>4
    <3> QED
      BY <1>1, <3>1, <3>2
  <2>2. CASE x = v /\ w = u
    <3>1. i = L
      <4>1. i < L => index[v] < index[v]
        BY <1>1, <2>2 DEF Below, L
      <4>2. ~(i < L)
        BY <1>1, <4>1
      <4> QED
        BY <1>1, <4>2
    <3> QED
      BY <1>4, <2>2, <3>1 DEF L
  <2> QED
    BY <1>5, <2>1, <2>2
<1>12. Known'
  <2>1. \A x \in OnStack : \A w : FollowedIn(calls', x, w) => w \in Visited
    BY <1>5 DEF Known
  <2>2. \A x \in Done : ToSet(graph[x]) \subseteq Done
    BY DEF Known
  <2> QED
    BY <1>3, <2>1, <2>2 DEF Known, Followed, FollowedIn
<1>13. ComponentsFound'
  BY <1>3 DEF ComponentsFound, Class
<1> QED
  BY <1>6, <1>7, <1>8, <1>9, <1>10, <1>11, <1>12, <1>13

-----------------------------------------------------------------------------
(***************************************************************************)
(* A call ends.                                                            *)
(***************************************************************************)

\* What is on the stack from v on.
StackFrom(v) == {u \in OnStack : index[v] <= index[u]}

\* The last call is the only one of its part of the stack.
LEMMA LastCall ==
  ASSUME Typed, Sorted, calls # <<>>, NEW v, v = Caller(Len(calls))
  PROVE  /\ Len(calls) \in 1 .. Len(calls) /\ v \in OnStack /\ v \in StackFrom(v)
         /\ \A i \in 1 .. Len(calls) : index[v] <= index[Caller(i)] => i = Len(calls)
         /\ \A i \in 1 .. Len(calls) :
               i # Len(calls) => index[Caller(i)] < index[v] /\ i < Len(calls)
         /\ \A u \in StackFrom(v) : Below(Len(calls), u)
<1>1. Len(calls) \in Nat /\ Len(calls) # 0
  BY TypedFacts DEF Typed
<1>2. /\ Len(calls) \in 1 .. Len(calls)
      /\ \A i \in 1 .. Len(calls) : Caller(i) \in OnStack /\ index[Caller(i)] \in Nat
  BY <1>1, TypedFacts, IndexTells
<1>3. v \in StackFrom(v)
  BY <1>2 DEF StackFrom
<1>4. \A i \in 1 .. Len(calls) :
         i # Len(calls) => index[Caller(i)] < index[v] /\ i < Len(calls)
  BY <1>1, <1>2 DEF Sorted
<1>5. \A i \in 1 .. Len(calls) : index[v] <= index[Caller(i)] => i = Len(calls)
  BY <1>2, <1>4
<1>6. \A u \in StackFrom(v) : Below(Len(calls), u)
  BY <1>1 DEF StackFrom, Below
<1> QED
  BY <1>2, <1>3, <1>4, <1>5, <1>6

\* When the last call has followed all its edges and found none that leads back
\* to before its state, the stack from there on is a component.
LEMMA RootOfComponent ==
  ASSUME Typed, Tarjan, calls # <<>>, NEW v, v = Caller(Len(calls)),
         calls[Len(calls)].edges = <<>>, low[v] = index[v]
  PROVE  /\ \A u \in StackFrom(v) : ToSet(graph[u]) \subseteq Done \cup StackFrom(v)
         /\ \A u \in StackFrom(v) : Class(graph, u) = StackFrom(v)
<1> DEFINE L == Len(calls)
<1> USE DEF Tarjan
<1>1. /\ L \in 1 .. L /\ v \in OnStack /\ v \in StackFrom(v)
      /\ \A i \in 1 .. L : index[v] <= index[Caller(i)] => i = L
      /\ \A u \in StackFrom(v) : Below(L, u)
  BY LastCall
<1>2. /\ OnStack \subseteq Visited /\ Visited \subseteq Name /\ DOMAIN calls = 1 .. L
      /\ StackFrom(v) \subseteq OnStack /\ Done \subseteq Visited /\ Done \cap OnStack = {}
      /\ \A x \in Visited : index[x] \in Nat
  BY TypedFacts DEF StackFrom, Done
<1>3. \A u \in StackFrom(v) : ToSet(graph[u]) \subseteq Done \cup StackFrom(v)
  <2> SUFFICES ASSUME NEW u \in StackFrom(v), NEW w \in ToSet(graph[u])
               PROVE  w \in Done \cup StackFrom(v)
    OBVIOUS
  <2>1. Followed(u, w)
    <3> SUFFICES ASSUME NEW i \in 1 .. L, calls[i].state = u
                 PROVE  w \notin ToSet(calls[i].edges)
      BY <1>2 DEF Followed, FollowedIn
    <3>1. i = L
      BY <1>1 DEF StackFrom, Caller
    <3>2. ToSet(<<>>) = {}
      BY DEF ToSet
    <3> QED
      BY <3>1, <3>2
  <2>2. w \in Visited
    BY <1>2, <2>1 DEF Known
  <2>3. ASSUME w \in OnStack
        PROVE  w \in StackFrom(v)
    <3>1. low[Caller(L)] <= index[w]
      BY <1>1, <1>2, <2>1, <2>3 DEF LowIsLeast
    <3> QED
      BY <2>3, <3>1 DEF StackFrom
  <2> QED
    BY <2>2, <2>3 DEF Done
<1>4. \A n, m : n \in Done \cup StackFrom(v) /\ Path(graph, n, m) => m \in Done \cup StackFrom(v)
  <2> DEFINE S == Done \cup StackFrom(v)
  <2>1. S \in SUBSET Name /\ \A n \in S : ToSet(graph[n]) \subseteq S
    BY <1>2, <1>3 DEF Known
  <2> HIDE DEF S
  <2>2. \A n, m : n \in S /\ Path(graph, n, m) => m \in S
    BY <2>1, NoPathLeaves
  <2> QED
    BY <2>2 DEF S
<1>5. ASSUME NEW u \in StackFrom(v)
      PROVE  Path(graph, u, v) /\ Path(graph, v, u)
  <2>1. PICK i \in 1 .. L : index[Caller(i)] <= index[u] /\ Path(graph, u, Caller(i))
    BY <1>2 DEF Up
  <2>2. Caller(i) \in Done \cup StackFrom(v)
    BY <1>4, <2>1
  <2>3. Caller(i) \in StackFrom(v)
    BY <1>2, <2>2, IndexTells
  <2>4. Caller(i) = v
    BY <1>1, <2>3 DEF StackFrom
  <2>5. Path(graph, v, u)
    BY <1>1, <1>2 DEF Down, StackFrom
  <2> QED
    BY <2>1, <2>4, <2>5
<1>6. ASSUME NEW u \in StackFrom(v)
      PROVE  Class(graph, u) = StackFrom(v)
  <2>1. ASSUME NEW w \in StackFrom(v)
        PROVE  w \in Class(graph, u)
    BY <1>2, <1>5, PathsJoin DEF Class
  <2>2. ASSUME NEW w \in Class(graph, u), w \notin StackFrom(v)
        PROVE  FALSE
    <3>1. Path(graph, u, w) /\ Path(graph, w, u)
      BY DEF Class
    <3>2. w \in Done
      BY <1>4, <2>2, <3>1
    <3>3. u \in Done
      BY <1>2, <3>1, <3>2, NoPathLeaves DEF Known
    <3> QED
      BY <1>2, <3>3
  <2> QED
    BY <2>1, <2>2
<1> QED
  BY <1>3, <1>6

\* The state is on the stack where Return looks for it: what is taken off is the
\* stack from there on.
LEMMA Popped ==
  ASSUME Typed, Sorted, NEW v \in OnStack,
         NEW from, from = SelectInSeq(stack, LAMBDA n : n = v)
  PROVE  /\ from \in 1 .. Len(stack)
         /\ ToSet(SubSeq(stack, from, Len(stack))) = StackFrom(v)
         /\ SubSeq(stack, 1, from - 1) \in Seq(OnStack \ StackFrom(v))
         /\ Len(SubSeq(stack, 1, from - 1)) \in 0 .. Len(stack)
         /\ \A k \in 1 .. Len(SubSeq(stack, 1, from - 1)) :
               SubSeq(stack, 1, from - 1)[k] = stack[k]
         /\ ToSet(SubSeq(stack, 1, from - 1)) = OnStack \ StackFrom(v)
<1> DEFINE rest == SubSeq(stack, 1, from - 1)
<1>1. stack \in Seq(Visited) /\ Len(stack) \in Nat
  BY TypedFacts DEF Typed
<1>2. from \in 1 .. Len(stack) /\ stack[from] = v
  BY <1>1, SelectedPlace DEF OnStack
<1>3. /\ \A u \in OnStack : u \in Name /\ index[u] \in Nat
      /\ \A u \in OnStack : \E k \in 1 .. Len(stack) : stack[k] = u
      /\ \A k \in 1 .. Len(stack) : stack[k] \in OnStack
  BY TypedFacts
<1>4. \A k \in 1 .. Len(stack) : stack[k] \in StackFrom(v) <=> from <= k
  <2> SUFFICES ASSUME NEW k \in 1 .. Len(stack)
               PROVE  index[v] <= index[stack[k]] <=> from <= k
    BY <1>3 DEF StackFrom
  <2>1. k < from => index[stack[k]] < index[v]
    BY <1>2 DEF Sorted
  <2>2. from < k => index[v] < index[stack[k]]
    BY <1>2 DEF Sorted
  <2>3. index[v] \in Nat /\ index[stack[k]] \in Nat
    BY <1>2, <1>3
  <2> QED
    BY <1>1, <1>2, <2>1, <2>2, <2>3
<1>5. ToSet(SubSeq(stack, from, Len(stack))) = {stack[k] : k \in from .. Len(stack)}
  BY <1>1, <1>2, SuffixLists
<1>6. {stack[k] : k \in from .. Len(stack)} = StackFrom(v)
  <2>1. StackFrom(v) \subseteq OnStack
    BY DEF StackFrom
  <2>2. \A k \in from .. Len(stack) : k \in 1 .. Len(stack) /\ from <= k
    BY <1>1, <1>2
  <2>3. \A k \in 1 .. Len(stack) : from <= k => k \in from .. Len(stack)
    BY <1>1, <1>2
  <2>4. \A k \in from .. Len(stack) : stack[k] \in StackFrom(v)
    BY <1>4, <2>2
  <2>5. \A u \in StackFrom(v) : \E k \in from .. Len(stack) : stack[k] = u
    BY <1>3, <1>4, <2>1, <2>3
  <2> QED
    BY <2>4, <2>5
<1>7. /\ rest \in Seq(Visited) /\ Len(rest) = from - 1
      /\ \A k \in 1 .. from - 1 : rest[k] = stack[k]
      /\ ToSet(rest) = {stack[k] : k \in 1 .. from - 1}
  <2>1. from - 1 \in 0 .. Len(stack)
    BY <1>1, <1>2
  <2> HIDE DEF rest
  <2> QED
    BY <1>1, <2>1, PrefixLists DEF rest
<1>8. {stack[k] : k \in 1 .. from - 1} = OnStack \ StackFrom(v)
  <2>1. \A k \in 1 .. from - 1 : k \in 1 .. Len(stack) /\ ~(from <= k)
    BY <1>1, <1>2
  <2>2. \A k \in 1 .. Len(stack) : from <= k \/ k \in 1 .. from - 1
    BY <1>1, <1>2
  <2>3. \A k \in 1 .. from - 1 : stack[k] \in OnStack \ StackFrom(v)
    BY <1>3, <1>4, <2>1
  <2>4. \A u \in OnStack \ StackFrom(v) : \E k \in 1 .. from - 1 : stack[k] = u
    BY <1>3, <1>4, <2>2
  <2> QED
    BY <2>3, <2>4
<1> HIDE DEF rest
<1>9. rest \in Seq(OnStack \ StackFrom(v))
  <2>1. rest \in [1 .. from - 1 -> OnStack \ StackFrom(v)] /\ from - 1 \in Nat
    <3>1. \A k \in 1 .. from - 1 : rest[k] \in OnStack \ StackFrom(v)
      BY <1>7, <1>8
    <3>2. DOMAIN rest = 1 .. from - 1 /\ rest = [k \in DOMAIN rest |-> rest[k]]
             /\ from - 1 \in Nat
      BY <1>1, <1>2, <1>7
    <3> QED
      BY <3>1, <3>2
  <2> DEFINE T == OnStack \ StackFrom(v)
             n == from - 1
  <2>2. rest \in [1 .. n -> T] /\ n \in Nat
    BY <2>1
  <2> HIDE DEF T, n
  <2>3. rest \in Seq(T)
    BY <2>2
  <2> QED
    BY <2>3 DEF T
<1>10. Len(rest) \in 0 .. Len(stack)
  BY <1>1, <1>2, <1>7
<1> QED
  BY <1>2, <1>5, <1>6, <1>7, <1>8, <1>9, <1>10 DEF rest

\* What the end of a call changes of the calls and of low.
LEMMA ReturnFacts ==
  ASSUME Typed, Sorted, Return, NEW v, v = Caller(Len(calls)), NEW L, L = Len(calls)
  PROVE  /\ calls # <<>> /\ L \in Nat /\ L \in 1 .. L /\ calls[L].edges = <<>>
         /\ v \in OnStack
         /\ wf' = wf /\ graph' = graph /\ index' = index /\ Visited' = Visited
         /\ calls' \in Seq(CallT) /\ Len(calls') = L - 1 /\ DOMAIN calls' = 1 .. L - 1
         /\ \A i \in 1 .. L - 1 : /\ calls'[i] = calls[i] /\ calls'[i].state = Caller(i)
                                  /\ i \in 1 .. L
         /\ low' \in [Visited -> Nat]
         /\ \A x \in Visited : low'[x] <= low[x]
         /\ \A i \in 1 .. L - 1 :
               /\ i # L - 1 => low'[Caller(i)] = low[Caller(i)]
               /\ i = L - 1 => /\ low'[Caller(i)] <= low[v]
                               /\ low'[Caller(i)] \in {low[Caller(i)], low[v]}
         /\ \A n, m : FollowedIn(calls', n, m) => Followed(n, m)
<1>1. /\ calls # <<>> /\ Last(calls).edges = <<>> /\ calls' = Front(calls)
      /\ wf' = wf /\ graph' = graph /\ index' = index
  BY DEF Return
<1>2. L \in Nat /\ L \in 1 .. L /\ v \in OnStack
  BY <1>1, LastCall, TypedFacts
<1>3. Last(calls) = calls[L] /\ Last(calls).state = v
  BY DEF Last, Caller
<1>4. /\ calls' \in Seq(CallT) /\ Len(calls') = L - 1
      /\ \A i \in 1 .. L - 1 : calls'[i] = calls[i] /\ i \in 1 .. L
      /\ DOMAIN calls' = 1 .. L - 1
  <2>1. calls \in Seq(CallT)
    BY DEF Typed
  <2>2. /\ Front(calls) \in Seq(CallT) /\ Len(Front(calls)) = L - 1
        /\ \A i \in 1 .. L - 1 : Front(calls)[i] = calls[i]
    BY <1>1, <2>1, FrontLists
  <2> QED
    BY <1>1, <1>2, <2>2
<1>5. \A i \in 1 .. L : /\ Caller(i) \in Visited /\ Caller(i) \in OnStack
                        /\ low[Caller(i)] \in Nat /\ index[Caller(i)] \in Nat
  BY TypedFacts, IndexTells
<1>6. \A i, j \in 1 .. L : Caller(i) = Caller(j) => i = j
  <2> SUFFICES ASSUME NEW i \in 1 .. L, NEW j \in 1 .. L, Caller(i) = Caller(j)
               PROVE  i = j
    OBVIOUS
  <2>1. i <= j /\ j <= i
    BY <1>5, IndexTells
  <2> QED
    BY <1>2, <2>1
<1>7. /\ low' \in [Visited -> Nat]
      /\ \A x \in Visited : low'[x] <= low[x]
      /\ \A i \in 1 .. L - 1 :
            /\ i # L - 1 => low'[Caller(i)] = low[Caller(i)]
            /\ i = L - 1 => /\ low'[Caller(i)] <= low[v]
                            /\ low'[Caller(i)] \in {low[Caller(i)], low[v]}
  <2>0. low \in [Visited -> Nat] /\ low[v] \in Nat
    BY <1>2, TypedFacts DEF Typed
  <2>1. CASE L = 1
    <3>1. calls' = <<>>
      BY <1>4, <2>1
    <3>2. low' = low
      BY <3>1 DEF Return
    <3> QED
      BY <2>0, <2>1, <3>2
  <2>2. CASE L # 1
    <3> DEFINE p == Caller(L - 1)
    <3>1. calls' # <<>> /\ L - 1 \in 1 .. L - 1 /\ L - 1 \in 1 .. L
      BY <1>2, <1>4, <2>2
    <3>2. Last(calls').state = p
      BY <1>4, <3>1 DEF Last, Caller
    <3>3. low' = [low EXCEPT ![p] = Minimum(low[p], low[v])]
      BY <1>3, <3>1, <3>2 DEF Return
    <3>4. p \in Visited /\ low[p] \in Nat
      BY <1>5, <3>1
    <3>5. \A i \in 1 .. L - 1 : i # L - 1 => Caller(i) # p
      BY <1>4, <1>6, <3>1
    <3> HIDE DEF p
    <3>6. /\ Minimum(low[p], low[v]) \in Nat
          /\ Minimum(low[p], low[v]) <= low[p] /\ Minimum(low[p], low[v]) <= low[v]
          /\ Minimum(low[p], low[v]) \in {low[p], low[v]}
      BY <2>0, <3>4 DEF Minimum
    <3>7. /\ low' \in [Visited -> Nat]
          /\ low'[p] = Minimum(low[p], low[v])
          /\ \A x \in Visited : x # p => low'[x] = low[x]
      BY <2>0, <3>3, <3>4, <3>6
    <3>8. \A x \in Visited : low'[x] <= low[x]
      BY <2>0, <3>6, <3>7
    <3>9. \A i \in 1 .. L - 1 : i # L - 1 => low'[Caller(i)] = low[Caller(i)]
      BY <1>4, <1>5, <3>5, <3>7
    <3> QED
      BY <3>6, <3>7, <3>8, <3>9 DEF p
  <2> QED
    BY <2>1, <2>2
<1>8. \A n, m : FollowedIn(calls', n, m) => Followed(n, m)
  <2> SUFFICES ASSUME NEW n, NEW m, FollowedIn(calls', n, m), NEW i \in 1 .. L,
                      calls[i].state = n
               PROVE  m \notin ToSet(calls[i].edges)
    BY TypedFacts DEF Followed, FollowedIn
  <2>1. CASE i = L
    <3>1. ToSet(<<>>) = {}
      BY DEF ToSet
    <3> QED
      BY <1>1, <1>3, <2>1, <3>1
  <2>2. CASE i # L
    <3>1. i \in 1 .. L - 1 /\ calls'[i] = calls[i]
      BY <1>2, <1>4, <2>2
    <3> QED
      BY <1>4, <3>1 DEF FollowedIn
  <2> QED
    BY <2>1, <2>2
<1> QED
  BY <1>1, <1>2, <1>3, <1>4, <1>7, <1>8 DEF Caller, Visited

\* A call ends that leads back to before its state: the state stays on the stack, in
\* the part of the caller.
LEMMA ReturnInside ==
  ASSUME Typed, Tarjan, Return, NEW v, v = Caller(Len(calls)), low[v] # index[v]
  PROVE  Typed' /\ Tarjan'
<1> DEFINE L == Len(calls)
<1> USE DEF Tarjan
<1>1. /\ calls # <<>> /\ L \in Nat /\ L \in 1 .. L /\ v \in OnStack
      /\ wf' = wf /\ graph' = graph /\ index' = index /\ Visited' = Visited
      /\ calls' \in Seq(CallT) /\ Len(calls') = L - 1 /\ DOMAIN calls' = 1 .. L - 1
      /\ \A i \in 1 .. L - 1 : /\ calls'[i] = calls[i] /\ calls'[i].state = Caller(i)
                               /\ i \in 1 .. L
      /\ low' \in [Visited -> Nat]
      /\ \A x \in Visited : low'[x] <= low[x]
      /\ \A i \in 1 .. L - 1 :
            /\ i # L - 1 => low'[Caller(i)] = low[Caller(i)]
            /\ i = L - 1 => /\ low'[Caller(i)] <= low[v]
                            /\ low'[Caller(i)] \in {low[Caller(i)], low[v]}
      /\ \A n, m : FollowedIn(calls', n, m) => Followed(n, m)
  BY ReturnFacts
<1>2. /\ stack' = stack /\ sccs' = sccs
  <2>1. Last(calls).state = v
    BY DEF Last, Caller
  <2> QED
    BY <2>1 DEF Return
<1>3. /\ OnStack' = OnStack /\ Done' = Done
  BY <1>1, <1>2 DEF OnStack, Done
<1>4. /\ OnStack \subseteq Visited
      /\ \A x \in Visited : index[x] \in Nat /\ low[x] \in Nat /\ low[x] <= index[x]
      /\ \A i \in 1 .. L : Caller(i) \in OnStack
  BY TypedFacts, IndexTells
<1>5. \A i \in 1 .. L : i # L => index[Caller(i)] < index[v] /\ i \in 1 .. L - 1
  BY <1>1, LastCall
<1>5a. \A u \in StackFrom(v) : Below(L, u)
  BY <1>1, LastCall
<1> HIDE DEF L
<1>6. PICK c \in 1 .. L - 1 : index[Caller(c)] < index[v] /\ Path(graph, v, Caller(c))
  <2>1. PICK w \in OnStack : index[w] = low[v] /\ Path(graph, v, w)
    BY <1>1 DEF LowFound, L
  <2>2. PICK i \in 1 .. L : index[Caller(i)] <= index[w] /\ Path(graph, w, Caller(i))
    BY DEF Up, L
  <2>3. index[Caller(i)] < index[v]
    BY <1>4, <1>1, <2>1, <2>2
  <2>4. i # L
    BY <1>4, <2>3 DEF L
  <2> QED
    BY <1>5, <2>1, <2>2, <2>3, <2>4, PathsJoin
<1>0. \A n, m : Followed(n, m)' => Followed(n, m)
  <2>1. \A n, m : Followed(n, m)' => FollowedIn(calls', n, m)
    <3>1. graph' = graph
      BY <1>1
    <3> QED
      BY <3>1 DEF Followed, FollowedIn
  <2> QED
    BY <1>1, <2>1
<1>7. Typed'
  <2>1. \A x \in Visited : low'[x] <= index'[x] /\ index'[x] < Cardinality(Visited')
    BY <1>1, <1>4 DEF Typed
  <2> QED
    BY <1>1, <1>2, <2>1 DEF Typed
<1>8. Sorted'
  BY <1>1, <1>2, <1>3 DEF Sorted, Caller, L
<1>9. Down'
  BY <1>1, <1>3 DEF Down, Caller, L
<1>10. Up'
  <2> SUFFICES ASSUME NEW x \in OnStack
               PROVE  \E i \in 1 .. L - 1 :
                         index[Caller(i)] <= index[x] /\ Path(graph, x, Caller(i))
    BY <1>1, <1>3 DEF Up, Caller
  <2>1. PICK i \in 1 .. L : index[Caller(i)] <= index[x] /\ Path(graph, x, Caller(i))
    BY DEF Up, L
  <2>2. CASE i # L
    BY <1>5, <2>1, <2>2
  <2>3. CASE i = L
    <3>1. index[Caller(c)] <= index[x]
      BY <1>1, <1>4, <1>6, <2>1, <2>3 DEF L
    <3>2. Path(graph, x, Caller(c))
      BY <1>6, <2>1, <2>3, PathsJoin DEF L
    <3> QED
      BY <3>1, <3>2
  <2> QED
    BY <2>2, <2>3
<1>11. LowFound'
  <2> SUFFICES ASSUME NEW i \in 1 .. L - 1
               PROVE  \E w \in OnStack :
                         index[w] = low'[Caller(i)] /\ Path(graph, Caller(i), w)
    BY <1>1, <1>3 DEF LowFound, Caller
  <2>1. CASE low'[Caller(i)] = low[Caller(i)]
    BY <1>1, <2>1 DEF LowFound, L
  <2>2. CASE low'[Caller(i)] # low[Caller(i)]
    <3>1. low'[Caller(i)] = low[v]
      BY <1>1, <2>2
    <3>2. PICK w \in OnStack : index[w] = low[v] /\ Path(graph, v, w)
      BY <1>1 DEF LowFound, L
    <3>3. Path(graph, Caller(i), v)
      <4>1. i # L /\ index[Caller(i)] < index[v]
        BY <1>1, <1>5
      <4>2. index[Caller(i)] <= index[v]
        BY <1>1, <1>4, <4>1
      <4> QED
        BY <1>1, <4>2 DEF Down, L
    <3>4. Path(graph, Caller(i), w)
      BY <3>2, <3>3, PathsJoin
    <3> QED
      BY <3>1, <3>2, <3>4
  <2> QED
    BY <2>1, <2>2
<1>12. LowIsLeast'
  <2> SUFFICES ASSUME NEW i \in 1 .. L - 1, NEW x \in OnStack, NEW w \in OnStack,
                      index[Caller(i)] <= index[x],
                      \A j \in 1 .. L - 1 : i < j => index[x] < index[Caller(j)],
                      Followed(x, w)
               PROVE  low'[Caller(i)] <= index[w]
    <3>1. /\ Len(calls') = L - 1 /\ index' = index /\ OnStack' = OnStack
          /\ \A i \in 1 .. L - 1 : calls'[i].state = Caller(i)
      BY <1>1, <1>3
    <3>2. SUFFICES ASSUME NEW i \in 1 .. L - 1, NEW x \in OnStack, NEW w \in OnStack,
                          Below(i, x)', Followed(x, w)'
                   PROVE  low'[Caller(i)] <= index[w]
      BY <3>1 DEF LowIsLeast, Caller
    <3>3. /\ index[Caller(i)] <= index[x]
          /\ \A j \in 1 .. L - 1 : i < j => index[x] < index[Caller(j)]
      BY <3>1, <3>2 DEF Below, Caller
    <3> QED
      BY <1>0, <3>2, <3>3
  <2>1. Followed(x, w)
    OBVIOUS
  <2>2. /\ low'[Caller(i)] \in Nat /\ low'[Caller(i)] <= low[Caller(i)]
        /\ low[Caller(i)] \in Nat /\ index[w] \in Nat /\ low[v] \in Nat
    BY <1>1, <1>4
  <2>3. CASE index[x] < index[v]
    <3>1. Below(i, x)
      <4> SUFFICES ASSUME NEW j \in 1 .. L, i < j
                   PROVE  index[x] < index[Caller(j)]
        BY DEF Below, L
      <4> QED
        BY <1>5, <2>3 DEF L
    <3>2. low[Caller(i)] <= index[w]
      BY <1>1, <2>1, <3>1 DEF LowIsLeast, L
    <3> QED
      BY <2>2, <3>2
  <2>4. CASE ~(index[x] < index[v])
    <3>1. x \in StackFrom(v)
      <4>1. v \in OnStack
        BY <1>1
      <4>2. index[v] \in Nat /\ index[x] \in Nat
        BY <1>4, <4>1
      <4> QED
        BY <2>4, <4>2 DEF StackFrom
    <3>2. Below(L, x)
      BY <3>1, <1>5a
    <3>3. low[v] <= index[w]
      BY <1>1, <2>1, <3>2 DEF LowIsLeast, L
    <3>4. i = L - 1
      <4> SUFFICES ASSUME i # L - 1
                   PROVE  FALSE
        OBVIOUS
      <4>0. L \in Nat
        BY <1>1
      <4>1. L - 1 \in 1 .. L - 1 /\ i < L - 1
        BY <4>0
      <4>2. index[x] < index[Caller(L - 1)] /\ index[Caller(L - 1)] < index[v]
        BY <1>1, <1>5, <4>1
      <4>3. L - 1 \in 1 .. L
        BY <4>0, <4>1
      <4>4. v \in OnStack
        BY <1>1
      <4>5. index[x] \in Nat /\ index[Caller(L - 1)] \in Nat /\ index[v] \in Nat
        BY <1>4, <4>3, <4>4
      <4> QED
        BY <2>4, <4>2, <4>5
    <3>5. low'[Caller(i)] <= low[v]
      BY <1>1, <3>4
    <3> QED
      BY <2>2, <3>3, <3>5
  <2> QED
    BY <2>3, <2>4
<1>13. Known'
  BY <1>0, <1>1, <1>3 DEF Known
<1>14. ComponentsFound'
  BY <1>1, <1>2, <1>3 DEF ComponentsFound, Class
<1> QED
  BY <1>7, <1>8, <1>9, <1>10, <1>11, <1>12, <1>13, <1>14

\* A call ends that leads back to nothing before its state: the stack from there on
\* is taken off, and is a component.
LEMMA ReturnRoot ==
  ASSUME Typed, Tarjan, Return, NEW v, v = Caller(Len(calls)), low[v] = index[v]
  PROVE  Typed' /\ Tarjan'
<1> DEFINE L == Len(calls)
           C == StackFrom(v)
<1> USE DEF Tarjan
<1>1. /\ calls # <<>> /\ L \in Nat /\ L \in 1 .. L /\ v \in OnStack
      /\ calls[L].edges = <<>>
      /\ wf' = wf /\ graph' = graph /\ index' = index /\ Visited' = Visited
      /\ calls' \in Seq(CallT) /\ Len(calls') = L - 1 /\ DOMAIN calls' = 1 .. L - 1
      /\ \A i \in 1 .. L - 1 : /\ calls'[i] = calls[i] /\ calls'[i].state = Caller(i)
                               /\ i \in 1 .. L
      /\ low' \in [Visited -> Nat]
      /\ \A x \in Visited : low'[x] <= low[x]
      /\ \A i \in 1 .. L - 1 :
            /\ i # L - 1 => low'[Caller(i)] = low[Caller(i)]
            /\ i = L - 1 => /\ low'[Caller(i)] <= low[v]
                            /\ low'[Caller(i)] \in {low[Caller(i)], low[v]}
      /\ \A n, m : FollowedIn(calls', n, m) => Followed(n, m)
  BY ReturnFacts
<1>2. /\ OnStack \subseteq Visited
      /\ \A x \in Visited : index[x] \in Nat /\ low[x] \in Nat /\ low[x] <= index[x]
      /\ \A i \in 1 .. L : Caller(i) \in OnStack
  BY TypedFacts, IndexTells
<1>3. /\ \A i \in 1 .. L : i # L => index[Caller(i)] < index[v] /\ i \in 1 .. L - 1
      /\ v \in C
  BY <1>1, LastCall
<1>4. /\ \A u \in C : ToSet(graph[u]) \subseteq Done \cup C
      /\ \A u \in C : Class(graph, u) = C
  BY <1>1, RootOfComponent
<1>5. PICK from : from = SelectInSeq(stack, LAMBDA n : n = Last(calls).state)
  OBVIOUS
<1>6. /\ stack' = SubSeq(stack, 1, from - 1)
      /\ sccs' = sccs \cup {ToSet(SubSeq(stack, from, Len(stack)))}
  <2>1. Last(calls).state = v
    BY DEF Last, Caller
  <2> QED
    BY <1>5, <2>1 DEF Return
<1>7. /\ sccs' = sccs \cup {C}
      /\ stack' \in Seq(OnStack \ C) /\ OnStack' = OnStack \ C
      /\ Len(stack') \in Nat /\ Len(stack') <= Len(stack) /\ Len(stack) \in Nat
      /\ \A k \in 1 .. Len(stack') : stack'[k] = stack[k]
  <2>1. /\ from \in 1 .. Len(stack)
        /\ ToSet(SubSeq(stack, from, Len(stack))) = C
        /\ SubSeq(stack, 1, from - 1) \in Seq(OnStack \ C)
        /\ Len(SubSeq(stack, 1, from - 1)) \in 0 .. Len(stack)
        /\ \A k \in 1 .. Len(SubSeq(stack, 1, from - 1)) :
              SubSeq(stack, 1, from - 1)[k] = stack[k]
        /\ ToSet(SubSeq(stack, 1, from - 1)) = OnStack \ C
    <3>1. from = SelectInSeq(stack, LAMBDA n : n = v)
      BY <1>5 DEF SelectInSeq, Last, Caller
    <3> QED
      BY <1>1, <3>1, Popped
  <2>2. Len(stack) \in Nat
    BY TypedFacts
  <2> HIDE DEF C
  <2> QED
    BY <1>6, <2>1, <2>2 DEF OnStack
<1>8. /\ C \subseteq OnStack
      /\ \A x \in OnStack : x \in C <=> ~(index[x] < index[v])
  BY <1>1, <1>2 DEF StackFrom
<1> HIDE DEF C, L
<1>9. Done' = Done \cup C
  BY <1>1, <1>2, <1>7, <1>8 DEF Done
<1>10. \A i \in 1 .. L - 1 : /\ Caller(i) \in OnStack' /\ Caller(i) \in OnStack
                             /\ index[Caller(i)] < index[v] /\ low'[Caller(i)] = low[Caller(i)]
                             /\ i \in 1 .. L /\ i < L
  <2> SUFFICES ASSUME NEW i \in 1 .. L - 1
               PROVE  /\ Caller(i) \in OnStack' /\ Caller(i) \in OnStack
                      /\ index[Caller(i)] < index[v] /\ low'[Caller(i)] = low[Caller(i)]
                      /\ i \in 1 .. L /\ i < L
    OBVIOUS
  <2>1. i \in 1 .. L /\ i < L /\ i # L
    BY <1>1
  <2>2. index[Caller(i)] < index[v] /\ Caller(i) \in OnStack
    BY <1>2, <1>3, <2>1
  <2>3. Caller(i) \in OnStack'
    BY <1>7, <1>8, <2>2
  <2>4. low[Caller(i)] < low[v] /\ low'[Caller(i)] <= low[Caller(i)]
    BY <1>1, <1>2, <2>2
  <2>5. low'[Caller(i)] = low[Caller(i)]
    <3>1. CASE i # L - 1
      BY <1>1, <3>1
    <3>2. CASE i = L - 1
      <4>1. low'[Caller(i)] \in {low[Caller(i)], low[v]}
        BY <1>1, <3>2
      <4>2. low[Caller(i)] \in Nat /\ low[v] \in Nat
        BY <1>1, <1>2, <2>2
      <4> QED
        BY <2>4, <4>1, <4>2
    <3> QED
      BY <3>1, <3>2
  <2> QED
    BY <2>1, <2>2, <2>3, <2>5
<1>11. \A n, m : Followed(n, m)' => Followed(n, m)
  <2>1. \A n, m : Followed(n, m)' => FollowedIn(calls', n, m)
    <3>1. graph' = graph
      BY <1>1
    <3> QED
      BY <3>1 DEF Followed, FollowedIn
  <2> QED
    BY <1>1, <2>1
<1>12. Typed'
  <2>1. \A x \in Visited : low'[x] <= index'[x] /\ index'[x] < Cardinality(Visited')
    BY <1>1, <1>2 DEF Typed
  <2>2. stack' \in Seq(Visited)
    <3> DEFINE T == OnStack \ C
    <3>1. T \subseteq Visited /\ stack' \in Seq(T)
      BY <1>2, <1>7
    <3> HIDE DEF T
    <3> QED
      BY <3>1
  <2> QED
    BY <1>1, <2>1, <2>2 DEF Typed
<1>13. Sorted'
  <2>1. \A j, k \in 1 .. Len(stack') : j < k => index'[stack'[j]] < index'[stack'[k]]
    <3>1. \A k \in 1 .. Len(stack') : k \in 1 .. Len(stack)
      BY <1>7
    <3>2. \A j, k \in 1 .. Len(stack') : j < k => index[stack[j]] < index[stack[k]]
      BY <3>1 DEF Sorted
    <3> QED
      BY <1>1, <1>7, <3>2
  <2>2. \A j, k \in 1 .. L - 1 : j < k => index[Caller(j)] < index[Caller(k)]
    BY <1>10 DEF Sorted, L
  <2>3. \A i \in 1 .. L - 1 : ToSet(calls'[i].edges) \subseteq ToSet(graph[Caller(i)])
    BY <1>1, <1>10 DEF Sorted, L
  <2> QED
    BY <1>1, <1>10, <2>1, <2>2, <2>3 DEF Sorted, Caller
<1>14. Down'
  BY <1>1, <1>7, <1>10 DEF Down, Caller, L
<1>15. Up'
  <2> SUFFICES ASSUME NEW x \in OnStack, x \notin C
               PROVE  \E i \in 1 .. L - 1 :
                         index[Caller(i)] <= index[x] /\ Path(graph, x, Caller(i))
    BY <1>1, <1>7 DEF Up, Caller
  <2>1. PICK i \in 1 .. L : index[Caller(i)] <= index[x] /\ Path(graph, x, Caller(i))
    BY DEF Up, L
  <2>2. i # L
    BY <1>1, <1>2, <1>8, <2>1 DEF L
  <2> QED
    BY <1>3, <2>1, <2>2
<1>16. LowFound'
  <2> SUFFICES ASSUME NEW i \in 1 .. L - 1
               PROVE  \E w \in OnStack' :
                         index[w] = low[Caller(i)] /\ Path(graph, Caller(i), w)
    BY <1>1, <1>10 DEF LowFound, Caller
  <2>1. PICK w \in OnStack : index[w] = low[Caller(i)] /\ Path(graph, Caller(i), w)
    BY <1>10 DEF LowFound, L
  <2>2. index[w] < index[v]
    <3>1. /\ low[Caller(i)] <= index[Caller(i)] /\ index[Caller(i)] < index[v]
          /\ low[Caller(i)] \in Nat /\ index[Caller(i)] \in Nat /\ index[v] \in Nat
      BY <1>1, <1>2, <1>10
    <3> QED
      BY <2>1, <3>1
  <2> QED
    BY <1>7, <1>8, <2>1, <2>2
<1>17. LowIsLeast'
  <2> SUFFICES ASSUME NEW i \in 1 .. L - 1, NEW x \in OnStack \ C, NEW w \in OnStack \ C,
                      Below(i, x)', Followed(x, w)'
               PROVE  low[Caller(i)] <= index[w]
    <3>1. /\ Len(calls') = L - 1 /\ index' = index /\ OnStack' = OnStack \ C
          /\ \A j \in 1 .. L - 1 : calls'[j].state = Caller(j)
                                   /\ low'[Caller(j)] = low[Caller(j)]
      BY <1>1, <1>7, <1>10
    <3> QED
      BY <3>1 DEF LowIsLeast, Caller
  <2>1. /\ index[Caller(i)] <= index[x]
        /\ \A j \in 1 .. L - 1 : i < j => index[x] < index[Caller(j)]
    <3>1. /\ Len(calls') = L - 1 /\ index' = index
          /\ \A j \in 1 .. L - 1 : calls'[j].state = Caller(j)
      BY <1>1
    <3> QED
      BY <3>1 DEF Below, Caller
  <2>2. Below(i, x)
    <3> SUFFICES ASSUME NEW j \in 1 .. L, i < j
                 PROVE  index[x] < index[Caller(j)]
      BY <2>1 DEF Below, L
    <3> QED
      BY <1>3, <1>8, <2>1 DEF L
  <2> QED
    BY <1>10, <1>11, <2>2 DEF LowIsLeast, L
<1>18. Known'
  <2>1. \A u \in OnStack' : \A w : Followed(u, w)' => w \in Visited'
    BY <1>1, <1>7, <1>11 DEF Known
  <2>2. \A u \in Done' : ToSet(graph[u]) \subseteq Done'
    BY <1>4, <1>9 DEF Known
  <2> QED
    BY <1>1, <2>1, <2>2 DEF Known
<1>19. ComponentsFound'
  <2>1. {Class(graph, n) : n \in Done \cup C} = {Class(graph, n) : n \in Done} \cup {C}
    BY <1>3, <1>4
  <2> QED
    BY <1>1, <1>7, <1>9, <2>1 DEF ComponentsFound
<1> QED
  BY <1>12, <1>13, <1>14, <1>15, <1>16, <1>17, <1>18, <1>19

-----------------------------------------------------------------------------
(***************************************************************************)
(* The steps of semanticChecks.                                            *)
(***************************************************************************)

\* Nothing is visited, and no check was made.
LEMMA SearchStarts == Init => SInv
<1> SUFFICES ASSUME Init
             PROVE  SInv
  OBVIOUS
<1>1. /\ WellFormed(wf) /\ pc = "shape" /\ valid = TRUE
      /\ graph = [n \in Name |-> <<>>] /\ index = [n \in {} |-> 0] /\ low = index
      /\ stack = <<>> /\ calls = <<>> /\ sccs = {} /\ seen = {} /\ todo = <<>>
  BY WorkflowsAssumption DEF Init
<1>2. ToSet(<<>>) = {} /\ Len(<<>>) = 0
  BY DEF ToSet
<1>3. Visited = {} /\ OnStack = {} /\ Done = {}
  BY <1>1, <1>2 DEF Visited, OnStack, Done
<1>4. Typed
  <2>1. IsFiniteSet({}) /\ Cardinality({}) = 0
    BY FS_EmptySet
  <2> QED
    BY <1>1, <1>3, <2>1 DEF Typed
<1>5. Tarjan
  BY <1>1, <1>2, <1>3
     DEF Tarjan, Sorted, Down, Up, LowFound, LowIsLeast, Known, ComponentsFound
<1>6. Phases
  BY <1>1, <1>3 DEF Phases
<1>7. Searched
  BY <1>1, <1>2 DEF Searched
<1> QED
  BY <1>4, <1>5, <1>6, <1>7 DEF SInv

\* What leaves the graph and the search for components leaves what is known of them.
LEMMA ComponentsStay ==
  ASSUME SInv, UNCHANGED <<wf, graph, tarjanVars>>
  PROVE  /\ Typed' /\ Tarjan' /\ Visited' = Visited /\ calls' = calls
         /\ checkLoopsTerminate(wf, sccs)' = checkLoopsTerminate(wf, sccs)
<1>1. /\ wf' = wf /\ graph' = graph /\ index' = index
      /\ low' = low /\ stack' = stack /\ calls' = calls /\ sccs' = sccs
  BY DEF tarjanVars
<1>2. Typed'
  BY <1>1 DEF SInv, Typed, Visited
<1>3. /\ Visited' = Visited /\ OnStack' = OnStack /\ Done' = Done
      /\ \A i : Caller(i)' = Caller(i)
      /\ \A n, m : Followed(n, m)' = Followed(n, m)
  BY <1>1 DEF Visited, OnStack, Done, Caller, Followed, FollowedIn
<1>4. Sorted'
  BY <1>1, <1>3 DEF SInv, Tarjan, Sorted, Caller
<1>5. Down' /\ Up' /\ LowFound'
  BY <1>1, <1>3 DEF SInv, Tarjan, Down, Up, LowFound, Caller
<1>6. LowIsLeast'
  BY <1>1, <1>3 DEF SInv, Tarjan, LowIsLeast, Below, Caller
<1>7. Known' /\ ComponentsFound'
  BY <1>1, <1>3 DEF SInv, Tarjan, Known, ComponentsFound
<1>8. checkLoopsTerminate(wf, sccs)' = checkLoopsTerminate(wf, sccs)
  BY <1>1 DEF checkLoopsTerminate, Cyclic, Bounding
<1> QED
  BY <1>1, <1>2, <1>3, <1>4, <1>5, <1>6, <1>7, <1>8 DEF Tarjan

\* A step of none of the validation's variables.
LEMMA SearchStays == SInv /\ UNCHANGED configVars => SInv'
<1> SUFFICES ASSUME SInv, UNCHANGED configVars
             PROVE  SInv'
  OBVIOUS
<1>1. /\ wf' = wf /\ pc' = pc /\ valid' = valid /\ graph' = graph
      /\ UNCHANGED <<wf, graph, tarjanVars>> /\ seen' = seen /\ todo' = todo
  BY DEF configVars, searchVars
<1>2. /\ Typed' /\ Tarjan' /\ Visited' = Visited /\ calls' = calls /\ stack' = stack
      /\ checkLoopsTerminate(wf, sccs)' = checkLoopsTerminate(wf, sccs) /\ sccs' = sccs
  BY <1>1, ComponentsStay DEF tarjanVars
<1>3. Phases' /\ Searched'
  BY <1>1, <1>2 DEF SInv, Phases, Searched
<1> QED
  BY <1>2, <1>3 DEF SInv

\* While the components are searched, the other search waits.
LEMMA OthersWait ==
  ASSUME SInv, pc = "cycles", UNCHANGED <<wf, pc, valid, graph, searchVars>>
  PROVE  Phases' /\ Searched'
BY DEF SInv, Phases, Searched, searchVars

\* The graph is built.
LEMMA ShapeKeeps == SInv /\ CheckShape => SInv'
<1> SUFFICES ASSUME SInv, CheckShape
             PROVE  SInv'
  OBVIOUS
<1>1. /\ pc = "shape" /\ pc' = "cycles" /\ wf' = wf /\ graph' = buildGraph(wf)
      /\ index' = index /\ low' = low /\ stack' = stack /\ calls' = calls /\ sccs' = sccs
      /\ seen' = seen /\ todo' = todo /\ valid' \in BOOLEAN
  BY DEF CheckShape, tarjanVars, searchVars, checkRefs, checkBranches, checkSources,
         checkMergeGated
<1>2. /\ Visited = {} /\ stack = <<>> /\ calls = <<>> /\ sccs = {}
  BY <1>1 DEF SInv, Phases
<1>3. ToSet(<<>>) = {} /\ Len(<<>>) = 0
  BY DEF ToSet
<1>4. Visited' = {} /\ OnStack' = {} /\ Done' = {}
  BY <1>1, <1>2, <1>3 DEF Visited, OnStack, Done
<1>5. Typed'
  <2>1. buildGraph(wf) \in [Name -> Seq(Name)]
    BY GraphOfTargets DEF SInv, Typed
  <2> QED
    BY <1>1, <2>1 DEF SInv, Typed, Visited
<1>6. Tarjan'
  BY <1>1, <1>2, <1>3, <1>4
     DEF Tarjan, Sorted, Down, Up, LowFound, LowIsLeast, Known, ComponentsFound
<1>7. Phases'
  BY <1>1 DEF Phases
<1>8. Searched'
  <2>1. seen = {} /\ todo = <<>>
    BY <1>1 DEF SInv, Searched
  <2> QED
    BY <1>1, <1>3, <2>1 DEF Searched
<1> QED
  BY <1>5, <1>6, <1>7, <1>8 DEF SInv

\* strong is called for a state not visited.
LEMMA CallRootKeeps == SInv /\ CallRoot => SInv'
<1> SUFFICES ASSUME SInv, CallRoot
             PROVE  SInv'
  OBVIOUS
<1>1. PICK u \in Declared(wf) \ Visited : Call(u, <<>>)
  BY DEF CallRoot, Visited
<1>2. pc = "cycles" /\ calls = <<>> /\ Typed /\ Tarjan /\ u \in Name \ Visited
  <2>1. Declared(wf) \subseteq Name
    BY DEF SInv, Typed, WellFormed
  <2> QED
    BY <1>1, <2>1 DEF CallRoot, SInv
<1>3. Advanced(<<>>, u)
  BY <1>2 DEF Advanced, Followed
<1>4. Len(calls) = 0
  BY <1>2
<1>5. Typed' /\ Tarjan'
  BY <1>1, <1>2, <1>3, <1>4, CallKeeps
<1>6. Phases' /\ Searched'
  BY <1>1, <1>2, OthersWait DEF Call
<1> QED
  BY <1>5, <1>6 DEF SInv

\* The edge of the last call leads to a state not visited, which is called, or to one
\* that was.
LEMMA FollowEdgeKeeps == SInv /\ FollowEdge => SInv'
<1> SUFFICES ASSUME SInv, FollowEdge
             PROVE  SInv'
  OBVIOUS
<1> DEFINE v == Last(calls).state
           u == Head(Last(calls).edges)
           callers == [calls EXCEPT ![Len(calls)].edges = Tail(@)]
<1>1. /\ pc = "cycles" /\ calls # <<>> /\ Last(calls).edges # <<>> /\ Typed /\ Tarjan
      /\ IF u \notin DOMAIN index THEN Call(u, callers)
         ELSE /\ low' = [low EXCEPT ![v] = BackTo(v, u)] /\ calls' = callers
              /\ UNCHANGED <<wf, pc, valid, graph, index, stack, sccs, searchVars>>
  BY DEF FollowEdge, SInv
<1>2. /\ Len(calls) \in 1 .. Len(calls) /\ v = Caller(Len(calls))
      /\ u \in ToSet(graph[v]) /\ u \in Name /\ Advanced(callers, u)
  BY <1>1, TakingAnEdge DEF Tarjan
<1> HIDE DEF v, u, callers
<1>3. CASE u \notin Visited
  <2>1. \A i \in 1 .. Len(calls) : Path(graph, Caller(i), u)
    <3> SUFFICES ASSUME NEW i \in 1 .. Len(calls)
                 PROVE  Path(graph, Caller(i), u)
      OBVIOUS
    <3>1. v \in OnStack /\ index[Caller(i)] <= index[v]
      <4>1. /\ Caller(i) \in OnStack /\ v \in OnStack /\ OnStack \subseteq Visited
            /\ \A x \in Visited : index[x] \in Nat
        BY <1>1, <1>2, IndexTells, TypedFacts DEF Tarjan
      <4>2. i # Len(calls) => index[Caller(i)] < index[v]
        BY <1>1, <1>2, LastCall DEF Tarjan
      <4> QED
        BY <1>2, <4>1, <4>2
    <3>2. Path(graph, Caller(i), v) /\ Path(graph, v, u)
      BY <1>1, <1>2, <3>1, EdgeIsPath DEF Tarjan, Down
    <3> QED
      BY <3>2, PathsJoin
  <2>2. Call(u, callers)
    BY <1>1, <1>3 DEF Visited
  <2>3. Typed' /\ Tarjan'
    BY <1>1, <1>2, <1>3, <2>1, <2>2, CallKeeps
  <2>4. Phases' /\ Searched'
    BY <1>1, <2>2, OthersWait DEF Call
  <2> QED
    BY <2>3, <2>4 DEF SInv
<1>4. CASE u \in Visited
  <2>1. /\ low' = [low EXCEPT ![v] = BackTo(v, u)] /\ calls' = callers
        /\ UNCHANGED <<wf, pc, valid, graph, index, stack, sccs, searchVars>>
    BY <1>1, <1>4 DEF Visited
  <2>2. Typed' /\ Tarjan'
    BY <1>1, <1>2, <1>4, <2>1, EdgeKeeps
  <2>3. Phases' /\ Searched'
    BY <1>1, <2>1, OthersWait
  <2> QED
    BY <2>2, <2>3 DEF SInv
<1> QED
  BY <1>3, <1>4

\* strong returns.
LEMMA ReturnKeeps == SInv /\ Return => SInv'
<1> SUFFICES ASSUME SInv, Return
             PROVE  SInv'
  OBVIOUS
<1>1. pc = "cycles" /\ UNCHANGED <<wf, pc, valid, graph, searchVars>> /\ Typed /\ Tarjan
  BY DEF Return, SInv
<1>2. PICK v : v = Caller(Len(calls))
  OBVIOUS
<1>3. Typed' /\ Tarjan'
  BY <1>1, <1>2, ReturnRoot, ReturnInside
<1>4. Phases' /\ Searched'
  BY <1>1, OthersWait
<1> QED
  BY <1>3, <1>4 DEF SInv

\* The cycles are judged, and the other search begins.
LEMMA CyclesKeep == SInv /\ CheckCycles => SInv'
<1> SUFFICES ASSUME SInv, CheckCycles
             PROVE  SInv'
  OBVIOUS
<1>1. /\ pc = "cycles" /\ pc' = "reach" /\ wf' = wf /\ graph' = graph
      /\ calls = <<>> /\ Declared(wf) \subseteq Visited
      /\ index' = index /\ low' = low /\ stack' = stack /\ calls' = calls /\ sccs' = sccs
      /\ seen' = seen /\ valid' \in BOOLEAN
      /\ valid' => checkLoopsTerminate(wf, sccs)
      /\ todo' = IF wf.entry \in Declared(wf) THEN <<wf.entry>> ELSE <<>>
  <2>1. valid \in BOOLEAN
    BY DEF SInv, Searched
  <2> QED
    BY <2>1 DEF CheckCycles, tarjanVars, checkLoopsTerminate, checkExits, Visited
<1>2. /\ Typed' /\ Tarjan' /\ Visited' = Visited /\ calls' = calls
      /\ checkLoopsTerminate(wf, sccs)' = checkLoopsTerminate(wf, sccs)
  BY <1>1, ComponentsStay DEF tarjanVars
<1>3. Phases'
  BY <1>1, <1>2 DEF SInv, Phases
<1>4. Searched'
  <2>1. seen = {} /\ Declared(wf) \subseteq Name
    BY <1>1 DEF SInv, Searched, Typed, WellFormed
  <2>2. /\ todo' \in Seq(Name) /\ ToSet(todo') \subseteq {wf.entry}
        /\ wf.entry \in Declared(wf) => wf.entry \in ToSet(todo')
    <3>1. CASE wf.entry \in Declared(wf)
      <4>1. todo' = <<wf.entry>> /\ wf.entry \in Name
        BY <1>1, <2>1, <3>1
      <4> QED
        BY <4>1 DEF ToSet
    <3>2. CASE wf.entry \notin Declared(wf)
      <4>1. todo' = <<>>
        BY <1>1, <3>2
      <4> QED
        BY <3>2, <4>1 DEF ToSet
    <3> QED
      BY <3>1, <3>2
  <2> QED
    BY <1>1, <2>1, <2>2, PathToItself DEF Searched
<1> QED
  BY <1>2, <1>3, <1>4 DEF SInv

\* A state is taken from those to be seen, and adds what it leads to.
LEMMA ReachKeeps == SInv /\ Reach => SInv'
<1> SUFFICES ASSUME SInv, Reach
             PROVE  SInv'
  OBVIOUS
<1> DEFINE n == Last(todo)
<1>1. /\ pc = "reach" /\ pc' = "reach" /\ todo # <<>> /\ UNCHANGED <<wf, valid, graph, tarjanVars>>
      /\ wf' = wf /\ graph' = graph /\ valid' = valid
      /\ seen' = seen \cup {n}
      /\ todo' = IF n \in seen THEN Front(todo) ELSE Front(todo) \o graph[n]
  BY DEF Reach
<1>2. /\ seen \in SUBSET Name /\ todo \in Seq(Name)
      /\ \A m \in seen \cup ToSet(todo) : Path(graph, wf.entry, m)
      /\ \A m \in seen : ToSet(graph[m]) \subseteq seen \cup ToSet(todo)
      /\ wf.entry \in Declared(wf) => wf.entry \in seen \cup ToSet(todo)
  BY <1>1 DEF SInv, Searched
<1>3. /\ Front(todo) \in Seq(Name) /\ n \in ToSet(todo) /\ n \in Name
      /\ ToSet(todo) = ToSet(Front(todo)) \cup {n}
  BY <1>1, <1>2, FrontLists, Listed
<1> HIDE DEF n
<1>4. graph[n] \in Seq(Name) /\ \A m \in ToSet(graph[n]) : Path(graph, wf.entry, m)
  <2>1. Path(graph, wf.entry, n)
    BY <1>2, <1>3
  <2> QED
    BY <1>3, <2>1, EdgeIsPath, PathsJoin, TypedFacts DEF SInv
<1>5. /\ todo' \in Seq(Name)
      /\ ToSet(todo') = IF n \in seen THEN ToSet(Front(todo))
                        ELSE ToSet(Front(todo)) \cup ToSet(graph[n])
  <2>1. /\ Front(todo) \o graph[n] \in Seq(Name)
        /\ ToSet(Front(todo) \o graph[n]) = ToSet(Front(todo)) \cup ToSet(graph[n])
    BY <1>3, <1>4, ConcatLists
  <2> QED
    BY <1>1, <1>3, <2>1
<1>6. Searched'
  <2>1. \A m \in seen' \cup ToSet(todo') : Path(graph, wf.entry, m)
    BY <1>1, <1>2, <1>3, <1>4, <1>5
  <2>2. \A m \in seen' : ToSet(graph[m]) \subseteq seen' \cup ToSet(todo')
    BY <1>1, <1>2, <1>3, <1>5
  <2>3. valid \in BOOLEAN
    BY DEF SInv, Searched
  <2>4. wf.entry \in Declared(wf) => wf.entry \in seen' \cup ToSet(todo')
    BY <1>1, <1>2, <1>3, <1>5
  <2> QED
    BY <1>1, <1>2, <1>3, <1>5, <2>1, <2>2, <2>3, <2>4 DEF Searched
<1>7. Typed' /\ Tarjan' /\ Phases'
  BY <1>1, ComponentsStay DEF SInv, Phases
<1> QED
  BY <1>6, <1>7 DEF SInv

\* The verdict.
LEMMA ConcludeKeeps == SInv /\ Conclude => SInv'
<1> SUFFICES ASSUME SInv, Conclude
             PROVE  SInv'
  OBVIOUS
<1>1. /\ pc = "reach" /\ todo = <<>> /\ pc' \in {"accepted", "rejected"}
      /\ pc' = "accepted" => valid
      /\ UNCHANGED <<wf, valid, graph, tarjanVars>> /\ seen' = seen /\ todo' = todo
      /\ wf' = wf /\ valid' = valid /\ graph' = graph
  BY DEF Conclude, searchVars
<1>2. Typed' /\ Tarjan'
  BY <1>1, ComponentsStay
<1>3. Phases'
  <2>1. /\ Visited' = Visited /\ calls' = calls
        /\ checkLoopsTerminate(wf, sccs)' = checkLoopsTerminate(wf, sccs)
    BY <1>1, ComponentsStay
  <2> QED
    BY <1>1, <2>1 DEF SInv, Phases
<1>4. Searched'
  BY <1>1 DEF SInv, Searched
<1> QED
  BY <1>2, <1>3, <1>4 DEF SInv

\* The invariant of the searches is kept by every step of the validation.
LEMMA SearchKeeps == SInv /\ semanticChecks => SInv'
BY ShapeKeeps, CallRootKeeps, FollowEdgeKeeps, ReturnKeeps, CyclesKeep, ReachKeeps, ConcludeKeeps
   DEF semanticChecks

-----------------------------------------------------------------------------
(***************************************************************************)
(* What the invariant comes to.                                            *)
(***************************************************************************)

\* When the cycles have been judged, the components are those of all states visited,
\* and all that is declared was.
LEMMA AllComponents ==
  ASSUME SInv, pc \in {"reach", "accepted", "rejected"}
  PROVE  /\ sccs = {Class(graph, n) : n \in Visited}
         /\ Declared(wf) \subseteq Visited /\ Done = Visited
BY EmptyBetweenCalls DEF SInv, Tarjan, Phases, ComponentsFound

\* Leads is Path, in the graph of the workflow.
LEMMA LeadsIsPath == \A n, m : Leads(n, m) <=> Path(graph, n, m)
BY DEF Leads, Path

\* Both searches find what they are for.
LEMMA SearchesFind == SInv => SearchesAreRight
<1> SUFFICES ASSUME SInv
             PROVE  SearchesAreRight
  OBVIOUS
<1>1. ASSUME pc = "reach"
      PROVE  sccs = {{m \in Name : Leads(n, m) /\ Leads(m, n)} : n \in DOMAIN index}
  <2>1. \A n : Class(graph, n) = {m \in Name : Leads(n, m) /\ Leads(m, n)}
    BY LeadsIsPath DEF Class
  <2> QED
    BY <1>1, <2>1, AllComponents DEF Visited
<1>2. ASSUME pc \in {"accepted", "rejected"}, wf.entry \in Declared(wf)
      PROVE  seen = {n \in Name : Leads(wf.entry, n)}
  <2>1. ToSet(todo) = {}
    BY <1>2 DEF SInv, Searched, ToSet
  <2>2. /\ seen \in SUBSET Name /\ wf.entry \in seen
        /\ \A n \in seen : ToSet(graph[n]) \subseteq seen
        /\ \A n \in seen : Path(graph, wf.entry, n)
    BY <1>2, <2>1 DEF SInv, Searched
  <2>3. \A n : Path(graph, wf.entry, n) => n \in seen
    BY <2>2, NoPathLeaves
  <2> QED
    BY <2>2, <2>3, LeadsIsPath
<1> QED
  BY <1>1, <1>2 DEF SearchesAreRight

\* A finite set with two members has a cardinality above 1.
LEMMA TwoAreMany ==
  ASSUME NEW S, IsFiniteSet(S), NEW a \in S, NEW b \in S, a # b
  PROVE  Cardinality(S) > 1
<1>1. {a, b} \subseteq S /\ Cardinality({a, b}) = 2
  <2>1. IsFiniteSet({a}) /\ Cardinality({a}) = 1 /\ b \notin {a}
    BY FS_Singleton
  <2>2. Cardinality({a} \cup {b}) = 2
    BY <2>1, FS_AddElement
  <2>3. {a} \cup {b} = {a, b}
    OBVIOUS
  <2> QED
    BY <2>2, <2>3
<1>2. Cardinality({a, b}) <= Cardinality(S)
  BY <1>1, FS_Subset
<1> QED
  BY <1>1, <1>2, FS_CardinalityType

\* In an accepted workflow a state on a cycle is in a component that is cyclic, and so
\* has a state with a bound.
LEMMA LoopsAreJudged == SInv => LoopsMeetABound
<1> SUFFICES ASSUME SInv, pc = "accepted", NEW n \in Declared(wf),
                    NEW k \in ToSet(graph[n]), Leads(k, n)
             PROVE  \E m \in Name : Bounding(wf, m) /\ Leads(n, m) /\ Leads(m, n)
  BY DEF LoopsMeetABound
<1> DEFINE C == Class(graph, n)
<1>1. /\ sccs = {Class(graph, m) : m \in Visited} /\ n \in Visited /\ Done = Visited
  BY AllComponents
<1>2. /\ Visited \subseteq Name /\ IsFiniteSet(Visited) /\ k \in Name
  BY <1>1, TypedFacts DEF SInv, Typed
<1>3. n \in C /\ k \in C
  BY <1>1, <1>2, PathToItself, EdgeIsPath, LeadsIsPath DEF Class
<1>4. IsFiniteSet(C)
  <2>1. C \subseteq Visited
    BY <1>1, ComponentsAreClosed DEF SInv, Tarjan
  <2> QED
    BY <1>2, <2>1, FS_Subset
<1> HIDE DEF C
<1>5. Cyclic(C)
  <2>1. CASE k = n
    BY <1>3, <2>1 DEF Cyclic
  <2>2. CASE k # n
    BY <1>3, <1>4, <2>2, TwoAreMany DEF Cyclic
  <2> QED
    BY <2>1, <2>2
<1>6. PICK m \in C : Bounding(wf, m)
  <2>1. C \in sccs
    BY <1>1 DEF C
  <2> QED
    BY <1>5, <2>1 DEF SInv, Phases, checkLoopsTerminate
<1> QED
  BY <1>6, LeadsIsPath DEF C, Class

\* The searches' invariant has the types in it.
LEMMA SearchTypes == SInv => TypeOK
<1> SUFFICES ASSUME SInv
             PROVE  TypeOK
  OBVIOUS
<1>1. /\ Declared(wf) \subseteq Name /\ graph \in [Name -> Seq(Name)]
      /\ DOMAIN index \subseteq Name /\ DOMAIN low = DOMAIN index
      /\ \A n \in DOMAIN index : low[n] <= index[n] /\ index[n] < Cardinality(DOMAIN index)
  BY DEF SInv, Typed, WellFormed, Visited
<1>2. /\ pc \in {"shape", "cycles", "reach", "accepted", "rejected"} /\ valid \in BOOLEAN
      /\ seen \subseteq Name /\ ToSet(todo) \subseteq Name
  BY Listed DEF SInv, Searched
<1>3. ToSet(stack) \subseteq DOMAIN index /\ \A k \in DOMAIN calls : calls[k].state \in ToSet(stack)
  BY TypedFacts, IndexTells DEF SInv, Tarjan, OnStack, Visited, Caller
<1>4. \A c \in sccs : c \subseteq DOMAIN index \ ToSet(stack)
  BY ComponentsAreClosed DEF SInv, Tarjan, ComponentsFound, Done, OnStack, Visited
<1> QED
  BY <1>1, <1>2, <1>3, <1>4 DEF TypeOK

=============================================================================
