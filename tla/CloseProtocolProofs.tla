------------------------ MODULE CloseProtocolProofs ------------------------
(***************************************************************************)
(* For any number of clients: nothing is admitted behind the drain of the  *)
(* commit calls, a pinned close leaves the database usable, teardown       *)
(* follows its users, a stopped pipeline has answered every handle, and an *)
(* answer that was given stays.                                            *)
(*                                                                         *)
(* The invariant grows with what it is for.  Admission says that after the *)
(* drain a commit gets no further than its first look at `closing`.        *)
(* Stages says what each stage of Close and ~Impl has already taken away.  *)
(* Leaving says who may still be inside when ~Impl runs.  Placement says   *)
(* where the answer of an admitted handle will come from.  That an answer  *)
(* stays needs Submission and Writing, that a commit is sent and written   *)
(* once, Emptied, that Close sweeps a drained pipeline, and Waiting, that  *)
(* the answer of a handle is that of its epoch.                            *)
(***************************************************************************)
EXTENDS CloseProtocol, FiniteSetTheorems, TLAPS

-----------------------------------------------------------------------------
(* What the append queue needs of sequences *)

LEMMA LenFacts ==
  ASSUME NEW S, NEW q \in Seq(S)
  PROVE  Len(q) \in Nat /\ DOMAIN q = 1..Len(q)
OBVIOUS

LEMMA EmptyFacts == \A S : <<>> \in Seq(S) /\ Len(<<>>) = 0 /\ Range(<<>>) = {}
BY DEF Range

LEMMA AppendFacts ==
  ASSUME NEW S, NEW q \in Seq(S), NEW x \in S
  PROVE  /\ Append(q, x) \in Seq(S)
         /\ Len(Append(q, x)) = Len(q) + 1
         /\ Range(Append(q, x)) = Range(q) \cup {x}
<1>1. /\ Append(q, x) \in Seq(S)
      /\ Len(Append(q, x)) = Len(q) + 1
      /\ \A i \in 1..Len(q) : Append(q, x)[i] = q[i]
      /\ Append(q, x)[Len(q) + 1] = x
  OBVIOUS
<1>2. /\ DOMAIN q = 1..Len(q)
      /\ DOMAIN Append(q, x) = 1..(Len(q) + 1)
      /\ Len(q) \in Nat
  BY <1>1
<1> QED
  BY <1>1, <1>2 DEF Range

\* The elements of a prefix of a sequence.
LEMMA PrefixElements ==
  ASSUME NEW S, NEW q \in Seq(S), NEW n \in Nat, n <= Len(q)
  PROVE  /\ SubSeq(q, 1, n) \in Seq(S)
         /\ Len(SubSeq(q, 1, n)) = n
         /\ DOMAIN SubSeq(q, 1, n) = 1..n
         /\ \A i \in 1..n : SubSeq(q, 1, n)[i] = q[i]
<1>1. Len(q) \in Nat /\ \A i \in 1..Len(q) : q[i] \in S
  OBVIOUS
<1>2. \A i \in 1..n : q[i] \in S
  BY <1>1
<1>3. /\ SubSeq(q, 1, n) \in Seq(S)
      /\ Len(SubSeq(q, 1, n)) = n
      /\ \A i \in 1..n : SubSeq(q, 1, n)[i] = q[i]
  BY <1>2
<1> QED
  BY <1>3

\* The elements behind a prefix of a sequence.
LEMMA RestElements ==
  ASSUME NEW S, NEW q \in Seq(S), NEW n \in Nat, n <= Len(q)
  PROVE  /\ SubSeq(q, n + 1, Len(q)) \in Seq(S)
         /\ Len(SubSeq(q, n + 1, Len(q))) = Len(q) - n
         /\ DOMAIN SubSeq(q, n + 1, Len(q)) = 1..(Len(q) - n)
         /\ \A i \in 1..(Len(q) - n) : SubSeq(q, n + 1, Len(q))[i] = q[n + i]
<1>1. Len(q) \in Nat /\ \A i \in 1..Len(q) : q[i] \in S
  OBVIOUS
<1>2. \A i \in (n + 1)..Len(q) : q[i] \in S
  BY <1>1
<1>3. /\ SubSeq(q, n + 1, Len(q)) \in Seq(S)
      /\ Len(SubSeq(q, n + 1, Len(q))) = Len(q) - n
      /\ \A i \in 1..(Len(q) - n) : SubSeq(q, n + 1, Len(q))[i] = q[n + i]
  BY <1>1, <1>2
<1> QED
  BY <1>3

\* A prefix and the rest of a sequence.
LEMMA SplitFacts ==
  ASSUME NEW S, NEW q \in Seq(S), NEW n \in Nat, n <= Len(q)
  PROVE  /\ SubSeq(q, 1, n) \in Seq(S)
         /\ Len(SubSeq(q, 1, n)) = n
         /\ SubSeq(q, n + 1, Len(q)) \in Seq(S)
         /\ Len(SubSeq(q, n + 1, Len(q))) = Len(q) - n
         /\ \A i \in 1..n : q[i] \in Range(SubSeq(q, 1, n))
         /\ \A i \in (n + 1)..Len(q) : q[i] \in Range(SubSeq(q, n + 1, Len(q)))
<1> DEFINE f == SubSeq(q, 1, n)
           g == SubSeq(q, n + 1, Len(q))
<1>1. Len(q) \in Nat
  OBVIOUS
<1>2. /\ f \in Seq(S) /\ Len(f) = n /\ DOMAIN f = 1..n
      /\ \A i \in 1..n : f[i] = q[i]
  BY PrefixElements, Zenon
<1>3. /\ g \in Seq(S) /\ Len(g) = Len(q) - n /\ DOMAIN g = 1..(Len(q) - n)
      /\ \A i \in 1..(Len(q) - n) : g[i] = q[n + i]
  BY RestElements, Zenon
<1> HIDE DEF f, g
<1>4. \A i \in 1..n : q[i] \in Range(f)
  BY <1>2, Zenon DEF Range
<1>5. ASSUME NEW i \in (n + 1)..Len(q)
      PROVE  q[i] \in Range(g)
  <2>1. i - n \in 1..(Len(q) - n) /\ n + (i - n) = i
    BY <1>1
  <2>2. g[i - n] = q[i]
    BY <1>3, <2>1
  <2> QED
    BY <1>3, <2>1, <2>2, Zenon DEF Range
<1> QED
  BY <1>2, <1>3, <1>4, <1>5, Zenon DEF f, g

LEMMA RangeFacts ==
  ASSUME NEW S, NEW q \in Seq(S)
  PROVE  /\ Len(q) \in Nat
         /\ Range(q) \subseteq S
         /\ \A i \in 1..Len(q) : q[i] \in Range(q) /\ q[i] \in S
         /\ \A x \in Range(q) : \E i \in 1..Len(q) : q[i] = x
         /\ Len(q) = 0 => Range(q) = {}
<1>1. Len(q) \in Nat /\ DOMAIN q = 1..Len(q) /\ \A i \in 1..Len(q) : q[i] \in S
  OBVIOUS
<1> QED
  BY <1>1 DEF Range

\* Appending an element that is not there keeps the elements distinct.
LEMMA AppendDistinct ==
  ASSUME NEW S, NEW q \in Seq(S), NEW x \in S, IsInjective(q), x \notin Range(q)
  PROVE  IsInjective(Append(q, x))
<1>1. /\ Append(q, x) \in Seq(S)
      /\ Len(Append(q, x)) = Len(q) + 1
      /\ \A i \in 1..Len(q) : Append(q, x)[i] = q[i]
      /\ Append(q, x)[Len(q) + 1] = x
  OBVIOUS
<1>2. /\ DOMAIN q = 1..Len(q)
      /\ DOMAIN Append(q, x) = 1..(Len(q) + 1)
      /\ Len(q) \in Nat
  BY <1>1
<1>3. \A i \in 1..Len(q) : q[i] # x
  BY <1>2 DEF Range
<1> QED
  BY <1>1, <1>2, <1>3 DEF IsInjective

\* A prefix of a sequence of distinct elements shares none with the rest.
LEMMA SplitDistinct ==
  ASSUME NEW S, NEW q \in Seq(S), NEW n \in Nat, n <= Len(q), IsInjective(q)
  PROVE  /\ IsInjective(SubSeq(q, 1, n))
         /\ IsInjective(SubSeq(q, n + 1, Len(q)))
         /\ Range(SubSeq(q, 1, n)) \subseteq Range(q)
         /\ Range(SubSeq(q, n + 1, Len(q))) \subseteq Range(q)
         /\ \A x \in Range(SubSeq(q, 1, n)) : \E i \in 1..n : q[i] = x
         /\ \A i \in 1..n : q[i] \notin Range(SubSeq(q, n + 1, Len(q)))
<1> DEFINE f == SubSeq(q, 1, n)
           g == SubSeq(q, n + 1, Len(q))
<1>1. Len(q) \in Nat /\ DOMAIN q = 1..Len(q)
  OBVIOUS
<1>2. DOMAIN f = 1..n /\ \A i \in 1..n : f[i] = q[i]
  BY PrefixElements, Zenon
<1>3. DOMAIN g = 1..(Len(q) - n) /\ \A i \in 1..(Len(q) - n) : g[i] = q[n + i]
  BY RestElements, Zenon
<1> HIDE DEF f, g
<1>5. IsInjective(f)
  BY <1>1, <1>2 DEF IsInjective
<1>6. IsInjective(g)
  <2> SUFFICES ASSUME NEW i \in 1..(Len(q) - n), NEW j \in 1..(Len(q) - n), g[i] = g[j]
               PROVE  i = j
    BY <1>3 DEF IsInjective
  <2>1. n + i \in 1..Len(q) /\ n + j \in 1..Len(q)
    BY <1>1
  <2>2. n + i = n + j
    BY <1>1, <1>3, <2>1, Zenon DEF IsInjective
  <2> QED
    BY <2>2
<1>7. /\ \A x \in Range(f) : \E i \in 1..n : q[i] = x
      /\ Range(f) \subseteq Range(q)
  BY <1>1, <1>2 DEF Range
<1>8. ASSUME NEW x \in Range(g)
      PROVE  \E i \in (n + 1)..Len(q) : q[i] = x
  <2>1. PICK j \in 1..(Len(q) - n) : g[j] = x
    BY <1>3 DEF Range
  <2>2. n + j \in (n + 1)..Len(q)
    BY <1>1
  <2> QED
    BY <1>3, <2>1, <2>2
<1>9. Range(g) \subseteq Range(q)
  <2>1. \A i \in (n + 1)..Len(q) : i \in 1..Len(q)
    BY <1>1
  <2> QED
    BY <1>1, <1>8, <2>1, Zenon DEF Range
<1>10. \A i \in 1..n : q[i] \notin Range(g)
  BY <1>1, <1>8 DEF IsInjective
<1> QED
  BY <1>5, <1>6, <1>7, <1>9, <1>10, Zenon DEF f, g

\* The first of some distinct elements, and the rest.
LEMMA HeadFacts ==
  ASSUME NEW S, NEW q \in Seq(S), q # <<>>, IsInjective(q)
  PROVE  /\ Head(q) \in Range(q) /\ Head(q) \notin Range(Tail(q))
         /\ Range(Tail(q)) \subseteq Range(q)
         /\ IsInjective(Tail(q))
<1>1. /\ Len(q) \in Nat /\ Len(q) >= 1 /\ DOMAIN q = 1..Len(q)
      /\ Head(q) = q[1]
      /\ DOMAIN Tail(q) = 1..(Len(q) - 1)
      /\ \A i \in 1..(Len(q) - 1) : Tail(q)[i] = q[i + 1]
  OBVIOUS
<1>2. \A i \in 1..(Len(q) - 1) : i + 1 \in 1..Len(q) /\ i + 1 # 1
  BY <1>1
<1>3. \A x \in Range(Tail(q)) : \E i \in 1..(Len(q) - 1) : q[i + 1] = x
  BY <1>1 DEF Range
<1>4. 1 \in 1..Len(q)
  BY <1>1
<1>5. Head(q) \in Range(q) /\ Head(q) \notin Range(Tail(q))
  BY <1>1, <1>2, <1>3, <1>4 DEF IsInjective, Range
<1>6. Range(Tail(q)) \subseteq Range(q)
  BY <1>1, <1>2, <1>3 DEF Range
<1>7. IsInjective(Tail(q))
  <2> SUFFICES ASSUME NEW i \in 1..(Len(q) - 1), NEW j \in 1..(Len(q) - 1),
                      Tail(q)[i] = Tail(q)[j]
               PROVE  i = j
    BY <1>1, Zenon DEF IsInjective
  <2>1. i + 1 = j + 1
    BY <1>1, <1>2 DEF IsInjective
  <2> QED
    BY <2>1
<1> QED
  BY <1>5, <1>6, <1>7, Zenon

-----------------------------------------------------------------------------
(* The invariant *)

Registered == InCommit \cup {"recheck_closing", "recheck_closed", "withdraw"}
Phase == Registered \cup {"idle", "begin", "open", "register", "submit", "returned", "gone"}
Inside == {t \in Client : phase[t] \in Registered}

\* A commit that registers after the drain still has to look at `closing`,
\* which is set until `closed` is.
Admission ==
  /\ phase \in [Client -> Phase]
  /\ active_commit_calls = Cardinality(Inside)
  /\ pc = "idle" => ~closing
  /\ PastCallDrain => \A t \in Client : phase[t] \notin InCommit \cup {"recheck_closed"}

Stopped == {"detach", "finish", "set_closed", "unset_closing"}
Joined == {"fail_remaining", "stop_worker", "join_worker"} \cup Stopped
Stopping == {"stop_executor", "fail_pending", "join_executor"} \cup Joined
Late == Stopping \cup {"destroyed"}

Untouched ==
  /\ accepting_snapshots /\ store_open /\ query_state_attached
  /\ ~stopping /\ executor # "exited"
  /\ ~append_commit_stopping /\ worker # "exited"

\* What Close and ~Impl have taken away by each of their stages.
Stages ==
  /\ pc \notin Late /\ ~closed => Untouched
  /\ closed => pc \in {"idle", "unset_closing", "destroyed", "terminated"}
  /\ closed \/ pc \in Joined => executor = "exited"
  /\ closed \/ pc \in Stopped => worker = "exited"
  /\ pc \in Stopped => closing
  /\ pc = "unset_closing" => closed
  /\ pc \in Stopping /\ closing => ~accepting_snapshots
  /\ ~query_state_attached => executor = "exited" /\ worker = "exited"
  /\ ~store_open => ~accepting_snapshots /\ worker = "exited"
  /\ ~accepting_snapshots => pins = {}

\* Nobody is left in a call of a dropped database.
Left == owner = "dropped" /\ \A t \in Client : phase[t] \in {"idle", "gone"}

\* ~Impl runs when the last client has left; no ticket comes once the executor
\* is stopping, and no request once the pipeline is.
Leaving ==
  /\ pc \in Late => closing \/ Left
  /\ pc \notin Late \cup {"idle", "terminated"} => closing
  /\ closed \/ pc \in Late \ {"stop_executor"} => stopping
  /\ pc = "fail_remaining" => tickets \subseteq sweep
  /\ closed \/ pc \in {"stop_worker", "join_worker", "destroyed"} \cup Stopped => tickets = {}
  /\ pc = "destroyed" => worker = "exited"
  /\ worker = "exited" => append_commit_stopping /\ append_commit_requests = <<>>

\* An admitted request is queued, in the worker's group, or bound to an epoch.
Placed(t) ==
  \/ t \in bound
  \/ t \in Range(append_commit_requests)
  \/ worker = "bind" /\ t \in Grouped

\* Where the answer of a handle comes from.
Placement ==
  /\ \A t \in handles : Async(t) /\ (Placed(t) \/ result[t] # "none")
  /\ \A t \in admitted : Async(t) /\ Placed(t)
  /\ executor = "admit" => \A t \in handing : Async(t) /\ Placed(t)
  /\ \A t, u \in handing : t = u
  /\ \A t \in bound : /\ Async(t)
                      /\ \/ epoch_result[t] # "none"
                         \/ worker \in {"write", "account", "publish"} /\ t \in Grouped
  /\ worker \in {"account", "publish"} => outcome # "none"
  /\ worker \in {"write", "account", "publish", "published"} =>
       \A t \in Grouped : Async(t) => t \in bound
  /\ durable \subseteq bound
  /\ \A t \in Client : epoch_result[t] # "none" => t \in bound

\* Whoever is queued, grouped or bound is a client.
Sequenced ==
  /\ queue \in Seq(Client) /\ handing \subseteq Client
  /\ append_commit_requests \in Seq(Client) /\ requests \in Seq(Client)
  /\ bound \subseteq Client /\ handles \subseteq Client
  /\ DOMAIN result = Client /\ DOMAIN epoch_result = Client

-----------------------------------------------------------------------------
(* Admission. *)

\* The clients inside, when one of them moves.
LEMMA InsideMoves ==
  ASSUME phase \in [Client -> Phase], NEW t \in Client, NEW n \in Phase,
         phase' = [phase EXCEPT ![t] = n]
  PROVE  /\ phase' \in [Client -> Phase]
         /\ phase[t] \in Registered <=> n \in Registered => Inside' = Inside
         /\ n \in Registered => Inside' = Inside \cup {t}
         /\ n \notin Registered => Inside' = Inside \ {t}
BY Zenon DEF Inside

\* The clients inside can be counted.
LEMMA InsideCounted == IsFiniteSet(Inside) /\ Cardinality(Inside) \in Nat
BY CloseAssumption, FS_Subset, FS_CardinalityType, Zenon DEF Inside

\* What leaves the calls, the flag and the close alone.
LEMMA AdmissionFrame ==
  ASSUME Admission, UNCHANGED <<phase, active_commit_calls, pc, closing>>
  PROVE  Admission'
BY Zenon DEF Admission, PastCallDrain, Inside

\* A client that neither comes in nor goes out, and passes its look at
\* `closing` only if no close is in progress.
Sideways(from, to) ==
  /\ from \in Registered <=> to \in Registered
  /\ to \in InCommit \cup {"recheck_closed"} =>
       from \in InCommit \cup {"recheck_closed"} \/ ~closing

\* Such a move keeps the count and what Admission says of the drain.
LEMMA AdmissionMove ==
  ASSUME Admission, NEW t \in Client, NEW n \in Phase,
         phase' = [phase EXCEPT ![t] = n], Sideways(phase[t], n),
         UNCHANGED <<active_commit_calls, pc, closing>>
  PROVE  Admission'
<1>1. Inside' = Inside /\ phase' \in [Client -> Phase]
  BY InsideMoves, Zenon DEF Admission, Sideways
<1>2. PastCallDrain' <=> PastCallDrain
  BY Zenon DEF PastCallDrain
<1>3. PastCallDrain => closing
  BY Zenon DEF PastCallDrain
<1>4. \A u \in Client : phase'[u] = IF u = t THEN n ELSE phase[u]
  BY Zenon DEF Admission
<1> QED
  BY <1>1, <1>2, <1>3, <1>4, Zenon DEF Admission, Sideways

\* Every step keeps a late commit in front of its look at `closing`.
LEMMA AdmissionStep == Admission /\ [Next]_vars => Admission'
<1> SUFFICES ASSUME Admission, [Next]_vars
             PROVE  Admission'
  BY Zenon
<1> USE DEF flags, closeVars, clientVars, storeVars, executorVars, pipelineVars, handleVars,
            queryVars, To
<1>1. ASSUME NEW t \in Client, BeginTransaction(t)
      PROVE  Admission'
  <2>1. PICK n \in {"begin"} : phase' = [phase EXCEPT ![t] = n]
    BY <1>1, Zenon DEF BeginTransaction
  <2>2. phase[t] = "idle" /\ UNCHANGED <<active_commit_calls, pc, closing>>
    BY <1>1, Zenon DEF BeginTransaction
  <2>3. Sideways(phase[t], n)
    BY <2>1, <2>2, Zenon DEF Sideways, Registered, InCommit
  <2>4. n \in Phase
    BY <2>1, Zenon DEF Phase, Registered, InCommit
  <2> QED
    BY <2>1, <2>2, <2>3, <2>4, AdmissionMove, Zenon
<1>2. ASSUME NEW t \in Client, StartCommit(t)
      PROVE  Admission'
  <2>1. PICK n \in {"open", "register"} : phase' = [phase EXCEPT ![t] = n]
    BY <1>2, Zenon DEF StartCommit
  <2>2. phase[t] = "open" /\ UNCHANGED <<active_commit_calls, pc, closing>>
    BY <1>2, Zenon DEF StartCommit
  <2>3. Sideways(phase[t], n)
    BY <2>1, <2>2, Zenon DEF Sideways, Registered, InCommit
  <2>4. n \in Phase
    BY <2>1, Zenon DEF Phase, Registered, InCommit
  <2> QED
    BY <2>1, <2>2, <2>3, <2>4, AdmissionMove, Zenon
<1>3. ASSUME NEW t \in Client, DropTransaction(t) \/ CheckRefresh(t) \/ PinSnapshot(t)
      PROVE  Admission'
  <2>1. PICK n \in {"gone", "submit", "open"} : phase' = [phase EXCEPT ![t] = n]
    BY <1>3, Zenon DEF DropTransaction, CheckRefresh, PinSnapshot
  <2>2. phase[t] \in {"begin", "open", "returned"} /\ UNCHANGED <<active_commit_calls, pc, closing>>
    BY <1>3, Zenon DEF DropTransaction, CheckRefresh, PinSnapshot
  <2>3. Sideways(phase[t], n)
    BY <2>1, <2>2, Zenon DEF Sideways, Registered, InCommit
  <2>4. n \in Phase
    BY <2>1, Zenon DEF Phase, Registered, InCommit
  <2> QED
    BY <2>1, <2>2, <2>3, <2>4, AdmissionMove, Zenon
<1>4. ASSUME NEW t \in Client, Register(t)
      PROVE  Admission'
  <2>1. /\ phase' = [phase EXCEPT ![t] = "recheck_closing"] /\ phase[t] = "register"
        /\ active_commit_calls' = active_commit_calls + 1 /\ UNCHANGED <<pc, closing>>
    BY <1>4, Zenon DEF Register
  <2>2. /\ "recheck_closing" \in Registered /\ "register" \notin Registered
        /\ "recheck_closing" \in Phase
    BY Zenon DEF Registered, InCommit, Phase
  <2>3. Inside' = Inside \cup {t} /\ phase' \in [Client -> Phase] /\ t \notin Inside
    BY <2>1, <2>2, InsideMoves, Zenon DEF Admission, Inside
  <2>4. Cardinality(Inside') = Cardinality(Inside) + 1
    BY <2>3, InsideCounted, FS_AddElement, Zenon
  <2>5. \A u \in Client : phase'[u] = IF u = t THEN "recheck_closing" ELSE phase[u]
    BY <2>1, Zenon DEF Admission
  <2> QED
    BY <2>1, <2>3, <2>4, <2>5, Zenon DEF Admission, PastCallDrain, InCommit
<1>5. ASSUME NEW t \in Client, Recheck(t)
      PROVE  Admission'
  <2>1. PICK n \in {"withdraw", "recheck_closed", "admitted"} :
          /\ phase' = [phase EXCEPT ![t] = n]
          /\ n = "recheck_closed" => ~closing
          /\ n = "admitted" => phase[t] = "recheck_closed"
    BY <1>5, Zenon DEF Recheck
  <2>2. /\ phase[t] \in {"recheck_closing", "recheck_closed"}
        /\ UNCHANGED <<active_commit_calls, pc, closing>>
    BY <1>5, Zenon DEF Recheck
  <2>3. Sideways(phase[t], n)
    BY <2>1, <2>2, Zenon DEF Sideways, Registered, InCommit
  <2>4. n \in Phase
    BY <2>1, Zenon DEF Phase, Registered, InCommit
  <2> QED
    BY <2>1, <2>2, <2>3, <2>4, AdmissionMove, Zenon
<1>6. ASSUME NEW t \in Client, EndCommit(t)
      PROVE  Admission'
  <2>1. PICK n \in {"returned", "open"} :
          /\ phase' = [phase EXCEPT ![t] = n] /\ phase[t] \in {"withdraw", "end"}
          /\ active_commit_calls' = active_commit_calls - 1 /\ UNCHANGED closing
    BY <1>6, Zenon DEF EndCommit
  <2>2. n \notin Registered /\ phase[t] \in Registered /\ n \in Phase
    BY <2>1, Zenon DEF Registered, InCommit, Phase
  <2>3. Inside' = Inside \ {t} /\ phase' \in [Client -> Phase] /\ t \in Inside
    BY <2>1, <2>2, InsideMoves, Zenon DEF Admission, Inside
  <2>4. Cardinality(Inside') = Cardinality(Inside) - 1
    BY <2>3, InsideCounted, FS_RemoveElement, Zenon
  <2>5. \A u \in Client : phase'[u] = IF u = t THEN n ELSE phase[u]
    BY <2>1, Zenon DEF Admission
  <2>6. pc' = pc \/ (pc = "calls_asleep" /\ pc' = "calls")
    BY <1>6, Zenon DEF EndCommit, WakeCallDrain
  <2> QED
    BY <2>1, <2>3, <2>4, <2>5, <2>6, Zenon DEF Admission, PastCallDrain, InCommit
<1>7. ASSUME NEW t \in Client, SubmitSync(t)
      PROVE  Admission'
  <2>1. PICK n \in {"waiting", "finish"} : phase' = [phase EXCEPT ![t] = n]
    BY <1>7, Zenon DEF SubmitSync
  <2>2. phase[t] = "admitted" /\ UNCHANGED <<active_commit_calls, pc, closing>>
    BY <1>7, Zenon DEF SubmitSync
  <2>3. Sideways(phase[t], n)
    BY <2>1, <2>2, Zenon DEF Sideways, Registered, InCommit
  <2>4. n \in Phase
    BY <2>1, Zenon DEF Phase, Registered, InCommit
  <2> QED
    BY <2>1, <2>2, <2>3, <2>4, AdmissionMove, Zenon
<1>8. ASSUME NEW t \in Client, SubmitTicket(t)
      PROVE  Admission'
  <2>1. PICK n \in {"waiting", "finish", "gone"} : phase' = [phase EXCEPT ![t] = n]
                                                /\ (n = "gone" <=> ~Async(t))
    BY <1>8, Zenon DEF SubmitTicket
  <2>2. /\ phase[t] = IF Async(t) THEN "admitted" ELSE "submit"
        /\ UNCHANGED <<active_commit_calls, pc, closing>>
    BY <1>8, Zenon DEF SubmitTicket
  <2>3. Sideways(phase[t], n)
    BY <2>1, <2>2, Zenon DEF Sideways, Registered, InCommit
  <2>4. n \in Phase
    BY <2>1, Zenon DEF Phase, Registered, InCommit
  <2> QED
    BY <2>1, <2>2, <2>3, <2>4, AdmissionMove, Zenon
<1>9. ASSUME NEW t \in Client, FinishCommit(t)
      PROVE  Admission'
  <2>1. PICK n \in {"finish", "end"} : phase' = [phase EXCEPT ![t] = n]
    BY <1>9, Zenon DEF FinishCommit
  <2>2. phase[t] \in {"waiting", "finish"} /\ UNCHANGED <<active_commit_calls, pc, closing>>
    BY <1>9, Zenon DEF FinishCommit
  <2>3. Sideways(phase[t], n)
    BY <2>1, <2>2, Zenon DEF Sideways, Registered, InCommit
  <2>4. n \in Phase
    BY <2>1, Zenon DEF Phase, Registered, InCommit
  <2> QED
    BY <2>1, <2>2, <2>3, <2>4, AdmissionMove, Zenon
<1>10. ASSUME NEW t \in Client,
              \/ WaitHandle(t) \/ OpenCursor(t) \/ BeginOperation(t) \/ EndOperation(t)
              \/ CloseCursor(t) \/ CloseCallback(t) \/ Handoff(t)
              \/ MarkCommitHandleAdmitted(t) \/ FailTicket(t)
       PROVE  Admission'
  <2>1. UNCHANGED <<phase, active_commit_calls, pc, closing>>
    BY <1>10, Zenon DEF WaitHandle, OpenCursor, BeginOperation, EndOperation, CloseCursor,
      CloseCallback, Handoff, MarkCommitHandleAdmitted, FailTicket
  <2> QED
    BY <2>1, AdmissionFrame, Zenon
<1>11. ASSUME \/ ExecutorTake \/ ExecutorExit \/ Select \/ BindEpoch \/ WriteEpoch
              \/ AccountEpoch \/ PublishEpoch \/ WorkerExit
       PROVE  Admission'
  <2>1. UNCHANGED <<phase, active_commit_calls, pc, closing>>
    BY <1>11, Zenon DEF ExecutorTake, ExecutorExit, Select, BindEpoch, WriteEpoch, AccountEpoch,
      PublishEpoch, WorkerExit
  <2> QED
    BY <2>1, AdmissionFrame, Zenon
<1>12. ASSUME \/ DropTicket \/ FinishEpoch \/ DropDatabase \/ CloseQueries
              \/ DrainAppendCommitPipeline \/ StopExecutor \/ StopWorker
       PROVE  Admission'
  <2>1. UNCHANGED <<phase, active_commit_calls, closing>>
    BY <1>12, Zenon DEF DropTicket, FinishEpoch, DropDatabase, CloseQueries,
      DrainAppendCommitPipeline, StopExecutor, StopWorker
  <2>2. Inside' = Inside
    BY <2>1, Zenon DEF Inside
  <2>3. PastCallDrain' => PastCallDrain
    BY <1>12, Zenon DEF Admission, PastCallDrain, DropTicket, FinishEpoch, DropDatabase,
      CloseQueries, DrainAppendCommitPipeline, StopExecutor, StopWorker
  <2>4. pc' = "idle" => pc = "idle"
    BY <1>12, Zenon DEF DropTicket, FinishEpoch, DropDatabase,
      CloseQueries, DrainAppendCommitPipeline, StopExecutor, StopWorker
  <2> QED
    BY <2>1, <2>2, <2>3, <2>4, Zenon DEF Admission
<1>13. ASSUME (\E drop \in BOOLEAN : BeginClose(drop)) \/ PrepareClose \/ FinishClose
       PROVE  Admission'
  <2>1. UNCHANGED <<phase, active_commit_calls>>
    BY <1>13, Zenon DEF BeginClose, PrepareClose, FinishClose
  <2>2. Inside' = Inside
    BY <2>1, Zenon DEF Inside
  <2>3. PastCallDrain' => PastCallDrain
    BY <1>13, Zenon DEF Admission, PastCallDrain, BeginClose, PrepareClose, FinishClose
  <2>4. pc' = "idle" => ~closing'
    BY <1>13, Zenon DEF BeginClose, PrepareClose, FinishClose
  <2> QED
    BY <2>1, <2>2, <2>3, <2>4, Zenon DEF Admission
<1>14. CASE WaitForActiveCommitCalls
  <2>1. UNCHANGED <<phase, active_commit_calls, closing>> /\ pc' # "idle"
    BY <1>14, Zenon DEF WaitForActiveCommitCalls
  <2>2. Inside' = Inside
    BY <2>1, Zenon DEF Inside
  <2>3. PastCallDrain' => active_commit_calls = 0
    BY <1>14, Zenon DEF WaitForActiveCommitCalls, PastCallDrain
  <2>4. active_commit_calls = 0 => Inside = {}
    BY InsideCounted, FS_EmptySet, Zenon DEF Admission
  <2>5. PastCallDrain' => \A t \in Client : phase[t] \notin InCommit \cup {"recheck_closed"}
    BY <2>3, <2>4, Zenon DEF Inside, Registered
  <2> QED
    BY <2>1, <2>2, <2>5, Zenon DEF Admission
<1>15. CASE UNCHANGED vars
  BY <1>15, AdmissionFrame, Zenon DEF vars
<1> QED
  BY <1>1, <1>2, <1>3, <1>4, <1>5, <1>6, <1>7, <1>8, <1>9, <1>10, <1>11, <1>12, <1>13,
     <1>14, <1>15
  DEF Next, ClientStep, ExecutorStep, WorkerStep, CloseStep

\* Nobody is inside a database that was just opened.
LEMMA AdmissionInit == Init => Admission
<1> SUFFICES ASSUME Init
             PROVE  Admission
  BY Zenon
<1>1. phase = [t \in Client |-> "idle"] /\ active_commit_calls = 0 /\ ~closing
  BY Zenon DEF Init
<1>2. "idle" \in Phase /\ "idle" \notin Registered
  BY Zenon DEF Phase, Registered, InCommit
<1>3. Inside = {}
  BY <1>1, <1>2, Zenon DEF Inside
<1> QED
  BY <1>1, <1>2, <1>3, FS_EmptySet, Zenon DEF Admission, PastCallDrain

\* BeginCommit and the drain keep Admission.
LEMMA Admitted == Spec => []Admission
<1>1. Init => Admission
  BY AdmissionInit, Zenon
<1>2. Admission /\ [Next]_vars => Admission'
  BY AdmissionStep, Zenon
<1> QED
  BY <1>1, <1>2, PTL DEF Spec

(***************************************************************************)
(* BeginCommit registers without a lock and Close reads the counter without *)
(* one; still no commit is admitted once Close has seen the counter at     *)
(* zero, and the counter never goes wrong.                                 *)
(***************************************************************************)
THEOREM NoAdmitCorrect == Spec => []NoAdmitAfterClose
<1>1. Admission => NoAdmitAfterClose
  BY Zenon DEF Admission, NoAdmitAfterClose, Inside, Registered
<1> QED
  BY <1>1, Admitted, PTL

-----------------------------------------------------------------------------
(* The stages of a close. *)

stageVars == <<pc, closing, closed, storeVars, stopping, executor,
               append_commit_stopping, worker>>

\* Snapshots come only while the gate is open.
LEMMA StagesPins ==
  ASSUME Stages, UNCHANGED stageVars, pins' \subseteq pins \/ accepting_snapshots
  PROVE  Stages'
<1> USE DEF stageVars, storeVars
<1>1. ~accepting_snapshots => pins' = {}
  BY Zenon DEF Stages
<1> QED
  BY <1>1, Zenon DEF Stages, Untouched

\* A step before anything is taken away, or one of the executor or the append
\* worker, which exit when they are told to.
LEMMA StagesWorkers ==
  ASSUME Stages, UNCHANGED <<closed, storeVars, stopping, append_commit_stopping>>,
         \/ UNCHANGED <<pc, closing>>
         \/ pc \notin Late /\ pc' \notin Late /\ (closed => pc' = "terminated"),
         pins' \subseteq pins,
         executor = "exited" => executor' = "exited",
         executor' = "exited" => executor = "exited" \/ stopping,
         worker = "exited" => worker' = "exited",
         worker' = "exited" => worker = "exited" \/ append_commit_stopping
  PROVE  Stages'
<1> USE DEF storeVars
<1>1. ~accepting_snapshots => pins' = {}
  BY Zenon DEF Stages
<1>2. CASE UNCHANGED <<pc, closing>>
  BY <1>1, <1>2, Zenon DEF Stages, Untouched
<1>3. CASE pc \notin Late /\ pc' \notin Late /\ (closed => pc' = "terminated")
  <2>1. pc' \notin Joined /\ pc' \notin Stopped /\ pc' \notin Stopping /\ pc' # "unset_closing"
    BY <1>3, Zenon DEF Late, Joined, Stopped, Stopping
  <2> QED
    BY <1>1, <1>3, <2>1, Zenon DEF Stages, Untouched
<1> QED
  BY <1>2, <1>3, Zenon

\* Each stage of Close and of ~Impl takes away what it says, in that order.
LEMMA StagesStep == Admission /\ Stages /\ [Next]_vars => Stages'
<1> SUFFICES ASSUME Admission, Stages, [Next]_vars
             PROVE  Stages'
  BY Zenon
<1> USE DEF flags, closeVars, clientVars, storeVars, executorVars, pipelineVars, handleVars,
            queryVars
<1>1. ASSUME NEW t \in Client,
             \/ BeginTransaction(t) \/ StartCommit(t) \/ Register(t) \/ Recheck(t)
             \/ SubmitSync(t) \/ WaitHandle(t) \/ BeginOperation(t) \/ EndOperation(t)
             \/ CloseCursor(t) \/ FailTicket(t)
      PROVE  Stages'
  <2>1. UNCHANGED <<stageVars, pins>>
    BY <1>1, Zenon DEF BeginTransaction, StartCommit, Register, Recheck, SubmitSync, WaitHandle,
      BeginOperation, EndOperation, CloseCursor, FailTicket, stageVars
  <2> QED
    BY <2>1, StagesPins, Zenon
<1>2. ASSUME NEW t \in Client,
             \/ PinSnapshot(t) \/ OpenCursor(t) \/ CheckRefresh(t) \/ SubmitTicket(t)
             \/ FinishCommit(t) \/ DropTransaction(t) \/ CloseCallback(t)
      PROVE  Stages'
  <2>1. UNCHANGED stageVars
    BY <1>2, Zenon DEF PinSnapshot, OpenCursor, CheckRefresh, SubmitTicket, FinishCommit,
      DropTransaction, CloseCallback, stageVars
  <2>2. pins' \subseteq pins \/ accepting_snapshots
    BY <1>2, Zenon DEF PinSnapshot, OpenCursor, CheckRefresh, SubmitTicket, FinishCommit,
      DropTransaction, CloseCallback
  <2> QED
    BY <2>1, <2>2, StagesPins, Zenon
<1>3. ASSUME \/ \E t \in Client : Handoff(t) \/ MarkCommitHandleAdmitted(t)
             \/ ExecutorTake \/ ExecutorExit
      PROVE  Stages'
  <2>1. /\ UNCHANGED <<pc, closing, closed, storeVars, stopping, append_commit_stopping, worker>>
        /\ pins' \subseteq pins /\ executor # "exited"
    BY <1>3, Zenon DEF Handoff, MarkCommitHandleAdmitted, ExecutorTake, ExecutorExit
  <2>2. executor' = "exited" => stopping
    BY <1>3, Zenon DEF Handoff, MarkCommitHandleAdmitted, ExecutorTake, ExecutorExit
  <2> QED
    BY <2>1, <2>2, StagesWorkers, Zenon
<1>4. ASSUME \/ Select \/ BindEpoch \/ WriteEpoch \/ AccountEpoch \/ PublishEpoch \/ WorkerExit
      PROVE  Stages'
  <2>1. /\ UNCHANGED <<pc, closing, closed, storeVars, stopping, append_commit_stopping, executor>>
        /\ pins' \subseteq pins /\ worker # "exited"
    BY <1>4, Zenon DEF Select, BindEpoch, WriteEpoch, AccountEpoch, PublishEpoch, WorkerExit
  <2>2. worker' = "exited" => append_commit_stopping
    BY <1>4, Zenon DEF Select, BindEpoch, WriteEpoch, AccountEpoch, PublishEpoch, WorkerExit,
      WorkerMayExit
  <2> QED
    BY <2>1, <2>2, StagesWorkers, Zenon
<1>5. CASE DropTicket
  <2>1. /\ UNCHANGED <<closing, closed, storeVars, stopping, append_commit_stopping, worker>>
        /\ pins' \subseteq pins /\ executor = "drop" /\ executor' = "wait"
        /\ pc' = pc \/ (pc = "idle" /\ pc' = "terminated")
    BY <1>5, Zenon DEF DropTicket
  <2>2. pc' = pc \/ (pc \notin Late /\ pc' \notin Late /\ pc' = "terminated")
    BY <2>1, Zenon DEF Late, Stopping, Joined, Stopped
  <2> QED
    BY <2>1, <2>2, StagesWorkers, Zenon
<1>6. ASSUME FinishEpoch \/ \E t \in Client : EndCommit(t)
      PROVE  Stages'
  <2>1. /\ UNCHANGED <<closing, closed, storeVars, stopping, append_commit_stopping, executor>>
        /\ pins' \subseteq pins
        /\ UNCHANGED worker \/ (worker = "published" /\ worker' = "wait")
    BY <1>6, Zenon DEF FinishEpoch, EndCommit
  <2>2. \/ UNCHANGED pc
        \/ pc = "calls_asleep" /\ pc' = "calls"
        \/ pc = "drain_asleep" /\ pc' = "drain"
    BY <1>6, Zenon DEF FinishEpoch, EndCommit, WakeCallDrain
  <2>3. pc' = pc \/ (pc \notin Late /\ pc' \notin Late /\ ~closed)
    BY <2>2, Zenon DEF Stages, Late, Stopping, Joined, Stopped
  <2> QED
    BY <2>1, <2>3, StagesWorkers, Zenon
<1>7. ASSUME \/ \E drop \in BOOLEAN : BeginClose(drop)
             \/ CloseQueries \/ WaitForActiveCommitCalls \/ DrainAppendCommitPipeline
             \/ PrepareClose /\ pins # {}
      PROVE  Stages'
  <2>1. UNCHANGED <<closed, storeVars, stopping, append_commit_stopping, executor, worker, pins>>
    BY <1>7, Zenon DEF BeginClose, CloseQueries, WaitForActiveCommitCalls, DrainAppendCommitPipeline,
      PrepareClose
  <2>2. /\ pc \in {"idle", "queries", "calls", "calls_wait", "drain", "prepare"}
        /\ pc = "idle" => ~closed
    BY <1>7, Zenon DEF BeginClose, CloseQueries, WaitForActiveCommitCalls, DrainAppendCommitPipeline,
      PrepareClose
  <2>3. pc' \in {"queries", "calls", "calls_wait", "calls_asleep", "drain", "drain_asleep",
                 "prepare", "idle"}
    BY <1>7, Zenon DEF BeginClose, CloseQueries, WaitForActiveCommitCalls, DrainAppendCommitPipeline,
      PrepareClose
  <2>4. pc \notin Late /\ pc' \notin Late /\ ~closed
    BY <2>2, <2>3, Zenon DEF Stages, Late, Stopping, Joined, Stopped
  <2> QED
    BY <2>1, <2>4, StagesWorkers, Zenon
<1>8. CASE PrepareClose /\ pins = {}
  BY <1>8, Zenon DEF PrepareClose, Stages, Untouched, Late, Stopping, Joined, Stopped
<1>9. CASE StopExecutor
  BY <1>9, Zenon DEF StopExecutor, Stages, Untouched, Late, Stopping, Joined, Stopped
<1>10. CASE StopWorker
  BY <1>10, Zenon DEF StopWorker, Stages, Untouched, Late, Stopping, Joined, Stopped
<1>11. CASE FinishClose
  <2>1. UNCHANGED <<accepting_snapshots, pins, stopping, append_commit_stopping, executor, worker>>
    BY <1>11, Zenon DEF FinishClose
  <2>2. /\ pc \in Stopped /\ pc \in Stopping /\ pc \in Joined
        /\ pc' \in {"finish", "set_closed", "unset_closing", "idle"}
    BY <1>11, Zenon DEF FinishClose, Stopping, Joined, Stopped
  <2>3. executor = "exited" /\ worker = "exited" /\ ~accepting_snapshots /\ closing
    BY <2>2, Zenon DEF Stages
  <2>4. pc' # "idle" => closing'
    BY <1>11, <2>3, Zenon DEF FinishClose
  <2>5. pc' \in {"idle", "unset_closing"} => closed'
    BY <1>11, Zenon DEF FinishClose, Stages
  <2>6. pc' \in {"finish", "set_closed"} => ~closed'
    BY <1>11, Zenon DEF FinishClose, Stages
  <2> QED
    BY <2>1, <2>2, <2>3, <2>4, <2>5, <2>6, Zenon DEF Stages, Late, Stopping, Joined, Stopped
<1>12. CASE DropDatabase
  BY <1>12, Zenon DEF DropDatabase, Admission, Stages, Untouched, Late, Stopping, Joined, Stopped
<1>13. CASE UNCHANGED vars
  BY <1>13, StagesPins, Zenon DEF vars, stageVars
<1> QED
  BY <1>1, <1>2, <1>3, <1>4, <1>5, <1>6, <1>7, <1>8, <1>9, <1>10, <1>11, <1>12, <1>13
  DEF Next, ClientStep, ExecutorStep, WorkerStep, CloseStep

\* Admission and Stages hold throughout.
LEMMA Staged == Spec => [](Admission /\ Stages)
<1>1. Init => Stages
  BY Zenon DEF Init, Stages, Untouched, Late, Stopping, Joined, Stopped
<1>2. Admission /\ Stages /\ [Next]_vars => Stages'
  BY StagesStep, Zenon
<1> QED
  BY <1>1, <1>2, Admitted, PTL DEF Spec

(* A close that found the database pinned left it as usable as it was, for *)
(* any number of clients: the executor and the append worker run, and the  *)
(* store takes snapshots (Database::Close).                                *)
THEOREM UsableCorrect == Spec => []OpenIsUsable
<1>1. Admission /\ Stages => OpenIsUsable
  BY Zenon DEF Admission, Stages, Untouched, OpenIsUsable, Late, Stopping, Joined, Stopped
<1> QED
  BY <1>1, Staged, PTL

(* Nobody uses what Close and ~Impl have taken away, for any number of     *)
(* clients: the worker, a refresh and the holders of snapshots are done.   *)
THEOREM TeardownCorrect == Spec => []TeardownOrdered
<1>1. Stages => TeardownOrdered
  BY Zenon DEF Stages, TeardownOrdered
<1> QED
  BY <1>1, Staged, PTL

-----------------------------------------------------------------------------
(* Leaving. *)

leavingVars == <<pc, closing, closed, stopping, append_commit_stopping>>

\* A step of a client or of a worker: nobody comes back, no ticket comes after
\* `stopping`, and no request after `append_commit_stopping`.
LEMMA LeavingFrame ==
  ASSUME Leaving, UNCHANGED <<leavingVars, sweep>>,
         Left => Left',
         tickets' \subseteq tickets \/ ~stopping,
         worker = "exited" => worker' = "exited",
         worker' = "exited" =>
           \/ worker = "exited"
           \/ append_commit_stopping /\ append_commit_requests = <<>>,
         append_commit_requests = <<>> =>
           append_commit_requests' = <<>> \/ ~append_commit_stopping
  PROVE  Leaving'
<1> USE DEF leavingVars
<1>1. /\ (pc \in Late => closing \/ Left)'
      /\ (pc \notin Late \cup {"idle", "terminated"} => closing)'
      /\ (closed \/ pc \in Late \ {"stop_executor"} => stopping)'
  BY Zenon DEF Leaving
<1>2. pc = "fail_remaining" => tickets' \subseteq sweep
  BY Zenon DEF Leaving, Late, Stopping, Joined
<1>3. closed \/ pc \in {"stop_worker", "join_worker", "destroyed"} \cup Stopped => tickets' = {}
  BY Zenon DEF Leaving, Late, Stopping, Joined, Stopped
<1>4. worker' = "exited" => append_commit_stopping /\ append_commit_requests' = <<>>
  BY Zenon DEF Leaving
<1> QED
  BY <1>1, <1>2, <1>3, <1>4, Zenon DEF Leaving

\* A step of the part of Close that can be taken back.
LEMMA LeavingEarly ==
  ASSUME Leaving, pc' \notin Late, pc' \in {"idle", "terminated"} \/ closing',
         UNCHANGED <<closed, stopping, append_commit_stopping, tickets, append_commit_requests>>,
         worker' = "exited" => worker = "exited"
  PROVE  Leaving'
<1>1. pc' \notin {"fail_remaining", "stop_worker", "join_worker", "destroyed"} \cup Stopped
  BY Zenon DEF Late, Stopping, Joined
<1> QED
  BY <1>1, Zenon DEF Leaving

\* A client that moves is not one that left.
LEMMA LeftStays ==
  ASSUME Admission, NEW t \in Client, NEW n,
         phase' = [phase EXCEPT ![t] = n], owner' = owner,
         Left => n \in {"idle", "gone"} \/ phase[t] \notin {"idle", "gone"}
  PROVE  Left => Left'
<1>1. \A u \in Client : phase'[u] = IF u = t THEN n ELSE phase[u]
  BY Zenon DEF Admission
<1> QED
  BY <1>1, Zenon DEF Left

\* ~Impl and Close find nobody inside, and leave no ticket behind.
LEMMA LeavingStep == Admission /\ Stages /\ Leaving /\ [Next]_vars => Leaving'
<1> SUFFICES ASSUME Admission, Stages, Leaving, [Next]_vars
             PROVE  Leaving'
  BY Zenon
<1> USE DEF flags, closeVars, clientVars, storeVars, executorVars, pipelineVars, handleVars,
            queryVars
<1>1. ASSUME NEW t \in Client,
             \/ BeginTransaction(t) \/ PinSnapshot(t) \/ StartCommit(t) \/ Register(t)
             \/ Recheck(t) \/ CheckRefresh(t) \/ FinishCommit(t) \/ DropTransaction(t)
      PROVE  Leaving'
  <2>1. UNCHANGED <<leavingVars, sweep, owner, tickets, worker, append_commit_requests>>
    BY <1>1, Zenon DEF BeginTransaction, PinSnapshot, StartCommit, Register, Recheck, CheckRefresh,
      FinishCommit, DropTransaction, leavingVars
  <2>2. \E n : phase' = [phase EXCEPT ![t] = n]
    BY <1>1, Zenon DEF BeginTransaction, PinSnapshot, StartCommit, Register, Recheck, CheckRefresh,
      FinishCommit, DropTransaction, To
  <2>3. owner = "open" \/ phase[t] \notin {"idle", "gone"}
    BY <1>1, Zenon DEF BeginTransaction, PinSnapshot, StartCommit, Register, Recheck, CheckRefresh,
      FinishCommit, DropTransaction
  <2>4. Left => Left'
    BY <2>1, <2>2, <2>3, LeftStays, Zenon DEF Left
  <2> QED
    BY <2>1, <2>4, LeavingFrame, Zenon
<1>2. ASSUME NEW t \in Client, SubmitSync(t) \/ SubmitTicket(t)
      PROVE  Leaving'
  <2>1. UNCHANGED <<leavingVars, sweep, owner, worker>>
    BY <1>2, Zenon DEF SubmitSync, SubmitTicket, leavingVars
  <2>2. \E n : phase' = [phase EXCEPT ![t] = n]
    BY <1>2, Zenon DEF SubmitSync, SubmitTicket, To
  <2>3. phase[t] \notin {"idle", "gone"}
    BY <1>2, Zenon DEF SubmitSync, SubmitTicket
  <2>4. Left => Left'
    BY <2>1, <2>2, <2>3, LeftStays, Zenon
  <2>5. /\ tickets' = tickets \/ ~stopping
        /\ append_commit_requests' = append_commit_requests \/ ~append_commit_stopping
    BY <1>2, Zenon DEF SubmitSync, SubmitTicket
  <2> QED
    BY <2>1, <2>4, <2>5, LeavingFrame, Zenon
<1>3. ASSUME NEW t \in Client, EndCommit(t)
      PROVE  Leaving'
  <2>1. UNCHANGED <<closing, closed, stopping, append_commit_stopping, sweep, owner, tickets,
                    worker, append_commit_requests>>
    BY <1>3, Zenon DEF EndCommit
  <2>2. \E n : phase' = [phase EXCEPT ![t] = n]
    BY <1>3, Zenon DEF EndCommit, To
  <2>3. phase[t] \notin {"idle", "gone"}
    BY <1>3, Zenon DEF EndCommit
  <2>4. Left => Left'
    BY <2>1, <2>2, <2>3, LeftStays, Zenon
  <2>5. pc' = pc \/ (pc = "calls_asleep" /\ pc' = "calls")
    BY <1>3, Zenon DEF EndCommit, WakeCallDrain
  <2>6. CASE pc' = pc
    BY <2>1, <2>4, <2>6, LeavingFrame, Zenon DEF leavingVars
  <2>7. CASE pc = "calls_asleep" /\ pc' = "calls"
    <3>1. closing /\ pc' \notin Late
      BY <2>7, Zenon DEF Leaving, Late, Stopping, Joined, Stopped
    <3> QED
      BY <2>1, <3>1, LeavingEarly, Zenon
  <2> QED
    BY <2>5, <2>6, <2>7, Zenon
<1>4. ASSUME NEW t \in Client,
             \/ WaitHandle(t) \/ OpenCursor(t) \/ BeginOperation(t) \/ EndOperation(t)
             \/ CloseCursor(t) \/ CloseCallback(t) \/ Handoff(t)
             \/ MarkCommitHandleAdmitted(t)
      PROVE  Leaving'
  <2>1. UNCHANGED <<leavingVars, sweep, owner, phase, worker>> /\ tickets' \subseteq tickets
    BY <1>4, Zenon DEF WaitHandle, OpenCursor, BeginOperation, EndOperation, CloseCursor,
      CloseCallback, Handoff, MarkCommitHandleAdmitted, Release, leavingVars
  <2>2. append_commit_requests' = append_commit_requests \/ ~append_commit_stopping
    BY <1>4, Zenon DEF WaitHandle, OpenCursor, BeginOperation, EndOperation, CloseCursor,
      CloseCallback, Handoff, MarkCommitHandleAdmitted
  <2> QED
    BY <2>1, <2>2, LeavingFrame, Zenon DEF Left
<1>5. ASSUME \/ ExecutorTake \/ ExecutorExit \/ BindEpoch \/ WriteEpoch \/ AccountEpoch
             \/ PublishEpoch \/ WorkerExit \/ Select
      PROVE  Leaving'
  <2>1. UNCHANGED <<leavingVars, sweep, owner, phase>> /\ tickets' \subseteq tickets
    BY <1>5, Zenon DEF ExecutorTake, ExecutorExit, BindEpoch, WriteEpoch, AccountEpoch,
      PublishEpoch, WorkerExit, Select, leavingVars
  <2>2. /\ worker = "exited" => worker' = "exited"
        /\ worker' = "exited" =>
             worker = "exited" \/ (append_commit_stopping /\ append_commit_requests = <<>>)
        /\ append_commit_requests = <<>> => append_commit_requests' = <<>>
    BY <1>5, Zenon DEF ExecutorTake, ExecutorExit, BindEpoch, WriteEpoch, AccountEpoch,
      PublishEpoch, WorkerExit, WorkerMayExit, Select
  <2> QED
    BY <2>1, <2>2, LeavingFrame, Zenon DEF Left
<1>6. CASE DropTicket
  <2>1. /\ UNCHANGED <<closing, closed, stopping, append_commit_stopping, sweep, owner, phase,
                       tickets, worker, append_commit_requests>>
        /\ pc' = pc \/ pc' = "terminated"
    BY <1>6, Zenon DEF DropTicket
  <2>2. CASE pc' = pc
    BY <2>1, <2>2, LeavingFrame, Zenon DEF leavingVars, Left
  <2>3. CASE pc' = "terminated"
    <3>1. pc' \notin Late
      BY <2>3, Zenon DEF Late, Stopping, Joined, Stopped
    <3> QED
      BY <2>1, <2>3, <3>1, LeavingEarly, Zenon
  <2> QED
    BY <2>1, <2>2, <2>3, Zenon
<1>7. CASE FinishEpoch
  <2>1. /\ UNCHANGED <<closing, closed, stopping, append_commit_stopping, sweep, owner, phase,
                       tickets, append_commit_requests>>
        /\ worker = "published" /\ worker' = "wait"
        /\ pc' = pc \/ (pc = "drain_asleep" /\ pc' = "drain")
    BY <1>7, Zenon DEF FinishEpoch
  <2>2. CASE pc' = pc
    BY <2>1, <2>2, LeavingFrame, Zenon DEF leavingVars, Left
  <2>3. CASE pc = "drain_asleep" /\ pc' = "drain"
    <3>1. closing /\ pc' \notin Late
      BY <2>3, Zenon DEF Leaving, Late, Stopping, Joined, Stopped
    <3> QED
      BY <2>1, <3>1, LeavingEarly, Zenon
  <2> QED
    BY <2>1, <2>2, <2>3, Zenon
<1>8. ASSUME \/ \E drop \in BOOLEAN : BeginClose(drop)
             \/ CloseQueries \/ WaitForActiveCommitCalls \/ DrainAppendCommitPipeline
      PROVE  Leaving'
  <2>1. UNCHANGED <<closed, stopping, append_commit_stopping, tickets, append_commit_requests,
                    worker>>
    BY <1>8, Zenon DEF BeginClose, CloseQueries, WaitForActiveCommitCalls, DrainAppendCommitPipeline
  <2>2. pc' \in {"queries", "calls", "calls_wait", "calls_asleep", "drain", "drain_asleep",
                 "prepare"}
    BY <1>8, Zenon DEF BeginClose, CloseQueries, WaitForActiveCommitCalls, DrainAppendCommitPipeline
  <2>3. closing' = TRUE \/ (closing' = closing /\ pc \in {"queries", "calls", "calls_wait", "drain"})
    BY <1>8, Zenon DEF BeginClose, CloseQueries, WaitForActiveCommitCalls, DrainAppendCommitPipeline
  <2>4. closing' /\ pc' \notin Late
    BY <2>2, <2>3, Zenon DEF Leaving, Late, Stopping, Joined, Stopped
  <2> QED
    BY <2>1, <2>4, LeavingEarly, Zenon
<1>9. CASE PrepareClose
  <2>1. UNCHANGED <<closed, stopping, append_commit_stopping, tickets, append_commit_requests,
                    worker>>
    BY <1>9, Zenon DEF PrepareClose
  <2>2. closing /\ ~closed
    BY <1>9, Zenon DEF PrepareClose, Leaving, Stages, Late, Stopping, Joined, Stopped
  <2>3. CASE pc' = "idle"
    <3>1. pc' \notin Late
      BY <2>3, Zenon DEF Late, Stopping, Joined, Stopped
    <3> QED
      BY <2>1, <2>3, <3>1, LeavingEarly, Zenon
  <2>4. CASE pc' = "stop_executor" /\ closing' = closing
    BY <2>1, <2>2, <2>4, Zenon DEF Leaving, Late, Stopping, Joined, Stopped
  <2> QED
    BY <1>9, <2>3, <2>4, Zenon DEF PrepareClose
<1>10. CASE StopExecutor
  <2>1. UNCHANGED <<closing, closed, owner, phase, append_commit_stopping, tickets,
                    append_commit_requests, worker>>
    BY <1>10, Zenon DEF StopExecutor
  <2>2. /\ pc \in Late /\ pc' \in {"fail_pending", "join_executor", "fail_remaining", "stop_worker"}
        /\ ~closed
    BY <1>10, Zenon DEF StopExecutor, Stages, Late, Stopping, Joined, Stopped
  <2>3. closing' \/ Left'
    BY <2>1, <2>2, Zenon DEF Leaving, Left
  <2>4. stopping'
    BY <1>10, Zenon DEF StopExecutor, Leaving, Late, Stopping, Joined
  <2>5. /\ pc' = "fail_remaining" => sweep' = tickets
        /\ pc' = "stop_worker" => tickets = {}
    BY <1>10, Zenon DEF StopExecutor, Leaving
  <2> QED
    BY <2>1, <2>2, <2>3, <2>4, <2>5, Zenon DEF Leaving, Late, Stopping, Joined, Stopped
<1>11. ASSUME NEW t \in Client, FailTicket(t)
       PROVE  Leaving'
  <2>1. /\ UNCHANGED <<leavingVars, owner, phase, append_commit_requests, worker>>
        /\ sweep' = sweep \ {t} /\ tickets' = tickets \ {t}
    BY <1>11, Zenon DEF FailTicket, Release, leavingVars
  <2>2. Left' <=> Left
    BY <2>1, Zenon DEF Left
  <2> QED
    BY <2>1, <2>2, Zenon DEF Leaving, leavingVars
<1>12. CASE StopWorker
  <2>1. UNCHANGED <<closing, closed, owner, phase, stopping, sweep, tickets,
                    append_commit_requests, worker>>
    BY <1>12, Zenon DEF StopWorker
  <2>2. /\ pc \in {"stop_worker", "join_worker"} /\ pc' \in {"join_worker", "detach", "destroyed"}
        /\ pc' = "detach" => closing
    BY <1>12, Zenon DEF StopWorker
  <2>3. stopping /\ tickets = {} /\ pc \in Late
    BY <2>2, Zenon DEF Leaving, Late, Stopping, Joined, Stopped
  <2>4. closing' \/ Left'
    BY <2>1, <2>3, Zenon DEF Leaving, Left
  <2>5. /\ append_commit_stopping => append_commit_stopping'
        /\ pc' = "destroyed" => worker = "exited"
    BY <1>12 DEF StopWorker
  <2>6. pc' \in Late
    BY <2>2, Zenon DEF Late, Stopping, Joined, Stopped
  <2> QED
    BY <2>1, <2>2, <2>3, <2>4, <2>5, <2>6 DEF Leaving
<1>13. CASE FinishClose
  <2>1. UNCHANGED <<stopping, sweep, tickets, append_commit_stopping, append_commit_requests,
                    worker>>
    BY <1>13, Zenon DEF FinishClose
  <2>2. pc \in Stopped /\ pc' \in {"finish", "set_closed", "unset_closing", "idle"}
    BY <1>13, Zenon DEF FinishClose, Stopped
  <2>3. stopping /\ tickets = {}
    BY <2>2, Zenon DEF Leaving, Late, Stopping, Joined, Stopped
  <2>4. pc' = "idle" \/ closing'
    BY <1>13, <2>2, Zenon DEF FinishClose, Stages
  <2>5. pc' = "idle" => pc' \notin Late
    BY Zenon DEF Late, Stopping, Joined, Stopped
  <2> QED
    BY <2>1, <2>2, <2>3, <2>4, <2>5, Zenon DEF Leaving
<1>14. CASE DropDatabase
  <2>1. UNCHANGED <<closing, closed, phase, stopping, sweep, tickets, append_commit_stopping,
                    append_commit_requests, worker>>
    BY <1>14, Zenon DEF DropDatabase
  <2>2. CASE pc' = "idle"
    <3>1. pc' \notin Late
      BY <2>2, Zenon DEF Late, Stopping, Joined, Stopped
    <3> QED
      BY <2>1, <2>2, <3>1, LeavingEarly, Zenon
  <2>3. CASE pc' # "idle"
    <3>1. /\ Unreferenced(handing) /\ UNCHANGED owner
          /\ pc' = IF closed THEN "destroyed" ELSE "stop_executor"
      BY <1>14, <2>3, Zenon DEF DropDatabase
    <3>2. Left'
      BY <2>1, <3>1, Zenon DEF Unreferenced, Left
    <3>3. closed => worker = "exited" /\ stopping /\ tickets = {}
      BY Zenon DEF Stages, Leaving
    <3>4. pc' \in Late
      BY <3>1, Zenon DEF Late, Stopping, Joined
    <3> QED
      BY <2>1, <3>1, <3>2, <3>3, <3>4, Zenon DEF Leaving, Stopped
  <2> QED
    BY <2>2, <2>3, Zenon
<1>15. CASE UNCHANGED vars
  BY <1>15, LeavingFrame, Zenon DEF vars, leavingVars, Left
<1> QED
  BY <1>1, <1>2, <1>3, <1>4, <1>5, <1>6, <1>7, <1>8, <1>9, <1>10, <1>11, <1>12, <1>13,
     <1>14, <1>15
  DEF Next, ClientStep, ExecutorStep, WorkerStep, CloseStep

-----------------------------------------------------------------------------
(* Placement. *)

\* A client or the executor queues, refuses or fails a request.
LEMMA PlacementKept ==
  ASSUME Sequenced, Placement,
         UNCHANGED <<mode, handles, admitted, bound, durable, epoch_result, outcome, worker, requests>>,
         Range(append_commit_requests) \subseteq Range(append_commit_requests'),
         \A t \in Client : result[t] # "none" => result'[t] # "none",
         \A t, u \in handing' : t = u,
         executor' = "admit" =>
           \A t \in handing' : Async(t) /\ (Placed(t) \/ t \in Range(append_commit_requests'))
  PROVE  Placement'
<1>1. \A t : Async(t)' <=> Async(t)
  BY Zenon DEF Async
<1>2. \A t : Placed(t) \/ t \in Range(append_commit_requests') => Placed(t)'
  BY Zenon DEF Placed, Grouped
<1>3. Grouped' = Grouped
  BY Zenon DEF Grouped
<1>4. handles \subseteq Client
  BY Zenon DEF Sequenced
<1> QED
  BY <1>1, <1>2, <1>3, <1>4, Zenon DEF Placement

\* The append worker moves a request on.
LEMMA WorkerKeeps ==
  ASSUME Sequenced, Placement, UNCHANGED <<mode, handles, admitted, executor, handing>>,
         \A t \in Client : result[t] # "none" => result'[t] # "none" \/ ~Async(t),
         \A t : Async(t) /\ Placed(t) => Placed(t)'
  PROVE  /\ \A t \in handles' : Async(t)' /\ (Placed(t)' \/ result'[t] # "none")
         /\ \A t \in admitted' : Async(t)' /\ Placed(t)'
         /\ executor' = "admit" => \A t \in handing' : Async(t)' /\ Placed(t)'
         /\ \A t, u \in handing' : t = u
<1>1. \A t : Async(t)' <=> Async(t)
  BY Zenon DEF Async
<1>2. handles \subseteq Client
  BY Zenon DEF Sequenced
<1> QED
  BY <1>1, <1>2, Zenon DEF Placement

sequencedVars == <<queue, handing, append_commit_requests, requests, bound, handles, result,
                   epoch_result>>

\* Clients, and nothing else, are queued, grouped and bound.
LEMMA SequencedStep == Sequenced /\ [Next]_vars => Sequenced'
<1> SUFFICES ASSUME Sequenced, [Next]_vars
             PROVE  Sequenced'
  BY Zenon
<1> USE DEF flags, closeVars, clientVars, storeVars, executorVars, pipelineVars, handleVars,
            queryVars
<1>0. ASSUME UNCHANGED sequencedVars
      PROVE  Sequenced'
  BY <1>0, Zenon DEF Sequenced, sequencedVars
<1>1. ASSUME NEW t \in Client,
             \/ BeginTransaction(t) \/ PinSnapshot(t) \/ StartCommit(t) \/ Register(t)
             \/ Recheck(t) \/ EndCommit(t) \/ CheckRefresh(t) \/ DropTransaction(t)
             \/ WaitHandle(t)
      PROVE  Sequenced'
  <2>1. UNCHANGED sequencedVars
    BY <1>1, Zenon DEF BeginTransaction, PinSnapshot, StartCommit, Register, Recheck, EndCommit,
      CheckRefresh, DropTransaction, WaitHandle, sequencedVars
  <2> QED
    BY <1>0, <2>1, Zenon
<1>2. ASSUME NEW t \in Client,
             \/ OpenCursor(t) \/ BeginOperation(t) \/ EndOperation(t) \/ CloseCursor(t)
             \/ CloseCallback(t) \/ MarkCommitHandleAdmitted(t)
      PROVE  Sequenced'
  <2>1. UNCHANGED sequencedVars
    BY <1>2, Zenon DEF OpenCursor, BeginOperation, EndOperation, CloseCursor, CloseCallback,
      MarkCommitHandleAdmitted, sequencedVars
  <2> QED
    BY <1>0, <2>1, Zenon
<1>3. ASSUME \/ ExecutorExit \/ WriteEpoch \/ WorkerExit \/ CloseQueries
             \/ WaitForActiveCommitCalls \/ DrainAppendCommitPipeline
             \/ \E drop \in BOOLEAN : BeginClose(drop)
      PROVE  Sequenced'
  <2>1. UNCHANGED sequencedVars
    BY <1>3, Zenon DEF ExecutorExit, WriteEpoch, WorkerExit, CloseQueries, WaitForActiveCommitCalls,
      DrainAppendCommitPipeline, BeginClose, sequencedVars
  <2> QED
    BY <1>0, <2>1, Zenon
<1>4. ASSUME PrepareClose \/ StopWorker \/ FinishClose \/ DropDatabase \/ UNCHANGED vars
      PROVE  Sequenced'
  <2>1. UNCHANGED sequencedVars
    BY <1>4, Zenon DEF PrepareClose, StopWorker, FinishClose, DropDatabase, vars, sequencedVars
  <2> QED
    BY <1>0, <2>1, Zenon
<1>5. ASSUME NEW t \in Client, SubmitSync(t)
      PROVE  Sequenced'
  <2>1. Append(append_commit_requests, t) \in Seq(Client)
    BY AppendFacts, Zenon DEF Sequenced
  <2> QED
    BY <1>5, <2>1, Zenon DEF SubmitSync, Sequenced
<1>6. ASSUME NEW t \in Client, SubmitTicket(t)
      PROVE  Sequenced'
  <2>1. Append(queue, t) \in Seq(Client)
    BY AppendFacts, Zenon DEF Sequenced
  <2> QED
    BY <1>6, <2>1, Zenon DEF SubmitTicket, Sequenced
<1>7. ASSUME NEW t \in Client, Handoff(t)
      PROVE  Sequenced'
  <2>1. Append(append_commit_requests, t) \in Seq(Client)
    BY AppendFacts, Zenon DEF Sequenced
  <2> QED
    BY <1>7, <2>1, Zenon DEF Handoff, CompleteCommitHandle, Sequenced
<1>8. ASSUME NEW t \in Client, FinishCommit(t) \/ FailTicket(t)
      PROVE  Sequenced'
  BY <1>8, Zenon DEF FinishCommit, FailTicket, CompleteCommitHandle, Sequenced
<1>9. CASE ExecutorTake
  <2>1. Head(queue) \in Client /\ Tail(queue) \in Seq(Client)
    BY <1>9, EmptyFacts DEF ExecutorTake, Sequenced
  <2> QED
    BY <1>9, <2>1, Zenon DEF ExecutorTake, Sequenced
<1>10. CASE Select
  <2>1. PICK n \in 1..Len(append_commit_requests) :
          /\ requests' = SubSeq(append_commit_requests, 1, n)
          /\ append_commit_requests' =
               SubSeq(append_commit_requests, n + 1, Len(append_commit_requests))
    BY <1>10, Zenon DEF Select
  <2>2. append_commit_requests \in Seq(Client) /\ Len(append_commit_requests) \in Nat
    BY LenFacts, Zenon DEF Sequenced
  <2>3. n \in Nat /\ n <= Len(append_commit_requests)
    BY <2>2
  <2>4. requests' \in Seq(Client) /\ append_commit_requests' \in Seq(Client)
    BY <2>1, <2>2, <2>3, SplitFacts, Zenon
  <2> QED
    BY <1>10, <2>4, Zenon DEF Select, Sequenced
<1>11. CASE BindEpoch
  <2>1. Grouped \subseteq Client
    BY RangeFacts, Zenon DEF Sequenced, Grouped
  <2> QED
    BY <1>11, <2>1, Zenon DEF BindEpoch, Sequenced
<1>12. CASE DropTicket \/ AccountEpoch \/ PublishEpoch \/ FinishEpoch \/ StopExecutor
  <2>1. <<>> \in Seq(Client)
    BY EmptyFacts, Zenon
  <2> QED
    BY <1>12, <2>1, Zenon DEF DropTicket, AccountEpoch, PublishEpoch, FinishEpoch, StopExecutor,
      Sequenced
<1> QED
  BY <1>1, <1>2, <1>3, <1>4, <1>5, <1>6, <1>7, <1>8, <1>9, <1>10, <1>11, <1>12
  DEF Next, ClientStep, ExecutorStep, WorkerStep, CloseStep

placementVars == <<mode, handles, bound, append_commit_requests, worker, requests, result,
                   admitted, executor, handing, epoch_result, outcome, durable>>

\* No step loses a request that a handle answers for.
LEMMA PlacementStep == Sequenced /\ Placement /\ [Next]_vars => Placement'
<1> SUFFICES ASSUME Sequenced, Placement, [Next]_vars
             PROVE  Placement'
  BY Zenon
<1> USE DEF flags, closeVars, clientVars, storeVars, executorVars, pipelineVars, handleVars,
            queryVars
<1>0. ASSUME UNCHANGED placementVars
      PROVE  Placement'
  BY <1>0, Zenon DEF Placement, Placed, Grouped, Async, placementVars
<1>1. ASSUME NEW t \in Client,
             \/ BeginTransaction(t) \/ PinSnapshot(t) \/ StartCommit(t) \/ Register(t)
             \/ Recheck(t) \/ EndCommit(t) \/ CheckRefresh(t) \/ DropTransaction(t)
             \/ WaitHandle(t)
      PROVE  Placement'
  <2>1. UNCHANGED placementVars
    BY <1>1, Zenon DEF BeginTransaction, PinSnapshot, StartCommit, Register, Recheck, EndCommit,
      CheckRefresh, DropTransaction, WaitHandle, placementVars
  <2> QED
    BY <1>0, <2>1, Zenon
<1>2. ASSUME NEW t \in Client,
             \/ OpenCursor(t) \/ BeginOperation(t) \/ EndOperation(t) \/ CloseCursor(t)
             \/ CloseCallback(t)
      PROVE  Placement'
  <2>1. UNCHANGED placementVars
    BY <1>2, Zenon DEF OpenCursor, BeginOperation, EndOperation, CloseCursor, CloseCallback,
      placementVars
  <2> QED
    BY <1>0, <2>1, Zenon
<1>3. ASSUME \/ CloseQueries \/ WaitForActiveCommitCalls \/ DrainAppendCommitPipeline
             \/ PrepareClose \/ StopExecutor \/ StopWorker \/ FinishClose \/ DropDatabase
             \/ UNCHANGED vars \/ \E drop \in BOOLEAN : BeginClose(drop)
      PROVE  Placement'
  <2>1. UNCHANGED placementVars
    BY <1>3, Zenon DEF CloseQueries, WaitForActiveCommitCalls, DrainAppendCommitPipeline,
      PrepareClose, StopExecutor, StopWorker, FinishClose, DropDatabase, BeginClose, vars,
      placementVars
  <2> QED
    BY <1>0, <2>1, Zenon
<1>4. ASSUME NEW t \in Client, SubmitSync(t) \/ SubmitTicket(t)
      PROVE  Placement'
  <2>1. UNCHANGED <<mode, handles, admitted, bound, durable, epoch_result, outcome, worker,
                    requests, executor, handing>>
    BY <1>4, Zenon DEF SubmitSync, SubmitTicket
  <2>2. append_commit_requests' \in {append_commit_requests, Append(append_commit_requests, t)}
    BY <1>4, Zenon DEF SubmitSync, SubmitTicket
  <2>3. Range(append_commit_requests) \subseteq Range(append_commit_requests')
    <3>1. append_commit_requests \in Seq(Client)
      BY Zenon DEF Sequenced
    <3>2. Range(Append(append_commit_requests, t)) = Range(append_commit_requests) \cup {t}
      BY <3>1, AppendFacts
    <3> QED
      BY <2>2, <3>2, Zenon
  <2>4. result' = result \/ result' = [result EXCEPT ![t] = "rejected"]
    BY <1>4, Zenon DEF SubmitSync, SubmitTicket
  <2>5. \A u \in Client : result[u] # "none" => result'[u] # "none"
    BY <2>4, Zenon DEF Sequenced
  <2>6. (\A u, v \in handing : u = v)
        /\ (executor = "admit" => \A u \in handing : Async(u) /\ Placed(u))
    BY Zenon DEF Placement
  <2> QED
    BY <2>1, <2>3, <2>5, <2>6, PlacementKept, Zenon
<1>5. ASSUME NEW t \in Client, FailTicket(t)
      PROVE  Placement'
  <2>1. UNCHANGED <<mode, handles, admitted, bound, durable, epoch_result, outcome, worker,
                    requests, executor, handing, append_commit_requests>>
    BY <1>5, Zenon DEF FailTicket, CompleteCommitHandle
  <2>2. result' = result \/ result' = [result EXCEPT ![t] = "aborted"]
    BY <1>5, Zenon DEF FailTicket, CompleteCommitHandle
  <2>3. \A u \in Client : result[u] # "none" => result'[u] # "none"
    BY <2>2, Zenon DEF Sequenced
  <2>4. (\A u, v \in handing : u = v)
        /\ (executor = "admit" => \A u \in handing : Async(u) /\ Placed(u))
    BY Zenon DEF Placement
  <2> QED
    BY <2>1, <2>3, <2>4, PlacementKept, Zenon
<1>6. ASSUME NEW t \in Client, FinishCommit(t)
      PROVE  Placement'
  <2>1. UNCHANGED <<mode, bound, append_commit_requests, worker, requests, result, admitted,
                    executor, handing, epoch_result, outcome, durable>>
    BY <1>6, Zenon DEF FinishCommit
  <2>2. \/ handles' = handles
        \/ /\ handles' = handles \cup {t} /\ Async(t) /\ result[t] = "none" /\ Answered(t)
    BY <1>6, Zenon DEF FinishCommit
  <2>3. handles' # handles => Async(t) /\ Placed(t)
    BY <2>2, Zenon DEF Answered, Async, Placement, Placed
  <2>4. \A u : (Async(u)' <=> Async(u)) /\ (Placed(u)' <=> Placed(u))
    BY <2>1, Zenon DEF Async, Placed, Grouped
  <2>5. Grouped' = Grouped
    BY <2>1, Zenon DEF Grouped
  <2> QED
    BY <2>1, <2>2, <2>3, <2>4, <2>5, Zenon DEF Placement
<1>7. CASE ExecutorTake \/ DropTicket \/ ExecutorExit
  <2>1. /\ UNCHANGED <<mode, handles, admitted, bound, durable, epoch_result, outcome, worker,
                       requests, append_commit_requests, result>>
        /\ executor' # "admit"
    BY <1>7, Zenon DEF ExecutorTake, DropTicket, ExecutorExit
  <2>2. handing' \in {{Head(queue)}, {}, handing}
    BY <1>7, Zenon DEF ExecutorTake, DropTicket, ExecutorExit
  <2>3. \A u, v \in handing' : u = v
    BY <2>2, Zenon DEF Placement
  <2> QED
    BY <2>1, <2>3, PlacementKept, Zenon
<1>8. ASSUME NEW t \in Client, Handoff(t)
      PROVE  Placement'
  <2>1. /\ UNCHANGED <<mode, handles, admitted, bound, durable, epoch_result, outcome, worker,
                       requests, handing>>
        /\ t \in handing
    BY <1>8, Zenon DEF Handoff, CompleteCommitHandle
  <2>2. \A u, v \in handing : u = v
    BY Zenon DEF Placement
  <2>3. CASE /\ Async(t) /\ UNCHANGED result
             /\ append_commit_requests' = Append(append_commit_requests, t)
    <3>1. append_commit_requests \in Seq(Client)
      BY Zenon DEF Sequenced
    <3>2. Range(append_commit_requests') = Range(append_commit_requests) \cup {t}
      BY <2>3, <3>1, AppendFacts
    <3>3. \A u \in handing : Async(u) /\ u \in Range(append_commit_requests')
      BY <2>1, <2>2, <2>3, <3>2, Zenon
    <3> QED
      BY <2>1, <2>2, <2>3, <3>2, <3>3, PlacementKept
  <2>4. CASE /\ executor' = "drop" /\ UNCHANGED append_commit_requests
             /\ CompleteCommitHandle(t, IF Async(t) THEN "rejected" ELSE "done")
    <3>1. PICK s \in {"rejected", "done"} : result' = result \/ result' = [result EXCEPT ![t] = s]
      BY <2>4, Zenon DEF CompleteCommitHandle
    <3>2. \A u \in Client : result[u] # "none" => result'[u] # "none"
      BY <3>1, Zenon DEF Sequenced
    <3> QED
      BY <2>1, <2>2, <2>4, <3>2, PlacementKept, Zenon
  <2> QED
    BY <1>8, <2>3, <2>4, Zenon DEF Handoff
<1>9. ASSUME NEW t \in Client, MarkCommitHandleAdmitted(t)
      PROVE  Placement'
  <2>1. /\ UNCHANGED <<mode, handles, bound, append_commit_requests, worker, requests, result,
                       handing, epoch_result, outcome, durable>>
        /\ executor = "admit" /\ executor' = "drop" /\ t \in handing
        /\ admitted' = admitted \cup {t}
    BY <1>9, Zenon DEF MarkCommitHandleAdmitted
  <2>2. \A u : (Async(u)' <=> Async(u)) /\ (Placed(u)' <=> Placed(u))
    BY <2>1, Zenon DEF Async, Placed, Grouped
  <2>3. Grouped' = Grouped
    BY <2>1, Zenon DEF Grouped
  <2> QED
    BY <2>1, <2>2, <2>3, Zenon DEF Placement
<1>10. CASE Select
  <2>1. /\ UNCHANGED <<mode, handles, admitted, executor, handing, bound, result, epoch_result,
                       outcome, durable>>
        /\ worker = "wait" /\ worker' = "bind"
    BY <1>10, Zenon DEF Select
  <2>2. PICK n \in 1..Len(append_commit_requests) :
          /\ requests' = SubSeq(append_commit_requests, 1, n)
          /\ append_commit_requests' =
               SubSeq(append_commit_requests, n + 1, Len(append_commit_requests))
    BY <1>10, Zenon DEF Select
  <2>3. append_commit_requests \in Seq(Client) /\ Len(append_commit_requests) \in Nat
    BY LenFacts, Zenon DEF Sequenced
  <2>4. \A u \in Range(append_commit_requests) :
          u \in Range(requests') \cup Range(append_commit_requests')
    <3>1. n \in Nat /\ n <= Len(append_commit_requests)
      BY <2>3
    <3>2. /\ \A i \in 1..n : append_commit_requests[i] \in Range(requests')
          /\ \A i \in (n + 1)..Len(append_commit_requests) :
               append_commit_requests[i] \in Range(append_commit_requests')
      BY <2>2, <2>3, <3>1, SplitFacts, Zenon
    <3>3. \A i \in 1..Len(append_commit_requests) :
            append_commit_requests[i] \in Range(requests') \cup Range(append_commit_requests')
      BY <2>3, <3>1, <3>2
    <3>4. \A u \in Range(append_commit_requests) :
            \E i \in 1..Len(append_commit_requests) : append_commit_requests[i] = u
      BY <2>3, RangeFacts, Zenon
    <3> QED
      BY <3>3, <3>4, Zenon
  <2>5. \A u : (Async(u)' <=> Async(u)) /\ (Placed(u) => Placed(u)')
    BY <2>1, <2>4, Zenon DEF Async, Placed, Grouped
  <2>6. /\ \A u \in handles' : Async(u)' /\ (Placed(u)' \/ result'[u] # "none")
        /\ \A u \in admitted' : Async(u)' /\ Placed(u)'
        /\ executor' = "admit" => \A u \in handing' : Async(u)' /\ Placed(u)'
        /\ \A u, v \in handing' : u = v
    BY <2>1, <2>5, WorkerKeeps, Zenon
  <2> QED
    BY <2>1, <2>5, <2>6, Zenon DEF Placement
<1>11. CASE BindEpoch
  <2>1. /\ UNCHANGED <<mode, handles, admitted, executor, handing, append_commit_requests,
                       requests, result, epoch_result, outcome, durable>>
        /\ worker = "bind" /\ worker' = "write"
        /\ bound' = bound \cup {u \in Grouped : Async(u)}
    BY <1>11, Zenon DEF BindEpoch
  <2>2. \A u : Async(u)' <=> Async(u)
    BY <2>1, Zenon DEF Async
  <2>3. Grouped' = Grouped
    BY <2>1, Zenon DEF Grouped
  <2>4. \A u : Async(u) /\ Placed(u) => Placed(u)'
    BY <2>1, Zenon DEF Placed
  <2>5. /\ \A u \in handles' : Async(u)' /\ (Placed(u)' \/ result'[u] # "none")
        /\ \A u \in admitted' : Async(u)' /\ Placed(u)'
        /\ executor' = "admit" => \A u \in handing' : Async(u)' /\ Placed(u)'
        /\ \A u, v \in handing' : u = v
    BY <2>1, <2>4, WorkerKeeps, Zenon
  <2> QED
    BY <2>1, <2>2, <2>3, <2>5, Zenon DEF Placement
<1>12. CASE WriteEpoch
  <2>1. /\ UNCHANGED <<mode, handles, admitted, executor, handing, append_commit_requests,
                       requests, result, epoch_result, bound>>
        /\ worker = "write" /\ worker' = "account"
    BY <1>12, Zenon DEF WriteEpoch
  <2>2. outcome' # "none" /\ durable' \subseteq durable \cup {u \in Grouped : Async(u)}
    BY <1>12, Zenon DEF WriteEpoch
  <2>3. \A u : (Async(u)' <=> Async(u)) /\ (Placed(u) => Placed(u)')
    BY <2>1, Zenon DEF Async, Placed
  <2>4. Grouped' = Grouped
    BY <2>1, Zenon DEF Grouped
  <2>5. /\ \A u \in handles' : Async(u)' /\ (Placed(u)' \/ result'[u] # "none")
        /\ \A u \in admitted' : Async(u)' /\ Placed(u)'
        /\ executor' = "admit" => \A u \in handing' : Async(u)' /\ Placed(u)'
        /\ \A u, v \in handing' : u = v
    BY <2>1, <2>3, WorkerKeeps, Zenon
  <2> QED
    BY <2>1, <2>2, <2>3, <2>4, <2>5, Zenon DEF Placement
<1>13. CASE AccountEpoch
  <2>1. /\ UNCHANGED <<mode, handles, admitted, executor, handing, append_commit_requests,
                       requests, epoch_result, bound, outcome, durable>>
        /\ worker = "account" /\ worker' = "publish"
        /\ result' = [u \in Client |-> IF u \in Grouped /\ ~Async(u) THEN outcome ELSE result[u]]
    BY <1>13, Zenon DEF AccountEpoch
  <2>2. \A u \in Client : result[u] # "none" => result'[u] # "none" \/ ~Async(u)
    BY <2>1, Zenon
  <2>3. \A u : (Async(u)' <=> Async(u)) /\ (Placed(u) => Placed(u)')
    BY <2>1, Zenon DEF Async, Placed
  <2>4. Grouped' = Grouped
    BY <2>1, Zenon DEF Grouped
  <2>5. /\ \A u \in handles' : Async(u)' /\ (Placed(u)' \/ result'[u] # "none")
        /\ \A u \in admitted' : Async(u)' /\ Placed(u)'
        /\ executor' = "admit" => \A u \in handing' : Async(u)' /\ Placed(u)'
        /\ \A u, v \in handing' : u = v
    BY <2>1, <2>2, <2>3, WorkerKeeps, Zenon
  <2> QED
    BY <2>1, <2>3, <2>4, <2>5, Zenon DEF Placement
<1>14. CASE PublishEpoch
  <2>1. /\ UNCHANGED <<mode, handles, admitted, executor, handing, append_commit_requests,
                       requests, result, bound, outcome, durable>>
        /\ worker = "publish" /\ worker' = "published"
        /\ epoch_result' = [u \in Client |-> IF u \in Grouped /\ Async(u) THEN outcome
                                             ELSE epoch_result[u]]
    BY <1>14, Zenon DEF PublishEpoch
  <2>2. \A u : (Async(u)' <=> Async(u)) /\ (Placed(u) => Placed(u)')
    BY <2>1, Zenon DEF Async, Placed
  <2>3. Grouped' = Grouped
    BY <2>1, Zenon DEF Grouped
  <2>4. /\ \A u \in handles' : Async(u)' /\ (Placed(u)' \/ result'[u] # "none")
        /\ \A u \in admitted' : Async(u)' /\ Placed(u)'
        /\ executor' = "admit" => \A u \in handing' : Async(u)' /\ Placed(u)'
        /\ \A u, v \in handing' : u = v
    BY <2>1, <2>2, WorkerKeeps, Zenon
  <2>5. \A u \in Client : epoch_result'[u] # "none" => u \in bound
    BY <2>1, Zenon DEF Placement
  <2>6. \A u \in bound : epoch_result'[u] # "none"
    BY <2>1, Zenon DEF Placement, Sequenced
  <2> QED
    BY <2>1, <2>2, <2>3, <2>4, <2>5, <2>6, Zenon DEF Placement
<1>15. CASE FinishEpoch \/ WorkerExit
  <2>1. /\ UNCHANGED <<mode, handles, admitted, executor, handing, append_commit_requests,
                       result, epoch_result, bound, durable>>
        /\ worker \in {"published", "wait"} /\ worker' \in {"wait", "exited"}
    BY <1>15, Zenon DEF FinishEpoch, WorkerExit
  <2>2. \A u : (Async(u)' <=> Async(u)) /\ (Placed(u) => Placed(u)')
    BY <2>1, Zenon DEF Async, Placed
  <2>3. /\ \A u \in handles' : Async(u)' /\ (Placed(u)' \/ result'[u] # "none")
        /\ \A u \in admitted' : Async(u)' /\ Placed(u)'
        /\ executor' = "admit" => \A u \in handing' : Async(u)' /\ Placed(u)'
        /\ \A u, v \in handing' : u = v
    BY <2>1, <2>2, WorkerKeeps, Zenon
  <2> QED
    BY <2>1, <2>2, <2>3, Zenon DEF Placement
<1> QED
  BY <1>1, <1>2, <1>3, <1>4, <1>5, <1>6, <1>7, <1>8, <1>9, <1>10, <1>11, <1>12, <1>13,
     <1>14, <1>15
  DEF Next, ClientStep, ExecutorStep, WorkerStep, CloseStep

\* The whole invariant holds throughout.
LEMMA Sourced == Spec => [](Admission /\ Stages /\ Leaving /\ Sequenced /\ Placement)
<1>1. Init => Leaving
  BY Zenon DEF Init, Leaving, Late, Stopping, Joined, Stopped
<1>2. Init => Sequenced
  BY EmptyFacts, Zenon DEF Init, Sequenced
<1>3. Init => Placement
  BY Zenon DEF Init, Placement
<1>4. Admission /\ Stages /\ Leaving /\ [Next]_vars => Leaving'
  BY LeavingStep, Zenon
<1>5. Sequenced /\ [Next]_vars => Sequenced'
  BY SequencedStep, Zenon
<1>6. Sequenced /\ Placement /\ [Next]_vars => Placement'
  BY PlacementStep, Zenon
<1> QED
  BY <1>1, <1>2, <1>3, <1>4, <1>5, <1>6, Staged, PTL DEF Spec

(* A stopped pipeline has answered every handle, holds no ticket and no    *)
(* request, and no commit is inside, for any number of clients             *)
(* (StopAppendCommitPipeline, AsyncSubmissionExecutor::Stop).              *)
THEOREM StoppedCorrect == Spec => []StoppedIsComplete
<1>1. ASSUME Admission, Stages, Leaving, Sequenced, Placement,
             pc \in {"detach", "finish", "set_closed", "unset_closing", "destroyed"}
      PROVE  /\ tickets = {} /\ append_commit_requests = <<>>
             /\ \A t \in handles : WaitAnswer(t) # "none"
             /\ \A t \in Client : phase[t] \notin InCommit
  <2>1. worker = "exited" /\ tickets = {} /\ append_commit_requests = <<>>
    BY <1>1, Zenon DEF Stages, Leaving, Stopped
  <2>2. Range(append_commit_requests) = {}
    BY <2>1 DEF Range
  <2>3. ASSUME NEW t \in handles
        PROVE  WaitAnswer(t) # "none"
    <3>1. t \in bound \/ result[t] # "none"
      BY <1>1, <2>1, <2>2, <2>3, Zenon DEF Placement, Placed
    <3>2. t \in bound => epoch_result[t] # "none"
      BY <1>1, <2>1, Zenon DEF Placement
    <3> QED
      BY <3>1, <3>2, Zenon DEF WaitAnswer
  <2>4. CASE closing
    <3>1. PastCallDrain
      BY <1>1, <2>4, Zenon DEF PastCallDrain
    <3> QED
      BY <1>1, <2>1, <2>3, <3>1, Zenon DEF Admission
  <2>5. CASE ~closing
    <3>1. pc \in Late
      BY <1>1, Zenon DEF Late, Stopping, Joined, Stopped
    <3>2. Left
      BY <1>1, <2>5, <3>1, Zenon DEF Leaving
    <3> QED
      BY <2>1, <2>3, <3>2, Zenon DEF Left, InCommit
  <2> QED
    BY <2>4, <2>5, Zenon
<1>2. Admission /\ Stages /\ Leaving /\ Sequenced /\ Placement => StoppedIsComplete
  BY <1>1, Zenon DEF StoppedIsComplete
<1> QED
  BY <1>2, Sourced, PTL

-----------------------------------------------------------------------------
(* The answer of a handle. *)

\* The phases of a client that has submitted nothing yet.
Before == {"idle", "begin", "open", "register", "recheck_closing", "recheck_closed",
           "withdraw", "admitted", "submit"}

\* Whoever has reached the append pipeline.
Piped == Range(append_commit_requests) \cup Grouped \cup bound \cup committed

\* The tickets whose request the executor has not handed on.
Mailed == Range(queue) \cup IF executor = "handoff" THEN handing ELSE {}

\* Whoever has a ticket.
Sent == Range(queue) \cup handing \cup tickets \cup sweep

\* A commit is submitted once, and its call waits while its ticket is with the
\* executor.
Submission ==
  /\ \A t \in Client : phase[t] \in Before => t \notin Piped \cup Sent /\ result[t] = "none"
  /\ \A t \in Mailed : Async(t) => t \notin Piped /\ phase[t] = "waiting" /\ result[t] = "none"
  /\ IsInjective(queue)
  /\ executor = "handoff" => handing \cap Range(queue) = {}
  /\ stopping => queue = <<>>
  /\ pc = "fail_pending" /\ executor = "handoff" => handing \cap sweep = {}

\* A request is written once, and its epoch's result says what the log holds.
Writing ==
  /\ IsInjective(append_commit_requests)
  /\ \A t \in Range(append_commit_requests) : t \notin bound \cup committed \cup Grouped
  /\ worker \in {"wait", "exited"} => requests = <<>>
  /\ worker \in {"bind", "write", "account", "publish"} =>
       \A t \in Grouped : epoch_result[t] = "none"
  /\ worker \in {"bind", "write"} => \A t \in Grouped : t \notin committed
  /\ worker \in {"account", "publish"} =>
       \A t \in Grouped : /\ outcome = "committed" => t \in committed
                          /\ outcome = "aborted" => t \notin committed
  /\ \A t \in Client : /\ epoch_result[t] = "committed" => t \in committed
                       /\ epoch_result[t] = "aborted" => t \notin committed

\* Close past its drain, up to the end of AsyncSubmissionExecutor::Stop, which
\* it runs over a drained pipeline.
PastDrain ==
  closing /\ pc \in {"prepare", "stop_executor", "fail_pending", "join_executor",
                     "fail_remaining"}

Emptied == PastDrain => Drained

\* The handles whose answer AnswersHold is about.
Kept(t) == mode[t] = "async" \/ owner # "dropped"

\* A handle is answered by its epoch, unless ~Impl fails its ticket.
Waiting ==
  /\ DOMAIN waited = Client
  /\ \A t \in Client \ handles : waited[t] = "none"
  /\ \A t \in handles :
       /\ phase[t] \in {"finish", "end", "returned", "gone"}
       /\ mode[t] = "async" => t \in bound
       /\ owner # "dropped" => t \in bound \/ result[t] = "none"
       /\ waited[t] # "none" /\ Kept(t) => t \in bound /\ waited[t] = epoch_result[t]

\* Whoever is with the executor or in the pipeline is a client.
LEMMA Clients ==
  ASSUME Sequenced
  PROVE  /\ Mailed \subseteq Client /\ Range(queue) \subseteq Client
         /\ Range(append_commit_requests) \subseteq Client /\ Grouped \subseteq Client
<1>1. Range(queue) \subseteq Client
  BY RangeFacts, Zenon DEF Sequenced
<1>2. Range(append_commit_requests) \subseteq Client
  BY RangeFacts, Zenon DEF Sequenced
<1>3. Grouped \subseteq Client
  BY RangeFacts, Zenon DEF Sequenced, Grouped
<1> QED
  BY <1>1, <1>2, <1>3, Zenon DEF Mailed, Sequenced

\* A client that moves on, and is not waiting for the executor.
LEMMA SubmissionMove ==
  ASSUME Submission, Mailed \subseteq Client, phase \in [Client -> Phase],
         NEW t \in Client, NEW n,
         phase' = [phase EXCEPT ![t] = n],
         n \in Before => phase[t] \in Before,
         ~(t \in Mailed /\ Async(t)),
         Piped' \subseteq Piped,
         UNCHANGED <<mode, queue, handing, executor, tickets, stopping, sweep, result>>,
         pc' = "fail_pending" => pc = "fail_pending"
  PROVE  Submission'
<1>1. \A u \in Client : phase'[u] = IF u = t THEN n ELSE phase[u]
  BY Zenon
<1>2. Mailed' = Mailed /\ Sent' = Sent /\ \A u : Async(u)' <=> Async(u)
  BY Zenon DEF Mailed, Sent, Async
<1>3. \A u \in Client : phase'[u] \in Before => u \notin Piped' \cup Sent' /\ result'[u] = "none"
  BY <1>1, <1>2, Zenon DEF Submission
<1>4. \A u \in Mailed' : Async(u)' => u \notin Piped' /\ phase'[u] = "waiting" /\ result'[u] = "none"
  BY <1>1, <1>2, Zenon DEF Submission
<1> QED
  BY <1>3, <1>4, Zenon DEF Submission

\* A step of the workers or of a close, past which the executor holds no more.
LEMMA SubmissionFrame ==
  ASSUME Submission, Mailed \subseteq Client,
         UNCHANGED <<mode, phase, queue, stopping, sweep>>,
         Piped' \subseteq Piped, handing' \subseteq handing, tickets' \subseteq tickets,
         executor' = "handoff" => executor = "handoff",
         \A u \in Client : phase[u] \in Before \/ (u \in Mailed /\ Async(u)) =>
                            result'[u] = result[u],
         pc' = "fail_pending" => pc = "fail_pending"
  PROVE  Submission'
<1>1. Mailed' \subseteq Mailed /\ Sent' \subseteq Sent /\ \A u : Async(u)' <=> Async(u)
  BY Zenon DEF Mailed, Sent, Async
<1>2. \A u \in Client : phase'[u] \in Before => u \notin Piped' \cup Sent' /\ result'[u] = "none"
  BY <1>1, Zenon DEF Submission
<1>3. \A u \in Mailed' : Async(u)' => u \notin Piped' /\ phase'[u] = "waiting" /\ result'[u] = "none"
  BY <1>1, Zenon DEF Submission
<1> QED
  BY <1>2, <1>3, Zenon DEF Submission

\* What an epoch takes from the queue.
LEMMA SelectTakes ==
  ASSUME Sequenced, Writing, Select
  PROVE  /\ Grouped' \subseteq Range(append_commit_requests)
         /\ Range(append_commit_requests') \subseteq Range(append_commit_requests)
         /\ Grouped' \cap Range(append_commit_requests') = {}
         /\ IsInjective(append_commit_requests')
<1>1. PICK n \in 1..Len(append_commit_requests) :
        /\ requests' = SubSeq(append_commit_requests, 1, n)
        /\ append_commit_requests' =
             SubSeq(append_commit_requests, n + 1, Len(append_commit_requests))
  BY Zenon DEF Select
<1>2. append_commit_requests \in Seq(Client) /\ IsInjective(append_commit_requests)
  BY Zenon DEF Sequenced, Writing
<1>3. Len(append_commit_requests) \in Nat
  BY <1>2, LenFacts, Zenon
<1>4. n \in Nat /\ n <= Len(append_commit_requests)
  BY <1>3
<1>5. /\ IsInjective(append_commit_requests')
      /\ Range(requests') \subseteq Range(append_commit_requests)
      /\ Range(append_commit_requests') \subseteq Range(append_commit_requests)
      /\ \A x \in Range(requests') : \E i \in 1..n : append_commit_requests[i] = x
      /\ \A i \in 1..n : append_commit_requests[i] \notin Range(append_commit_requests')
  BY <1>1, <1>2, <1>4, SplitDistinct, Zenon
<1> QED
  BY <1>5, Zenon DEF Grouped

\* The append worker moves only what is in the pipeline.
LEMMA PipedKept ==
  ASSUME Sequenced, Writing,
         \/ Select \/ BindEpoch \/ WriteEpoch \/ AccountEpoch \/ PublishEpoch
         \/ FinishEpoch \/ WorkerExit
  PROVE  Piped' \subseteq Piped
<1> USE DEF clientVars, pipelineVars, handleVars
<1>1. CASE Select
  BY <1>1, SelectTakes, Zenon DEF Select, Piped
<1>2. CASE BindEpoch
  BY <1>2, Zenon DEF BindEpoch, Piped, Grouped
<1>3. CASE WriteEpoch
  <2>1. committed' \subseteq committed \cup Grouped
    BY <1>3, Zenon DEF WriteEpoch
  <2> QED
    BY <1>3, <2>1, Zenon DEF WriteEpoch, Piped, Grouped
<1>4. CASE AccountEpoch \/ PublishEpoch \/ WorkerExit
  BY <1>4, Zenon DEF AccountEpoch, PublishEpoch, WorkerExit, Piped, Grouped
<1>5. CASE FinishEpoch
  <2>1. Grouped' = {}
    BY <1>5, EmptyFacts, Zenon DEF FinishEpoch, Grouped
  <2> QED
    BY <1>5, <2>1, Zenon DEF FinishEpoch, Piped
<1> QED
  BY <1>1, <1>2, <1>3, <1>4, <1>5, Zenon

\* A commit is submitted once.
LEMMA SubmissionStep ==
  ASSUME Admission, Stages, Leaving, Sequenced, Placement, Submission, Writing, [Next]_vars
  PROVE  Submission'
<1> USE DEF flags, closeVars, clientVars, storeVars, executorVars, pipelineVars, handleVars,
            queryVars, To
<1>m. Mailed \subseteq Client /\ phase \in [Client -> Phase]
  BY Clients, Zenon DEF Admission
<1>1. ASSUME NEW t \in Client,
             \/ BeginTransaction(t) \/ PinSnapshot(t) \/ StartCommit(t) \/ Register(t)
             \/ Recheck(t) \/ EndCommit(t) \/ CheckRefresh(t) \/ DropTransaction(t)
      PROVE  Submission'
  <2>1. PICK n : /\ phase' = [phase EXCEPT ![t] = n]
                 /\ n \in Before => phase[t] \in Before
    BY <1>1, Zenon DEF BeginTransaction, PinSnapshot, StartCommit, Register, Recheck,
      EndCommit, CheckRefresh, DropTransaction, Before
  <2>2. /\ phase[t] # "waiting"
        /\ UNCHANGED <<mode, queue, handing, executor, tickets, stopping, sweep, result,
                       append_commit_requests, requests, bound, committed>>
    BY <1>1, Zenon DEF BeginTransaction, PinSnapshot, StartCommit, Register, Recheck,
      EndCommit, CheckRefresh, DropTransaction
  <2>3. pc' = "fail_pending" => pc = "fail_pending"
    BY <1>1, Zenon DEF BeginTransaction, PinSnapshot, StartCommit, Register, Recheck,
      EndCommit, WakeCallDrain, CheckRefresh, DropTransaction
  <2>4. Piped' \subseteq Piped
    BY <2>2, Zenon DEF Piped, Grouped
  <2>5. ~(t \in Mailed /\ Async(t))
    BY <2>2, Zenon DEF Submission
  <2> QED
    BY <1>m, <2>1, <2>2, <2>3, <2>4, <2>5, SubmissionMove, Zenon
<1>2. ASSUME NEW t \in Client, FinishCommit(t)
      PROVE  Submission'
  <2>1. PICK n \in {"finish", "end"} : phase' = [phase EXCEPT ![t] = n]
    BY <1>2, Zenon DEF FinishCommit
  <2>2. /\ phase[t] # "waiting" \/ Answered(t)
        /\ UNCHANGED <<mode, queue, handing, executor, tickets, stopping, sweep, result,
                       append_commit_requests, requests, bound, committed, pc>>
    BY <1>2, Zenon DEF FinishCommit
  <2>3. Piped' \subseteq Piped
    BY <2>2, Zenon DEF Piped, Grouped
  <2>4. Answered(t) => result[t] # "none" \/ t \in Piped
    BY Zenon DEF Answered, Placement, Placed, Piped
  <2>5. ~(t \in Mailed /\ Async(t))
    BY <2>2, <2>4, Zenon DEF Submission
  <2>6. n \notin Before
    BY <2>1, Zenon DEF Before
  <2> QED
    BY <1>m, <2>1, <2>2, <2>3, <2>5, <2>6, SubmissionMove, Zenon
<1>3. ASSUME NEW t \in Client, SubmitSync(t)
      PROVE  Submission'
  <2>1. PICK n \in {"waiting", "finish"} : phase' = [phase EXCEPT ![t] = n]
    BY <1>3, Zenon DEF SubmitSync
  <2>2. /\ phase[t] = "admitted" /\ mode[t] = "sync"
        /\ UNCHANGED <<mode, queue, handing, executor, tickets, stopping, sweep, requests, bound,
                       committed, pc>>
    BY <1>3, Zenon DEF SubmitSync
  <2>3. n \notin Before /\ phase[t] \in Before
    BY <2>1, <2>2, Zenon DEF Before
  <2>4. \A u \in Client : phase'[u] = IF u = t THEN n ELSE phase[u]
    BY <1>m, <2>1, Zenon
  <2>5. \A u \in Client : u # t => result'[u] = result[u]
    BY <1>3, Zenon DEF SubmitSync, Sequenced
  <2>6. \A u \in Client : u # t /\ u \notin Piped => u \notin Piped'
    <3>1. \/ UNCHANGED append_commit_requests
          \/ append_commit_requests' = Append(append_commit_requests, t)
      BY <1>3, Zenon DEF SubmitSync
    <3>2. append_commit_requests \in Seq(Client)
      BY Zenon DEF Sequenced
    <3>3. Range(Append(append_commit_requests, t)) = Range(append_commit_requests) \cup {t}
      BY <3>2, AppendFacts
    <3>4. Range(append_commit_requests') \subseteq Range(append_commit_requests) \cup {t}
      BY <3>1, <3>3, Zenon
    <3> QED
      BY <2>2, <3>4, Zenon DEF Piped, Grouped
  <2>7. Mailed' = Mailed /\ Sent' = Sent /\ \A u : Async(u)' <=> Async(u)
    BY <2>2, Zenon DEF Mailed, Sent, Async
  <2>8. t \notin Mailed
    BY <2>3, Zenon DEF Submission, Mailed, Sent
  <2>9. \A u \in Client : phase'[u] \in Before =>
          u \notin Piped' \cup Sent' /\ result'[u] = "none"
    BY <2>3, <2>4, <2>5, <2>6, <2>7, Zenon DEF Submission
  <2>10. \A u \in Mailed' : Async(u)' =>
           u \notin Piped' /\ phase'[u] = "waiting" /\ result'[u] = "none"
    BY <1>m, <2>4, <2>5, <2>6, <2>7, <2>8, Zenon DEF Submission
  <2> QED
    BY <2>2, <2>9, <2>10, Zenon DEF Submission
<1>4. ASSUME NEW t \in Client, SubmitTicket(t)
      PROVE  Submission'
  <2>1. PICK n \in {"waiting", "finish", "gone"} : phase' = [phase EXCEPT ![t] = n]
    BY <1>4, Zenon DEF SubmitTicket
  <2>2. /\ phase[t] \in Before
        /\ UNCHANGED <<mode, handing, executor, stopping, sweep, requests, bound,
                       append_commit_requests, committed, pc>>
    BY <1>4, Zenon DEF SubmitTicket, Before
  <2>3. /\ n \notin Before /\ t \notin Piped /\ result[t] = "none"
        /\ t \notin Range(queue) /\ t \notin handing
    BY <2>1, <2>2, Zenon DEF Before, Submission, Sent
  <2>4. \A u \in Client : phase'[u] = IF u = t THEN n ELSE phase[u]
    BY <1>m, <2>1, Zenon
  <2>5. Piped' = Piped /\ \A u : Async(u)' <=> Async(u)
    BY <2>2, Zenon DEF Piped, Grouped, Async
  <2>6. queue \in Seq(Client) /\ IsInjective(queue)
    BY Zenon DEF Submission, Sequenced
  <2>7. CASE /\ ~stopping /\ queue' = Append(queue, t) /\ tickets' = tickets \cup {t}
             /\ To(t, IF Async(t) THEN "waiting" ELSE "gone") /\ UNCHANGED result
    <3>1. Range(queue') = Range(queue) \cup {t}
      <4>1. Range(Append(queue, t)) = Range(queue) \cup {t}
        BY <2>6, AppendFacts
      <4> QED
        BY <2>7, <4>1, Zenon
    <3>2. IsInjective(queue')
      BY <2>3, <2>6, <2>7, AppendDistinct, Zenon
    <3>3. Mailed' = Mailed \cup {t} /\ Sent' = Sent \cup {t}
      BY <2>2, <2>7, <3>1, Zenon DEF Mailed, Sent
    <3>4. Async(t) => phase'[t] = "waiting"
      BY <1>m, <2>7, Zenon
    <3>5. \A u \in Client : phase'[u] \in Before =>
            u \notin Piped' \cup Sent' /\ result'[u] = "none"
      BY <2>3, <2>4, <2>5, <2>7, <3>3, Zenon DEF Submission
    <3>6. ASSUME NEW u \in Mailed', Async(u)
          PROVE  u \notin Piped' /\ phase'[u] = "waiting" /\ result'[u] = "none"
      <4>1. CASE u = t
        BY <2>3, <2>5, <2>7, <3>4, <3>6, <4>1, Zenon
      <4>2. CASE u # t
        BY <1>m, <2>4, <2>5, <2>7, <3>3, <3>6, <4>2, Zenon DEF Submission
      <4> QED
        BY <4>1, <4>2, Zenon
    <3>7. executor' = "handoff" => handing' \cap Range(queue') = {}
      BY <2>2, <2>3, <3>1, Zenon DEF Submission
    <3> QED
      BY <2>2, <2>5, <2>7, <3>2, <3>5, <3>6, <3>7, Zenon DEF Submission
  <2>8. CASE result' = [result EXCEPT ![t] = "rejected"] /\ UNCHANGED <<queue, tickets>>
    <3>1. \A u \in Client : u # t => result'[u] = result[u]
      BY <2>8, Zenon DEF Sequenced
    <3>2. Mailed' = Mailed /\ Sent' = Sent /\ t \notin Mailed
      BY <2>2, <2>3, <2>8, Zenon DEF Mailed, Sent
    <3>3. \A u \in Client : phase'[u] \in Before =>
            u \notin Piped' \cup Sent' /\ result'[u] = "none"
      BY <2>3, <2>4, <2>5, <3>1, <3>2, Zenon DEF Submission
    <3>4. \A u \in Mailed' : Async(u)' =>
            u \notin Piped' /\ phase'[u] = "waiting" /\ result'[u] = "none"
      BY <1>m, <2>4, <2>5, <3>1, <3>2, Zenon DEF Submission
    <3> QED
      BY <2>2, <2>8, <3>3, <3>4, Zenon DEF Submission
  <2> QED
    BY <1>4, <2>7, <2>8, Zenon DEF SubmitTicket
<1>5. ASSUME NEW t \in Client,
             \/ WaitHandle(t) \/ OpenCursor(t) \/ BeginOperation(t) \/ EndOperation(t)
             \/ CloseCursor(t) \/ CloseCallback(t) \/ MarkCommitHandleAdmitted(t)
      PROVE  Submission'
  <2>1. /\ UNCHANGED <<mode, phase, queue, stopping, sweep, handing, tickets, result, pc,
                       append_commit_requests, requests, bound, committed>>
        /\ executor' = "handoff" => executor = "handoff"
    BY <1>5, Zenon DEF WaitHandle, OpenCursor, BeginOperation, EndOperation, CloseCursor,
      CloseCallback, MarkCommitHandleAdmitted
  <2>2. Piped' \subseteq Piped
    BY <2>1, Zenon DEF Piped, Grouped
  <2> QED
    BY <1>m, <2>1, <2>2, SubmissionFrame, Zenon
<1>6. ASSUME \/ DropTicket \/ ExecutorExit \/ DropDatabase \/ CloseQueries
             \/ DrainAppendCommitPipeline \/ StopWorker \/ PrepareClose \/ FinishClose
             \/ WaitForActiveCommitCalls \/ (\E drop \in BOOLEAN : BeginClose(drop))
      PROVE  Submission'
  <2>1. /\ UNCHANGED <<mode, phase, queue, stopping, sweep, tickets, result,
                       append_commit_requests, requests, bound, committed>>
        /\ handing' \subseteq handing
        /\ executor' = "handoff" => executor = "handoff"
    BY <1>6, Zenon DEF DropTicket, ExecutorExit, DropDatabase, CloseQueries,
      DrainAppendCommitPipeline, StopWorker, PrepareClose, FinishClose,
      WaitForActiveCommitCalls, BeginClose
  <2>2. pc' = "fail_pending" => pc = "fail_pending"
    BY <1>6, Zenon DEF DropTicket, ExecutorExit, DropDatabase, CloseQueries,
      DrainAppendCommitPipeline, StopWorker, PrepareClose, FinishClose,
      WaitForActiveCommitCalls, BeginClose
  <2>3. Piped' \subseteq Piped
    BY <2>1, Zenon DEF Piped, Grouped
  <2> QED
    BY <1>m, <2>1, <2>2, <2>3, SubmissionFrame, Zenon
<1>7. ASSUME \/ Select \/ BindEpoch \/ WriteEpoch \/ AccountEpoch \/ PublishEpoch
             \/ FinishEpoch \/ WorkerExit
      PROVE  Submission'
  <2>1. /\ UNCHANGED <<mode, phase, queue, stopping, sweep, handing, executor>>
        /\ tickets' \subseteq tickets
    BY <1>7, Zenon DEF Select, BindEpoch, WriteEpoch, AccountEpoch, PublishEpoch,
      FinishEpoch, WorkerExit
  <2>2. pc' = "fail_pending" => pc = "fail_pending"
    BY <1>7, Zenon DEF Select, BindEpoch, WriteEpoch, AccountEpoch, PublishEpoch,
      FinishEpoch, WorkerExit
  <2>3. \A u \in Client : Async(u) \/ u \notin Grouped => result'[u] = result[u]
    BY <1>7, Zenon DEF Select, BindEpoch, WriteEpoch, AccountEpoch, PublishEpoch,
      FinishEpoch, WorkerExit
  <2>4. \A u \in Client : phase[u] \in Before => u \notin Grouped
    BY Zenon DEF Submission, Piped
  <2>5. Piped' \subseteq Piped
    BY <1>7, PipedKept, Zenon
  <2> QED
    BY <1>m, <2>1, <2>2, <2>3, <2>4, <2>5, SubmissionFrame, Zenon
<1>8. CASE ExecutorTake
  <2>1. /\ UNCHANGED <<mode, phase, stopping, sweep, tickets, result, pc,
                       append_commit_requests, requests, bound, committed>>
        /\ queue # <<>> /\ handing' = {Head(queue)} /\ queue' = Tail(queue)
    BY <1>8, Zenon DEF ExecutorTake
  <2>2. /\ queue \in Seq(Client) /\ IsInjective(queue)
        /\ ~stopping /\ pc # "fail_pending"
    BY <2>1, Zenon DEF Sequenced, Submission, Leaving, Late, Stopping
  <2>3. /\ Head(queue) \in Range(queue) /\ Head(queue) \notin Range(queue')
        /\ Range(queue') \subseteq Range(queue) /\ IsInjective(queue')
    BY <2>1, <2>2, HeadFacts, Zenon
  <2>4. Mailed' \subseteq Mailed /\ Sent' \subseteq Sent
    BY <2>1, <2>3, Zenon DEF Mailed, Sent
  <2>5. Piped' = Piped /\ \A u : Async(u)' <=> Async(u)
    BY <2>1, Zenon DEF Piped, Grouped, Async
  <2>6. \A u \in Client : phase'[u] \in Before =>
          u \notin Piped' \cup Sent' /\ result'[u] = "none"
    BY <2>1, <2>4, <2>5, Zenon DEF Submission
  <2>7. \A u \in Mailed' : Async(u)' =>
          u \notin Piped' /\ phase'[u] = "waiting" /\ result'[u] = "none"
    BY <2>1, <2>4, <2>5, Zenon DEF Submission
  <2> QED
    BY <2>1, <2>2, <2>3, <2>6, <2>7, Zenon DEF Submission
<1>9. ASSUME NEW t \in Client, Handoff(t)
      PROVE  Submission'
  <2>1. /\ UNCHANGED <<mode, phase, queue, handing, stopping, sweep, pc, requests, bound,
                       committed>>
        /\ t \in handing /\ executor = "handoff" /\ executor' # "handoff"
        /\ tickets' \subseteq tickets
    BY <1>9, Zenon DEF Handoff, CompleteCommitHandle, Release
  <2>2. /\ \/ UNCHANGED append_commit_requests
           \/ append_commit_requests' = Append(append_commit_requests, t)
        /\ \/ UNCHANGED result
           \/ \E s \in {"rejected", "done"} : result' = [result EXCEPT ![t] = s]
    BY <1>9, Zenon DEF Handoff, CompleteCommitHandle
  <2>3. append_commit_requests \in Seq(Client)
    BY Zenon DEF Sequenced
  <2>4. Range(append_commit_requests') \subseteq Range(append_commit_requests) \cup {t}
    <3>1. Range(Append(append_commit_requests, t)) = Range(append_commit_requests) \cup {t}
      BY <2>3, AppendFacts
    <3> QED
      BY <2>2, <3>1, Zenon
  <2>5. \A u \in Client : u # t => result'[u] = result[u]
    BY <2>2, Zenon DEF Sequenced
  <2>6. Piped' \subseteq Piped \cup {t} /\ Sent' \subseteq Sent /\ t \in Sent
    BY <2>1, <2>4, Zenon DEF Piped, Grouped, Sent
  <2>7. Mailed' = Range(queue) /\ t \notin Mailed' /\ Mailed' \subseteq Mailed
    BY <2>1, Zenon DEF Mailed, Submission
  <2>8. \A u : Async(u)' <=> Async(u)
    BY <2>1, Zenon DEF Async
  <2>9. \A u \in Client : phase'[u] \in Before =>
          u \notin Piped' \cup Sent' /\ result'[u] = "none"
    BY <2>1, <2>5, <2>6, Zenon DEF Submission
  <2>10. \A u \in Mailed' : Async(u)' =>
           u \notin Piped' /\ phase'[u] = "waiting" /\ result'[u] = "none"
    BY <1>m, <2>1, <2>5, <2>6, <2>7, <2>8, Zenon DEF Submission
  <2> QED
    BY <2>1, <2>9, <2>10, Zenon DEF Submission
<1>10. CASE StopExecutor
  <2>1. UNCHANGED <<mode, phase, handing, executor, tickets, result, append_commit_requests,
                    requests, bound, committed>>
    BY <1>10, Zenon DEF StopExecutor
  <2>2. /\ queue' = queue \/ (queue' = <<>> /\ stopping')
        /\ UNCHANGED stopping \/ queue' = <<>>
        /\ sweep' \in {sweep, Range(queue), tickets}
        /\ pc' = "fail_pending" => sweep' = Range(queue)
    BY <1>10, Zenon DEF StopExecutor
  <2>3. Range(queue') \subseteq Range(queue) /\ IsInjective(queue')
    <3>1. IsInjective(<<>>)
      BY DEF IsInjective
    <3> QED
      BY <2>2, <3>1, EmptyFacts, Zenon DEF Submission
  <2>4. Mailed' \subseteq Mailed /\ Sent' \subseteq Sent
    BY <2>1, <2>2, <2>3, Zenon DEF Mailed, Sent
  <2>5. Piped' = Piped /\ \A u : Async(u)' <=> Async(u)
    BY <2>1, Zenon DEF Piped, Grouped, Async
  <2>6. \A u \in Client : phase'[u] \in Before =>
          u \notin Piped' \cup Sent' /\ result'[u] = "none"
    BY <2>1, <2>4, <2>5, Zenon DEF Submission
  <2>7. \A u \in Mailed' : Async(u)' =>
          u \notin Piped' /\ phase'[u] = "waiting" /\ result'[u] = "none"
    BY <2>1, <2>4, <2>5, Zenon DEF Submission
  <2>8. stopping' => queue' = <<>>
    BY <2>2, Zenon DEF Submission
  <2>9. executor' = "handoff" => handing' \cap Range(queue') = {}
    BY <2>1, <2>3, Zenon DEF Submission
  <2>10. pc' = "fail_pending" /\ executor' = "handoff" => handing' \cap sweep' = {}
    BY <2>1, <2>2, Zenon DEF Submission
  <2> QED
    BY <2>3, <2>6, <2>7, <2>8, <2>9, <2>10, Zenon DEF Submission
<1>11. ASSUME NEW t \in Client, FailTicket(t)
       PROVE  Submission'
  <2>1. /\ UNCHANGED <<mode, phase, queue, handing, stopping, executor, pc, requests, bound,
                       append_commit_requests, committed>>
        /\ t \in sweep /\ sweep' \subseteq sweep /\ tickets' \subseteq tickets
        /\ pc \in {"fail_pending", "fail_remaining"}
        /\ result' = result \/ result' = [result EXCEPT ![t] = "aborted"]
    BY <1>11, Zenon DEF FailTicket, CompleteCommitHandle, Release
  <2>2. \A u \in Client : u # t => result'[u] = result[u]
    BY <2>1, Zenon DEF Sequenced
  <2>3. stopping /\ queue = <<>> /\ (pc = "fail_remaining" => executor = "exited")
    BY <2>1, Zenon DEF Submission, Leaving, Stages, Late, Stopping, Joined
  <2>4. t \notin Mailed
    BY <2>1, <2>3, EmptyFacts, Zenon DEF Mailed, Submission
  <2>5. Piped' = Piped /\ Sent' \subseteq Sent /\ t \in Sent /\ Mailed' = Mailed
    BY <2>1, Zenon DEF Piped, Grouped, Sent, Mailed
  <2>6. \A u \in Client : phase'[u] \in Before =>
          u \notin Piped' \cup Sent' /\ result'[u] = "none"
    BY <2>1, <2>2, <2>5, Zenon DEF Submission
  <2>7. \A u \in Mailed' : Async(u)' =>
          u \notin Piped' /\ phase'[u] = "waiting" /\ result'[u] = "none"
    BY <1>m, <2>1, <2>2, <2>4, <2>5, Zenon DEF Submission, Async
  <2> QED
    BY <2>1, <2>6, <2>7, Zenon DEF Submission
<1>12. CASE UNCHANGED vars
  BY <1>12, Zenon DEF vars, Submission, Piped, Grouped, Sent, Mailed, Async
<1> QED
  BY <1>1, <1>2, <1>3, <1>4, <1>5, <1>6, <1>7, <1>8, <1>9, <1>10, <1>11, <1>12
  DEF Next, ClientStep, ExecutorStep, WorkerStep, CloseStep

\* A request that comes to the queue was not in the pipeline.
LEMMA WritingAppend ==
  ASSUME Sequenced, Writing, NEW t \in Client, t \notin Piped,
         append_commit_requests' = Append(append_commit_requests, t),
         UNCHANGED <<requests, worker, outcome, bound, committed, epoch_result>>
  PROVE  Writing'
<1>1. append_commit_requests \in Seq(Client) /\ IsInjective(append_commit_requests)
  BY Zenon DEF Sequenced, Writing
<1>2. Range(Append(append_commit_requests, t)) = Range(append_commit_requests) \cup {t}
  BY <1>1, AppendFacts
<1>3. t \notin Range(append_commit_requests) \cup Grouped \cup bound \cup committed
  BY Zenon DEF Piped
<1>4. IsInjective(append_commit_requests')
  BY <1>1, <1>3, AppendDistinct, Zenon
<1>5. Grouped' = Grouped
  BY Zenon DEF Grouped
<1>6. \A u \in Range(append_commit_requests') : u \notin bound' \cup committed' \cup Grouped'
  BY <1>2, <1>3, <1>5, Zenon DEF Writing
<1> QED
  BY <1>4, <1>5, <1>6, Zenon DEF Writing

\* A request is written once.
LEMMA WritingStep ==
  ASSUME Sequenced, Placement, Submission, Writing, [Next]_vars
  PROVE  Writing'
<1> USE DEF flags, closeVars, clientVars, storeVars, executorVars, pipelineVars, handleVars,
            queryVars
<1>f. ASSUME UNCHANGED <<append_commit_requests, requests, worker, outcome, bound, committed,
                         epoch_result>>
      PROVE  Writing'
  BY <1>f, Zenon DEF Writing, Grouped
<1>1. ASSUME NEW t \in Client,
             \/ BeginTransaction(t) \/ PinSnapshot(t) \/ StartCommit(t) \/ Register(t)
             \/ Recheck(t) \/ EndCommit(t) \/ CheckRefresh(t) \/ DropTransaction(t)
             \/ SubmitTicket(t) \/ FinishCommit(t) \/ WaitHandle(t)
      PROVE  Writing'
  <2>1. UNCHANGED <<append_commit_requests, requests, worker, outcome, bound, committed,
                    epoch_result>>
    BY <1>1, Zenon DEF BeginTransaction, PinSnapshot, StartCommit, Register, Recheck,
      EndCommit, CheckRefresh, DropTransaction, SubmitTicket, FinishCommit, WaitHandle
  <2> QED
    BY <1>f, <2>1, Zenon
<1>2. ASSUME NEW t \in Client,
             \/ OpenCursor(t) \/ BeginOperation(t) \/ EndOperation(t) \/ CloseCursor(t)
             \/ CloseCallback(t) \/ MarkCommitHandleAdmitted(t) \/ FailTicket(t)
      PROVE  Writing'
  <2>1. UNCHANGED <<append_commit_requests, requests, worker, outcome, bound, committed,
                    epoch_result>>
    BY <1>2, Zenon DEF OpenCursor, BeginOperation, EndOperation, CloseCursor, CloseCallback,
      MarkCommitHandleAdmitted, FailTicket, CompleteCommitHandle
  <2> QED
    BY <1>f, <2>1, Zenon
<1>3. ASSUME \/ ExecutorTake \/ DropTicket \/ ExecutorExit \/ DropDatabase \/ CloseQueries
             \/ DrainAppendCommitPipeline \/ StopExecutor \/ StopWorker \/ PrepareClose
             \/ FinishClose \/ WaitForActiveCommitCalls
             \/ (\E drop \in BOOLEAN : BeginClose(drop))
      PROVE  Writing'
  <2>1. UNCHANGED <<append_commit_requests, requests, worker, outcome, bound, committed,
                    epoch_result>>
    BY <1>3, Zenon DEF ExecutorTake, DropTicket, ExecutorExit, DropDatabase, CloseQueries,
      DrainAppendCommitPipeline, StopExecutor, StopWorker, PrepareClose, FinishClose,
      WaitForActiveCommitCalls, BeginClose
  <2> QED
    BY <1>f, <2>1, Zenon
<1>4. ASSUME NEW t \in Client, SubmitSync(t)
      PROVE  Writing'
  <2>1. /\ phase[t] = "admitted"
        /\ UNCHANGED <<requests, worker, outcome, bound, committed, epoch_result>>
        /\ \/ UNCHANGED append_commit_requests
           \/ append_commit_requests' = Append(append_commit_requests, t)
    BY <1>4, Zenon DEF SubmitSync
  <2>2. t \notin Piped
    BY <2>1, Zenon DEF Submission, Before
  <2> QED
    BY <1>f, <2>1, <2>2, WritingAppend, Zenon
<1>5. ASSUME NEW t \in Client, Handoff(t)
      PROVE  Writing'
  <2>1. /\ UNCHANGED <<requests, worker, outcome, bound, committed, epoch_result>>
        /\ \/ UNCHANGED append_commit_requests
           \/ Async(t) /\ append_commit_requests' = Append(append_commit_requests, t)
        /\ executor = "handoff" /\ t \in handing
    BY <1>5, Zenon DEF Handoff, CompleteCommitHandle
  <2>2. Async(t) => t \notin Piped
    BY <2>1, Zenon DEF Submission, Mailed
  <2> QED
    BY <1>f, <2>1, <2>2, WritingAppend, Zenon
<1>6. CASE Select
  <2>1. /\ UNCHANGED <<outcome, bound, committed, epoch_result>>
        /\ worker' = "bind"
    BY <1>6, Zenon DEF Select
  <2>2. /\ Grouped' \subseteq Range(append_commit_requests)
        /\ Range(append_commit_requests') \subseteq Range(append_commit_requests)
        /\ Grouped' \cap Range(append_commit_requests') = {}
        /\ IsInjective(append_commit_requests')
    BY <1>6, SelectTakes, Zenon
  <2>3. \A u \in Range(append_commit_requests) :
          u \notin bound /\ u \notin committed /\ u \in Client
    BY Clients, Zenon DEF Writing
  <2>4. \A u \in Grouped' : epoch_result'[u] = "none" /\ u \notin committed'
    BY <2>1, <2>2, <2>3, Zenon DEF Placement
  <2>5. \A u \in Range(append_commit_requests') : u \notin bound' \cup committed' \cup Grouped'
    BY <2>1, <2>2, <2>3, Zenon
  <2> QED
    BY <2>1, <2>2, <2>4, <2>5, Zenon DEF Writing
<1>7. CASE BindEpoch
  <2>1. /\ UNCHANGED <<append_commit_requests, requests, outcome, committed, epoch_result>>
        /\ worker = "bind" /\ worker' = "write" /\ Grouped' = Grouped
        /\ bound' \subseteq bound \cup Grouped
    BY <1>7, Zenon DEF BindEpoch, Grouped
  <2>2. \A u \in Range(append_commit_requests') : u \notin bound' \cup committed' \cup Grouped'
    BY <2>1, Zenon DEF Writing
  <2> QED
    BY <2>1, <2>2, Zenon DEF Writing
<1>8. CASE WriteEpoch
  <2>1. /\ UNCHANGED <<append_commit_requests, requests, bound, epoch_result>>
        /\ worker = "write" /\ worker' = "account" /\ Grouped' = Grouped
    BY <1>8, Zenon DEF WriteEpoch, Grouped
  <2>2. /\ committed \subseteq committed' /\ committed' \subseteq committed \cup Grouped
        /\ outcome' = "committed" => committed' = committed \cup Grouped
        /\ outcome' = "aborted" => committed' = committed
    BY <1>8, Zenon DEF WriteEpoch
  <2>3. \A u \in Range(append_commit_requests') : u \notin bound' \cup committed' \cup Grouped'
    BY <2>1, <2>2, Zenon DEF Writing
  <2>4. \A u \in Grouped' : /\ outcome' = "committed" => u \in committed'
                            /\ outcome' = "aborted" => u \notin committed'
    BY <2>1, <2>2, Zenon DEF Writing
  <2>5. \A u \in Client : /\ epoch_result'[u] = "committed" => u \in committed'
                          /\ epoch_result'[u] = "aborted" => u \notin committed'
    BY <2>1, <2>2, Zenon DEF Writing
  <2> QED
    BY <2>1, <2>3, <2>4, <2>5, Zenon DEF Writing
<1>9. CASE AccountEpoch
  BY <1>9, Zenon DEF AccountEpoch, Writing, Grouped
<1>10. CASE PublishEpoch
  <2>1. /\ UNCHANGED <<append_commit_requests, requests, bound, committed, outcome>>
        /\ worker = "publish" /\ worker' = "published" /\ Grouped' = Grouped
    BY <1>10, Zenon DEF PublishEpoch, Grouped
  <2>2. \A u \in Client : epoch_result'[u] = IF u \in Grouped /\ Async(u) THEN outcome
                                             ELSE epoch_result[u]
    BY <1>10, Zenon DEF PublishEpoch
  <2>3. \A u \in Client : /\ epoch_result'[u] = "committed" => u \in committed'
                          /\ epoch_result'[u] = "aborted" => u \notin committed'
    BY <2>1, <2>2, Zenon DEF Writing
  <2> QED
    BY <2>1, <2>3, Zenon DEF Writing
<1>11. CASE FinishEpoch
  <2>1. /\ UNCHANGED <<append_commit_requests, bound, committed, epoch_result>>
        /\ worker' = "wait" /\ requests' = <<>>
    BY <1>11, Zenon DEF FinishEpoch
  <2>2. Grouped' = {}
    BY <2>1, EmptyFacts, Zenon DEF Grouped
  <2> QED
    BY <2>1, <2>2, Zenon DEF Writing
<1>12. CASE WorkerExit
  BY <1>12, Zenon DEF WorkerExit, Writing, Grouped
<1>13. CASE UNCHANGED vars
  BY <1>f, <1>13, Zenon DEF vars
<1> QED
  BY <1>1, <1>2, <1>3, <1>4, <1>5, <1>6, <1>7, <1>8, <1>9, <1>10, <1>11, <1>12, <1>13
  DEF Next, ClientStep, ExecutorStep, WorkerStep, CloseStep

\* Nothing comes to the pipeline behind the drain of a close.
LEMMA EmptiedStep ==
  ASSUME Admission, Sequenced, Submission, Emptied, [Next]_vars
  PROVE  Emptied'
<1> USE DEF flags, closeVars, clientVars, storeVars, executorVars, pipelineVars, handleVars,
            queryVars
<1>f. ASSUME UNCHANGED <<mode, append_commit_requests, worker, requests>>,
             PastDrain' => PastDrain
      PROVE  Emptied'
  BY <1>f, Zenon DEF Emptied, Drained, Grouped, Async
<1>p. PastDrain => \A t \in Client : phase[t] # "admitted" /\ phase[t] # "waiting"
  BY Zenon DEF PastDrain, Admission, PastCallDrain, InCommit
<1>1. ASSUME NEW t \in Client,
             \/ BeginTransaction(t) \/ PinSnapshot(t) \/ StartCommit(t) \/ Register(t)
             \/ Recheck(t) \/ EndCommit(t) \/ CheckRefresh(t) \/ DropTransaction(t)
             \/ SubmitTicket(t) \/ FinishCommit(t) \/ WaitHandle(t)
      PROVE  Emptied'
  <2>1. UNCHANGED <<mode, append_commit_requests, worker, requests, closing>>
    BY <1>1, Zenon DEF BeginTransaction, PinSnapshot, StartCommit, Register, Recheck,
      EndCommit, CheckRefresh, DropTransaction, SubmitTicket, FinishCommit, WaitHandle
  <2>2. pc' = pc \/ pc' = "calls"
    BY <1>1, Zenon DEF BeginTransaction, PinSnapshot, StartCommit, Register, Recheck,
      EndCommit, WakeCallDrain, CheckRefresh, DropTransaction, SubmitTicket, FinishCommit,
      WaitHandle
  <2>3. PastDrain' => PastDrain
    BY <2>1, <2>2, Zenon DEF PastDrain
  <2> QED
    BY <1>f, <2>1, <2>3, Zenon
<1>2. ASSUME NEW t \in Client,
             \/ OpenCursor(t) \/ BeginOperation(t) \/ EndOperation(t) \/ CloseCursor(t)
             \/ CloseCallback(t) \/ MarkCommitHandleAdmitted(t) \/ FailTicket(t)
      PROVE  Emptied'
  <2>1. UNCHANGED <<mode, append_commit_requests, worker, requests, closing, pc>>
    BY <1>2, Zenon DEF OpenCursor, BeginOperation, EndOperation, CloseCursor, CloseCallback,
      MarkCommitHandleAdmitted, FailTicket
  <2>2. PastDrain' => PastDrain
    BY <2>1, Zenon DEF PastDrain
  <2> QED
    BY <1>f, <2>1, <2>2, Zenon
<1>3. ASSUME \/ ExecutorTake \/ DropTicket \/ ExecutorExit \/ DropDatabase \/ CloseQueries
             \/ StopExecutor \/ StopWorker \/ PrepareClose \/ FinishClose
             \/ WaitForActiveCommitCalls \/ (\E drop \in BOOLEAN : BeginClose(drop))
      PROVE  Emptied'
  <2>1. UNCHANGED <<mode, append_commit_requests, worker, requests>>
    BY <1>3, Zenon DEF ExecutorTake, DropTicket, ExecutorExit, DropDatabase, CloseQueries,
      StopExecutor, StopWorker, PrepareClose, FinishClose, WaitForActiveCommitCalls,
      BeginClose
  <2>2. PastDrain' => PastDrain
    BY <1>3, Zenon DEF ExecutorTake, DropTicket, ExecutorExit, DropDatabase, CloseQueries,
      StopExecutor, StopWorker, PrepareClose, FinishClose, WaitForActiveCommitCalls,
      BeginClose, PastDrain, Admission
  <2> QED
    BY <1>f, <2>1, <2>2, Zenon
<1>4. CASE DrainAppendCommitPipeline
  <2>1. /\ UNCHANGED <<mode, append_commit_requests, worker, requests>>
        /\ pc' = IF Drained THEN "prepare" ELSE "drain_asleep"
    BY <1>4, Zenon DEF DrainAppendCommitPipeline
  <2>2. PastDrain' => Drained
    BY <2>1, Zenon DEF PastDrain
  <2> QED
    BY <2>1, <2>2, Zenon DEF Emptied, Drained, Grouped, Async
<1>5. ASSUME NEW t \in Client, SubmitSync(t)
      PROVE  Emptied'
  <2>1. phase[t] = "admitted" /\ UNCHANGED <<closing, pc>>
    BY <1>5, Zenon DEF SubmitSync
  <2> QED
    BY <1>p, <2>1, Zenon DEF Emptied, PastDrain
<1>6. ASSUME NEW t \in Client, Handoff(t)
      PROVE  Emptied'
  <2>1. /\ UNCHANGED <<mode, worker, requests, closing, pc>>
        /\ executor = "handoff" /\ t \in handing
        /\ Async(t) \/ UNCHANGED append_commit_requests
    BY <1>6, Zenon DEF Handoff
  <2>2. Async(t) => phase[t] = "waiting"
    BY <2>1, Zenon DEF Submission, Mailed
  <2>3. PastDrain' => PastDrain
    BY <2>1, Zenon DEF PastDrain
  <2>4. CASE Async(t)
    BY <1>p, <2>2, <2>3, <2>4, Zenon DEF Emptied
  <2>5. CASE ~Async(t)
    BY <1>f, <2>1, <2>3, <2>5, Zenon
  <2> QED
    BY <2>4, <2>5, Zenon
<1>7. ASSUME \/ Select \/ BindEpoch \/ WriteEpoch \/ AccountEpoch \/ PublishEpoch
             \/ FinishEpoch \/ WorkerExit
      PROVE  Emptied'
  <2>1. PastDrain' => PastDrain
    BY <1>7, Zenon DEF Select, BindEpoch, WriteEpoch, AccountEpoch, PublishEpoch,
      FinishEpoch, WorkerExit, PastDrain
  <2>2. CASE Select
    BY <2>1, <2>2, Zenon DEF Emptied, Drained, Select
  <2>3. CASE BindEpoch \/ WriteEpoch \/ AccountEpoch
    BY <2>1, <2>3, Zenon DEF Emptied, Drained, BindEpoch, WriteEpoch, AccountEpoch
  <2>4. CASE PublishEpoch \/ FinishEpoch \/ WorkerExit
    BY <2>1, <2>4, Zenon DEF Emptied, Drained, PublishEpoch, FinishEpoch, WorkerExit,
      Grouped, Async
  <2> QED
    BY <1>7, <2>2, <2>3, <2>4, Zenon
<1>8. CASE UNCHANGED vars
  BY <1>8, Zenon DEF vars, Emptied, PastDrain, Drained, Grouped, Async
<1> QED
  BY <1>1, <1>2, <1>3, <1>4, <1>5, <1>6, <1>7, <1>8
  DEF Next, ClientStep, ExecutorStep, WorkerStep, CloseStep

\* The database stays dropped.
LEMMA OwnerStep ==
  ASSUME [Next]_vars
  PROVE  /\ UNCHANGED mode
         /\ owner = "dropped" => owner' = "dropped"
<1> USE DEF flags, closeVars, clientVars, storeVars, executorVars, pipelineVars, handleVars,
            queryVars
<1>1. ASSUME NEW t \in Client,
             \/ BeginTransaction(t) \/ PinSnapshot(t) \/ StartCommit(t) \/ Register(t)
             \/ Recheck(t) \/ EndCommit(t) \/ CheckRefresh(t) \/ DropTransaction(t)
             \/ SubmitSync(t) \/ SubmitTicket(t) \/ FinishCommit(t) \/ WaitHandle(t)
      PROVE  UNCHANGED <<mode, owner>>
  BY <1>1, Zenon DEF BeginTransaction, PinSnapshot, StartCommit, Register, Recheck, EndCommit,
    CheckRefresh, DropTransaction, SubmitSync, SubmitTicket, FinishCommit, WaitHandle
<1>2. ASSUME NEW t \in Client,
             \/ OpenCursor(t) \/ BeginOperation(t) \/ EndOperation(t) \/ CloseCursor(t)
             \/ CloseCallback(t) \/ Handoff(t) \/ MarkCommitHandleAdmitted(t) \/ FailTicket(t)
      PROVE  UNCHANGED <<mode, owner>>
  BY <1>2, Zenon DEF OpenCursor, BeginOperation, EndOperation, CloseCursor, CloseCallback,
    Handoff, MarkCommitHandleAdmitted, FailTicket
<1>3. ASSUME ExecutorTake \/ DropTicket \/ ExecutorExit \/ WorkerStep
      PROVE  UNCHANGED <<mode, owner>>
  BY <1>3, Zenon DEF ExecutorTake, DropTicket, ExecutorExit, WorkerStep, Select, BindEpoch,
    WriteEpoch, AccountEpoch, PublishEpoch, FinishEpoch, WorkerExit
<1>4. ASSUME \/ CloseQueries \/ DrainAppendCommitPipeline \/ WaitForActiveCommitCalls
             \/ StopExecutor \/ StopWorker
      PROVE  UNCHANGED <<mode, owner>>
  BY <1>4, Zenon DEF CloseQueries, DrainAppendCommitPipeline, WaitForActiveCommitCalls,
    StopExecutor, StopWorker
<1>5. ASSUME PrepareClose \/ FinishClose \/ DropDatabase \/ (\E drop \in BOOLEAN : BeginClose(drop))
      PROVE  UNCHANGED mode /\ (owner = "dropped" => owner' = "dropped")
  BY <1>5, Zenon DEF PrepareClose, FinishClose, DropDatabase, BeginClose, Dropped
<1> QED
  BY <1>1, <1>2, <1>3, <1>4, <1>5, Zenon DEF Next, ClientStep, ExecutorStep, CloseStep, vars

\* What a step may do to a handle's answer.
LEMMA WaitingKept ==
  ASSUME Waiting, Sequenced, UNCHANGED <<mode, handles, waited>>,
         owner = "dropped" => owner' = "dropped",
         bound \subseteq bound',
         \A u \in handles :
           /\ phase[u] \in {"finish", "end", "returned", "gone"} =>
                phase'[u] \in {"finish", "end", "returned", "gone"}
           /\ result'[u] = result[u] \/ u \in bound \/ owner = "dropped"
           /\ epoch_result'[u] = epoch_result[u] \/ epoch_result[u] = "none"
  PROVE  Waiting'
<1>1. \A u : Kept(u)' => Kept(u)
  BY Zenon DEF Kept
<1>2. \A u \in handles :
        /\ phase'[u] \in {"finish", "end", "returned", "gone"}
        /\ mode'[u] = "async" => u \in bound'
        /\ owner' # "dropped" => u \in bound' \/ result'[u] = "none"
  BY Zenon DEF Waiting
<1>3. \A u \in handles :
        waited'[u] # "none" /\ Kept(u)' => u \in bound' /\ waited'[u] = epoch_result'[u]
  BY <1>1, Zenon DEF Waiting
<1> QED
  BY <1>2, <1>3, Zenon DEF Waiting

\* A handle keeps its answer.
LEMMA WaitingStep ==
  ASSUME Admission, Leaving, Sequenced, Placement, Submission, Writing, Emptied, Waiting,
         [Next]_vars
  PROVE  Waiting'
<1> USE DEF flags, closeVars, clientVars, storeVars, executorVars, pipelineVars, handleVars,
            queryVars, To
<1>o. UNCHANGED mode /\ (owner = "dropped" => owner' = "dropped")
  BY OwnerStep, Zenon
<1>h. /\ handles \subseteq Client /\ phase \in [Client -> Phase]
      /\ \A u \in handles : phase[u] \in {"finish", "end", "returned", "gone"} /\ Async(u)
  BY Zenon DEF Sequenced, Admission, Waiting, Placement
<1>f. ASSUME UNCHANGED <<handles, waited, phase, result, epoch_result>>, bound \subseteq bound'
      PROVE  Waiting'
  BY <1>f, <1>o, WaitingKept, Zenon
<1>1. ASSUME NEW t \in Client,
             \/ BeginTransaction(t) \/ PinSnapshot(t) \/ StartCommit(t) \/ Register(t)
             \/ Recheck(t) \/ EndCommit(t) \/ CheckRefresh(t) \/ DropTransaction(t)
      PROVE  Waiting'
  <2>1. PICK n : /\ phase' = [phase EXCEPT ![t] = n]
                 /\ phase[t] \in {"finish", "end", "returned", "gone"} =>
                      n \in {"finish", "end", "returned", "gone"}
    BY <1>1, Zenon DEF BeginTransaction, PinSnapshot, StartCommit, Register, Recheck,
      EndCommit, CheckRefresh, DropTransaction
  <2>2. UNCHANGED <<handles, waited, result, epoch_result, bound>>
    BY <1>1, Zenon DEF BeginTransaction, PinSnapshot, StartCommit, Register, Recheck,
      EndCommit, CheckRefresh, DropTransaction
  <2>3. \A u \in handles : phase'[u] \in {"finish", "end", "returned", "gone"}
    BY <1>h, <2>1, Zenon
  <2> QED
    BY <1>o, <2>2, <2>3, WaitingKept, Zenon
<1>2. ASSUME NEW t \in Client, SubmitSync(t) \/ SubmitTicket(t)
      PROVE  Waiting'
  <2>1. PICK n : phase' = [phase EXCEPT ![t] = n]
    BY <1>2, Zenon DEF SubmitSync, SubmitTicket
  <2>2. /\ UNCHANGED <<handles, waited, epoch_result, bound>>
        /\ phase[t] = "admitted" \/ phase[t] = "submit"
        /\ UNCHANGED result \/ result' = [result EXCEPT ![t] = "rejected"]
    BY <1>2, Zenon DEF SubmitSync, SubmitTicket
  <2>3. t \notin handles
    BY <1>h, <2>2, Zenon
  <2>4. \A u \in handles : phase'[u] = phase[u] /\ result'[u] = result[u]
    BY <1>h, <2>1, <2>2, <2>3, Zenon DEF Sequenced
  <2> QED
    BY <1>o, <2>2, <2>4, WaitingKept, Zenon
<1>3. ASSUME NEW t \in Client, FinishCommit(t)
      PROVE  Waiting'
  <2>1. /\ UNCHANGED <<waited, result, epoch_result, bound, owner>>
        /\ phase[t] \in {"waiting", "finish"}
    BY <1>3, Zenon DEF FinishCommit
  <2>2. PICK n \in {"finish", "end"} : phase' = [phase EXCEPT ![t] = n]
    BY <1>3, Zenon DEF FinishCommit
  <2>3. \A u \in handles : phase'[u] \in {"finish", "end", "returned", "gone"}
    BY <1>h, <2>2, Zenon
  <2>4. CASE UNCHANGED handles
    BY <1>o, <2>1, <2>3, <2>4, WaitingKept, Zenon
  <2>5. CASE /\ handles' = handles \cup {t} /\ phase[t] = "waiting" /\ result[t] = "none"
             /\ mode[t] = "async" => t \in durable \/ epoch_result[t] = "committed"
    <3>1. mode[t] = "async" => t \in bound
      BY <2>5, Zenon DEF Placement
    <3>2. \A u \in handles' :
            /\ phase'[u] \in {"finish", "end", "returned", "gone"}
            /\ mode'[u] = "async" => u \in bound'
            /\ owner' # "dropped" => u \in bound' \/ result'[u] = "none"
      BY <1>h, <1>o, <2>1, <2>2, <2>3, <2>5, <3>1, Zenon DEF Waiting
    <3>3. waited[t] = "none"
      BY <1>h, <2>5, Zenon DEF Waiting
    <3> QED
      BY <1>o, <2>1, <2>5, <3>2, <3>3, Zenon DEF Waiting, Kept
  <2> QED
    BY <1>3, <2>4, <2>5, Zenon DEF FinishCommit
<1>4. ASSUME NEW t \in Client, WaitHandle(t)
      PROVE  Waiting'
  <2>1. /\ UNCHANGED <<phase, handles, result, epoch_result, bound, owner>>
        /\ t \in handles /\ waited' = [waited EXCEPT ![t] = WaitAnswer(t)]
        /\ WaitAnswer(t) # "none"
    BY <1>4, Zenon DEF WaitHandle
  <2>2. \A u \in Client : waited'[u] = IF u = t THEN WaitAnswer(t) ELSE waited[u]
    BY <2>1, Zenon DEF Waiting
  <2>3. Kept(t) => t \in bound /\ WaitAnswer(t) = epoch_result[t]
    BY <2>1, Zenon DEF Waiting, Kept, WaitAnswer
  <2>4. \A u \in handles :
          waited'[u] # "none" /\ Kept(u) => u \in bound /\ waited'[u] = epoch_result[u]
    BY <1>h, <2>2, <2>3, Zenon DEF Waiting
  <2>5. /\ DOMAIN waited' = Client /\ \A u : Kept(u)' <=> Kept(u)
        /\ \A u \in Client \ handles : waited'[u] = "none"
    BY <1>o, <2>1, <2>2, Zenon DEF Waiting, Kept
  <2> QED
    BY <1>o, <2>1, <2>4, <2>5, Zenon DEF Waiting
<1>5. ASSUME NEW t \in Client, Handoff(t)
      PROVE  Waiting'
  <2>1. /\ UNCHANGED <<phase, handles, waited, epoch_result, bound>>
        /\ executor = "handoff" /\ t \in handing
    BY <1>5, Zenon DEF Handoff, CompleteCommitHandle
  <2>2. \/ UNCHANGED result
        \/ \E s \in {"rejected", "done"} : result' = [result EXCEPT ![t] = s]
    BY <1>5, Zenon DEF Handoff, CompleteCommitHandle
  <2>3. t \notin handles
    BY <1>h, <2>1, Zenon DEF Submission, Mailed
  <2>4. \A u \in handles : result'[u] = result[u]
    BY <1>h, <2>2, <2>3, Zenon DEF Sequenced
  <2> QED
    BY <1>o, <2>1, <2>4, WaitingKept, Zenon
<1>6. ASSUME NEW t \in Client, FailTicket(t)
      PROVE  Waiting'
  <2>1. /\ UNCHANGED <<phase, handles, waited, epoch_result, bound>>
        /\ pc \in {"fail_pending", "fail_remaining"}
        /\ result' = result \/ result' = [result EXCEPT ![t] = "aborted"]
    BY <1>6, Zenon DEF FailTicket, CompleteCommitHandle
  <2>2. \A u \in Client : u # t => result'[u] = result[u]
    BY <2>1, Zenon DEF Sequenced
  <2>3. ASSUME t \in handles, owner # "dropped"
        PROVE  t \in bound
    <3>1. PastDrain
      BY <2>1, <2>3, Zenon DEF PastDrain, Leaving, Late, Stopping, Joined, Left
    <3>2. Range(append_commit_requests) = {} /\ worker # "bind"
      BY <3>1, EmptyFacts, Zenon DEF Emptied, Drained
    <3>3. Placed(t) \/ result[t] # "none"
      BY <2>3, Zenon DEF Placement
    <3> QED
      BY <2>3, <3>2, <3>3, Zenon DEF Placed, Waiting
  <2> QED
    BY <1>h, <1>o, <2>1, <2>2, <2>3, WaitingKept, Zenon
<1>7. CASE AccountEpoch
  <2>1. UNCHANGED <<phase, handles, waited, epoch_result, bound>>
    BY <1>7, Zenon DEF AccountEpoch
  <2>2. \A u \in handles : result'[u] = result[u]
    BY <1>7, <1>h, Zenon DEF AccountEpoch
  <2> QED
    BY <1>o, <2>1, <2>2, WaitingKept, Zenon
<1>8. CASE PublishEpoch
  <2>1. UNCHANGED <<phase, handles, waited, result, bound>> /\ worker = "publish"
    BY <1>8, Zenon DEF PublishEpoch
  <2>2. \A u \in handles : epoch_result'[u] = epoch_result[u] \/ u \in Grouped
    BY <1>8, <1>h, Zenon DEF PublishEpoch
  <2>3. \A u \in Grouped : epoch_result[u] = "none"
    BY <2>1, Zenon DEF Writing
  <2> QED
    BY <1>o, <2>1, <2>2, <2>3, WaitingKept, Zenon
<1>9. ASSUME NEW t \in Client,
             \/ OpenCursor(t) \/ BeginOperation(t) \/ EndOperation(t) \/ CloseCursor(t)
             \/ CloseCallback(t) \/ MarkCommitHandleAdmitted(t)
      PROVE  Waiting'
  <2>1. UNCHANGED <<handles, waited, phase, result, epoch_result, bound>>
    BY <1>9, Zenon DEF OpenCursor, BeginOperation, EndOperation, CloseCursor, CloseCallback,
      MarkCommitHandleAdmitted
  <2> QED
    BY <1>f, <2>1, Zenon
<1>10. ASSUME \/ ExecutorTake \/ DropTicket \/ ExecutorExit \/ DropDatabase \/ CloseQueries
              \/ StopExecutor \/ StopWorker \/ PrepareClose \/ FinishClose
              \/ DrainAppendCommitPipeline \/ WaitForActiveCommitCalls
              \/ (\E drop \in BOOLEAN : BeginClose(drop))
       PROVE  Waiting'
  <2>1. UNCHANGED <<handles, waited, phase, result, epoch_result, bound>>
    BY <1>10, Zenon DEF ExecutorTake, DropTicket, ExecutorExit, DropDatabase, CloseQueries,
      StopExecutor, StopWorker, PrepareClose, FinishClose, DrainAppendCommitPipeline,
      WaitForActiveCommitCalls, BeginClose
  <2> QED
    BY <1>f, <2>1, Zenon
<1>11. ASSUME Select \/ BindEpoch \/ WriteEpoch \/ FinishEpoch \/ WorkerExit
       PROVE  Waiting'
  <2>1. UNCHANGED <<handles, waited, phase, result, epoch_result>> /\ bound \subseteq bound'
    BY <1>11, Zenon DEF Select, BindEpoch, WriteEpoch, FinishEpoch, WorkerExit
  <2> QED
    BY <1>f, <2>1, Zenon
<1>12. CASE UNCHANGED vars
  BY <1>f, <1>12, Zenon DEF vars
<1> QED
  BY <1>1, <1>2, <1>3, <1>4, <1>5, <1>6, <1>7, <1>8, <1>9, <1>10, <1>11, <1>12
  DEF Next, ClientStep, ExecutorStep, WorkerStep, CloseStep

\* Nothing was submitted to a database that was just opened.
LEMMA AnswersInit == Init => Submission /\ Writing /\ Emptied /\ Waiting
<1> SUFFICES ASSUME Init
             PROVE  Submission /\ Writing /\ Emptied /\ Waiting
  BY Zenon
<1>1. /\ queue = <<>> /\ handing = {} /\ tickets = {} /\ sweep = {} /\ executor = "wait"
      /\ append_commit_requests = <<>> /\ requests = <<>> /\ bound = {} /\ committed = {}
      /\ result = [t \in Client |-> "none"] /\ epoch_result = [t \in Client |-> "none"]
      /\ worker = "wait" /\ pc = "idle" /\ handles = {} /\ waited = [t \in Client |-> "none"]
  BY Zenon DEF Init
<1>2. Piped = {} /\ Sent = {} /\ Mailed = {} /\ Range(append_commit_requests) = {}
  BY <1>1, EmptyFacts, Zenon DEF Piped, Sent, Mailed, Grouped
<1>3. IsInjective(<<>>)
  BY DEF IsInjective
<1>4. Submission
  BY <1>1, <1>2, <1>3, Zenon DEF Submission
<1>5. Writing
  BY <1>1, <1>2, <1>3, Zenon DEF Writing
<1>6. Emptied /\ Waiting
  BY <1>1, Zenon DEF Emptied, PastDrain, Waiting
<1> QED
  BY <1>4, <1>5, <1>6, Zenon

(* What CommitHandle::Wait answered it answers again, and the log agrees:  *)
(* for any number of clients and closes, a handle of CommitAsync always,   *)
(* a pipelined one until the database is dropped (CompleteCommitHandle,    *)
(* BindEpoch and the sweep of AsyncSubmissionExecutor::Stop).              *)
THEOREM AnswersCorrect == Spec => []AnswersHold
<1>1. Init => Submission /\ Writing /\ Emptied /\ Waiting
  BY AnswersInit, Zenon
<1>2. /\ Admission /\ Stages /\ Leaving /\ Sequenced /\ Placement
      /\ Submission /\ Writing /\ Emptied /\ Waiting
      /\ [Next]_vars
      => (Submission /\ Writing /\ Emptied /\ Waiting)'
  BY SubmissionStep, WritingStep, EmptiedStep, WaitingStep, Zenon
<1>3. Sequenced /\ Writing /\ Waiting => AnswersHold
  <2> SUFFICES ASSUME Sequenced, Writing, Waiting, NEW t \in handles, Settled(t), Kept(t)
               PROVE  /\ WaitAnswer(t) = waited[t]
                      /\ waited[t] = "committed" => t \in committed
                      /\ waited[t] = "aborted" => t \notin committed
    BY Zenon DEF AnswersHold, Kept
  <2>1. t \in bound /\ waited[t] = epoch_result[t] /\ t \in Client
    BY Zenon DEF Waiting, Settled, Sequenced
  <2> QED
    BY <2>1, Zenon DEF Writing, WaitAnswer
<1> QED
  BY <1>1, <1>2, <1>3, Sourced, PTL DEF Spec
=============================================================================
