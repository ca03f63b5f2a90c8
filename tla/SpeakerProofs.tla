--------------------------- MODULE SpeakerProofs ---------------------------
(***************************************************************************)
(* What holds of the speaker for every set of nodes, upstreams and         *)
(* prefixes, whatever best paths GoBGP chooses, whatever the kernel        *)
(* refuses, and across restarts: type correctness, agreement of the kernel *)
(* with the best paths, and the two promises of the route policies.        *)
(***************************************************************************)
EXTENDS Speaker, TLAPS, SequenceTheorems

-----------------------------------------------------------------------------
\* The last element of a queue that was appended to, and the only element of
\* a queue whose tail is empty.
LEMMA LastOfAppend ==
    ASSUME NEW S, NEW q \in Seq(S), NEW e \in S
    PROVE  Append(q, e) # <<>> /\ Append(q, e)[Len(Append(q, e))] = e
BY AppendProperties

LEMMA OnlyElement ==
    ASSUME NEW S, NEW q \in Seq(S), q # <<>>, Tail(q) = <<>>
    PROVE  Len(q) = 1 /\ Head(q) = q[Len(q)]
<1>1. Len(q) # 0 /\ Len(q) \in Nat
  BY EmptySeq
<1>2. Len(Tail(q)) = Len(q) - 1
  BY <1>1, HeadTailProperties
<1>3. Len(Tail(q)) = 0
  BY EmptySeq
<1> QED
  BY <1>1, <1>2, <1>3

-----------------------------------------------------------------------------
(***************************************************************************)
(* Type correctness.                                                       *)
(***************************************************************************)

\* A switch of best paths leaves tables of the same shape.
LEMMA SwitchBestType ==
    ASSUME SpeakerTypeOK, NEW P \in SUBSET Prefixes, NEW b \in [P -> Origins],
           SwitchBest(P, b)
    PROVE  /\ best' \in [Prefixes -> Origins]
           /\ pending' \in [Prefixes -> Seq(Origins)]
           /\ sent' \in [Upstreams -> [Prefixes -> Origins]]
<1> USE DEF SpeakerTypeOK
<1> DEFINE changed == {p \in P : b[p] # best[p]}
<1>1. \A p \in changed : p \in Prefixes /\ b[p] \in Origins
  OBVIOUS
<1>2. best' \in [Prefixes -> Origins]
  BY <1>1 DEF SwitchBest
<1>3. pending' \in [Prefixes -> Seq(Origins)]
  <2>1. pending' = [p \in Prefixes |-> IF p \in changed THEN Append(pending[p], b[p])
                                                         ELSE pending[p]]
    BY DEF SwitchBest
  <2>2. \A p \in changed : Append(pending[p], b[p]) \in Seq(Origins)
    BY <1>1
  <2> QED
    BY <2>1, <2>2
<1>4. sent' \in [Upstreams -> [Prefixes -> Origins]]
  <2>1. None \in Origins
    BY DEF Origins
  <2>2. NothingSent \in [Prefixes -> Origins]
    BY <2>1 DEF NothingSent
  <2>3. \A u \in Upstreams, p \in changed : Export(u, p, b[p]) \in Origins
    BY <1>1, <2>1 DEF Export
  <2>4. sent' = [u \in Upstreams |->
                   IF u \in sessions
                     THEN [p \in Prefixes |-> IF p \in changed THEN Export(u, p, b[p])
                                                               ELSE sent[u][p]]
                     ELSE NothingSent]
    BY DEF SwitchBest
  <2> QED
    BY <2>2, <2>3, <2>4
<1> QED
  BY <1>2, <1>3, <1>4

\* So does an update of a neighbour's paths.
LEMMA UpdatePathsType ==
    ASSUME SpeakerTypeOK, NEW q \in Peers, NEW new \in SUBSET Prefixes,
           UpdatePaths(q, new)
    PROVE  /\ accepted' \in [Peers -> SUBSET Prefixes]
           /\ best' \in [Prefixes -> Origins]
           /\ pending' \in [Prefixes -> Seq(Origins)]
           /\ sent' \in [Upstreams -> [Prefixes -> Origins]]
<1> DEFINE affected == (accepted[q] \ new) \cup (new \ accepted[q])
<1>1. affected \in SUBSET Prefixes
  BY DEF SpeakerTypeOK
<1>2. PICK b \in [affected -> Origins] : SwitchBest(affected, b)
  BY DEF UpdatePaths
<1>3. accepted' \in [Peers -> SUBSET Prefixes]
  BY DEF UpdatePaths, SpeakerTypeOK
<1> HIDE DEF affected
<1> QED
  BY <1>1, <1>2, <1>3, SwitchBestType

LEMMA SpeakerInitType == Init => SpeakerTypeOK
<1> SUFFICES ASSUME Init PROVE SpeakerTypeOK
  OBVIOUS
<1>1. <<>> \in Seq(Origins)
  OBVIOUS
<1> QED
  BY <1>1 DEF Init, SpeakerTypeOK, Phases, NothingSent, Origins

\* The watcher's handling of one event.
LEMMA HandleBestPathType ==
    ASSUME SpeakerTypeOK, NEW p \in Prefixes, HandleBestPath(p)
    PROVE  SpeakerTypeOK'
<1> USE DEF SpeakerTypeOK
<1>1. Dequeue(p)
  BY DEF HandleBestPath, WithdrawFromKernel, InstallInKernel, SkipTransit
<1>2. Tail(pending[p]) \in Seq(Origins)
  BY <1>1 DEF Dequeue
<1>3. pending' \in [Prefixes -> Seq(Origins)]
  BY <1>1, <1>2 DEF Dequeue
<1>4. /\ fib' \in [Prefixes -> InWGRange \cup {None}]
      /\ unsynced' \in SUBSET Prefixes
  <2>1. ASSUME NEW gw \in InWGRange \cup {None}, KernelRoute(p, gw)
        PROVE  /\ fib' \in [Prefixes -> InWGRange \cup {None}]
               /\ unsynced' \in SUBSET Prefixes
    BY <2>1 DEF KernelRoute
  <2>2. CASE WithdrawFromKernel(p)
    BY <2>1, <2>2 DEF WithdrawFromKernel
  <2>3. CASE InstallInKernel(p)
    BY <2>1, <2>3 DEF InstallInKernel
  <2>4. CASE SkipTransit(p)
    BY <2>4 DEF SkipTransit, kernVars
  <2> QED
    BY <2>2, <2>3, <2>4 DEF HandleBestPath
<1> QED
  BY <1>1, <1>3, <1>4 DEF Dequeue, startVars, confVars, peerVars

\* Every step keeps the types.
LEMMA SpeakerStepType ==
    ASSUME SpeakerTypeOK, [Next]_vars
    PROVE  SpeakerTypeOK'
<1> USE DEF startVars, confVars, peerVars, ribVars, kernVars
<1>4. CASE RestartCore \/ AnnounceAggregateFails
  <2>1. /\ [p \in Prefixes |-> <<>>] \in [Prefixes -> Seq(Origins)]
        /\ [p \in Prefixes |-> None] \in [Prefixes -> Origins]
        /\ [u \in Upstreams |-> NothingSent] \in [Upstreams -> [Prefixes -> Origins]]
    BY DEF NothingSent, Origins
  <2>2. phase' \in Phases /\ fib' = fib /\ unsynced' \in SUBSET Prefixes
    BY <1>4 DEF RestartCore, AnnounceAggregateFails, LoseMemory, SpeakerTypeOK, Phases
  <2>3. /\ todo' = Upstreams /\ adding' = None /\ started' = FALSE /\ importFilter' = FALSE
        /\ exportFilter' = {} /\ neighbours' = {} /\ sessions' = {}
        /\ accepted' = [q \in Peers |-> {}] /\ best' = [p \in Prefixes |-> None]
        /\ sent' = [u \in Upstreams |-> NothingSent] /\ pending' = [p \in Prefixes |-> <<>>]
    BY <1>4 DEF RestartCore, AnnounceAggregateFails, LoseMemory
  <2> QED
    BY <2>1, <2>2, <2>3 DEF SpeakerTypeOK, Phases
<1>1. CASE StartUpStep
  <2>1. CASE StartBGP
    BY <2>1 DEF StartBGP, SpeakerTypeOK
  <2>2. CASE ApplyPolicies
    BY <2>2 DEF ApplyPolicies, SpeakerTypeOK, Phases
  <2>3. ASSUME NEW u \in Upstreams, AddUpstream(u)
        PROVE  SpeakerTypeOK'
    BY <2>3 DEF AddUpstream, SpeakerTypeOK, Peers
  <2>4. ASSUME NEW u \in Upstreams, AssignExportPolicy(u)
        PROVE  SpeakerTypeOK'
    BY <2>4 DEF AssignExportPolicy, SpeakerTypeOK
  <2>5. CASE AnnounceAggregate
    <3>1. {Aggregate} \in SUBSET Prefixes
      BY DEF Prefixes
    <3>2. [p \in {Aggregate} |-> Self] \in [{Aggregate} -> Origins]
      BY DEF Origins
    <3>3. /\ best' \in [Prefixes -> Origins]
          /\ pending' \in [Prefixes -> Seq(Origins)]
          /\ sent' \in [Upstreams -> [Prefixes -> Origins]]
      BY <2>5, <3>1, <3>2, SwitchBestType DEF AnnounceAggregate, SpeakerTypeOK
    <3> QED
      BY <2>5, <3>3 DEF AnnounceAggregate, SpeakerTypeOK, Phases
  <2> QED
    BY <1>1, <1>4, <2>1, <2>2, <2>3, <2>4, <2>5 DEF StartUpStep
<1>2. CASE PeerStep
  <2>1. ASSUME NEW q \in Peers, NEW new \in SUBSET Prefixes, UpdatePaths(q, new),
               neighbours' \in SUBSET Peers, sessions' \in SUBSET neighbours',
               UNCHANGED <<startVars, confVars, kernVars>>
        PROVE  SpeakerTypeOK'
    BY <2>1, UpdatePathsType DEF SpeakerTypeOK
  <2>2. ASSUME NEW n \in NodePeers, AddPeer(n)
        PROVE  SpeakerTypeOK'
    BY <2>2 DEF AddPeer, SpeakerTypeOK, Peers
  <2>3. ASSUME NEW n \in NodePeers, RemovePeer(n)
        PROVE  SpeakerTypeOK'
    <3>1. n \in Peers
      BY DEF Peers
    <3>2. neighbours' \in SUBSET Peers /\ sessions' \in SUBSET neighbours'
      BY <2>3 DEF RemovePeer, SpeakerTypeOK
    <3> QED
      BY <2>1, <2>3, <3>1, <3>2 DEF RemovePeer
  <2>4. ASSUME NEW q \in Peers, SessionUp(q)
        PROVE  SpeakerTypeOK'
    <3>1. \A u \in Upstreams, p \in Prefixes : Export(u, p, best[p]) \in Origins
      BY DEF Export, SpeakerTypeOK, Origins
    <3>2. sent' \in [Upstreams -> [Prefixes -> Origins]]
      BY <2>4, <3>1 DEF SessionUp, SpeakerTypeOK
    <3> QED
      BY <2>4, <3>2 DEF SessionUp, SpeakerTypeOK
  <2>5. ASSUME NEW q \in Peers, SessionDown(q)
        PROVE  SpeakerTypeOK'
    <3>1. NothingSent \in [Prefixes -> Origins]
      BY DEF NothingSent, Origins
    <3> QED
      BY <2>5, <3>1 DEF SessionDown, SpeakerTypeOK
  <2>6. ASSUME NEW q \in Peers, FlushPaths(q)
        PROVE  SpeakerTypeOK'
    BY <2>1, <2>6 DEF FlushPaths, SpeakerTypeOK
  <2>7. ASSUME NEW q \in Peers, NEW p \in Prefixes, Announce(q, p)
        PROVE  SpeakerTypeOK'
    <3>1. accepted[q] \cup {p} \in SUBSET Prefixes
      BY DEF SpeakerTypeOK
    <3> QED
      BY <2>1, <2>7, <3>1 DEF Announce, SpeakerTypeOK
  <2>8. ASSUME NEW q \in Peers, NEW p \in Prefixes, Withdraw(q, p)
        PROVE  SpeakerTypeOK'
    <3>1. accepted[q] \ {p} \in SUBSET Prefixes
      BY DEF SpeakerTypeOK
    <3> QED
      BY <2>1, <2>8, <3>1 DEF Withdraw, SpeakerTypeOK
  <2> QED
    BY <1>2, <2>2, <2>3, <2>4, <2>5, <2>6, <2>7, <2>8 DEF PeerStep
<1>3. CASE \E p \in Prefixes : HandleBestPath(p)
  BY <1>3, HandleBestPathType
<1>5. CASE UNCHANGED vars
  BY <1>5 DEF vars, SpeakerTypeOK
<1> QED
  BY <1>1, <1>2, <1>3, <1>4, <1>5 DEF Next

\* The speaker's state has its types in every reachable state.
THEOREM SpeakerTypeCorrect == Spec => []SpeakerTypeOK
BY SpeakerInitType, SpeakerStepType, PTL DEF Spec

-----------------------------------------------------------------------------
(***************************************************************************)
(* The kernel follows the best paths.                                      *)
(***************************************************************************)

\* The inductive invariant.  The newest event the watcher has not seen is the
\* best path itself; once there is none, the kernel agrees.
Agrees(p) ==
    p \notin unsynced /\ best[p] \in InWGRange \cup {None} => fib[p] = best[p]

KernelCatchesUp ==
    \A p \in Prefixes :
        /\ pending[p] # <<>> => pending[p][Len(pending[p])] = best[p]
        /\ pending[p] = <<>> => Agrees(p)

SpeakerInv == SpeakerTypeOK /\ KernelCatchesUp

\* A switch of best paths queues what it switches to.
LEMMA SwitchBestCatchesUp ==
    ASSUME SpeakerInv, NEW P \in SUBSET Prefixes, NEW b \in [P -> Origins],
           SwitchBest(P, b), UNCHANGED kernVars
    PROVE  KernelCatchesUp'
<1> USE DEF SpeakerInv, SpeakerTypeOK, kernVars
<1> SUFFICES ASSUME NEW p \in Prefixes
             PROVE  /\ pending'[p] # <<>> => pending'[p][Len(pending'[p])] = best'[p]
                    /\ pending'[p] = <<>> => Agrees(p)'
  BY DEF KernelCatchesUp
<1>1. CASE p \in P /\ b[p] # best[p]
  <2>1. best'[p] = b[p] /\ pending'[p] = Append(pending[p], b[p])
    BY <1>1 DEF SwitchBest
  <2>2. b[p] \in Origins /\ pending[p] \in Seq(Origins)
    BY <1>1
  <2>3. /\ Append(pending[p], b[p]) # <<>>
        /\ Append(pending[p], b[p])[Len(Append(pending[p], b[p]))] = b[p]
    BY <2>2, LastOfAppend
  <2> QED
    BY <2>1, <2>3
<1>2. CASE ~ (p \in P /\ b[p] # best[p])
  <2>1. best'[p] = best[p] /\ pending'[p] = pending[p]
    BY <1>2 DEF SwitchBest
  <2> QED
    BY <2>1 DEF KernelCatchesUp, Agrees
<1> QED
  BY <1>1, <1>2

LEMMA UpdatePathsCatchesUp ==
    ASSUME SpeakerInv, NEW q \in Peers, NEW new \in SUBSET Prefixes,
           UpdatePaths(q, new), UNCHANGED kernVars
    PROVE  KernelCatchesUp'
<1> DEFINE affected == (accepted[q] \ new) \cup (new \ accepted[q])
<1>1. affected \in SUBSET Prefixes
  BY DEF SpeakerInv, SpeakerTypeOK
<1>2. PICK b \in [affected -> Origins] : SwitchBest(affected, b)
  BY DEF UpdatePaths
<1> HIDE DEF affected
<1> QED
  BY <1>1, <1>2, SwitchBestCatchesUp

\* Handling the newest event brings the kernel to the best path.
LEMMA HandleBestPathCatchesUp ==
    ASSUME SpeakerInv, NEW p \in Prefixes, HandleBestPath(p)
    PROVE  KernelCatchesUp'
<1> USE DEF SpeakerInv, SpeakerTypeOK
<1>0. Dequeue(p)
  BY DEF HandleBestPath, WithdrawFromKernel, InstallInKernel, SkipTransit
<1>1. /\ pending[p] \in Seq(Origins)
      /\ pending[p] # <<>>
      /\ pending' = [pending EXCEPT ![p] = Tail(pending[p])]
      /\ best' = best
  BY <1>0 DEF Dequeue
<1>2. ASSUME NEW r \in Prefixes, r # p
      PROVE  /\ pending'[r] = pending[r]
             /\ fib'[r] = fib[r]
             /\ r \in unsynced' <=> r \in unsynced
  BY <1>1, <1>2 DEF HandleBestPath, WithdrawFromKernel, InstallInKernel, SkipTransit,
                    KernelRoute, kernVars
<1>3. pending'[p] # <<>> => pending'[p][Len(pending'[p])] = best'[p]
  <2>1. pending[p][Len(pending[p])] = best[p]
    BY <1>1 DEF KernelCatchesUp
  <2>2. pending'[p] = Tail(pending[p])
    BY <1>1
  <2>3. Tail(pending[p]) # <<>> =>
           Tail(pending[p])[Len(Tail(pending[p]))] = pending[p][Len(pending[p])]
    BY <1>1
  <2> QED
    BY <1>1, <2>1, <2>2, <2>3
<1>4. pending'[p] = <<>> => Agrees(p)'
  <2> SUFFICES ASSUME pending'[p] = <<>> PROVE Agrees(p)'
    OBVIOUS
  <2>1. Tail(pending[p]) = <<>>
    BY <1>1
  <2>2. Head(pending[p]) = best[p]
    BY <1>1, <2>1, OnlyElement DEF KernelCatchesUp
  <2>3. CASE WithdrawFromKernel(p)
    BY <1>1, <2>2, <2>3 DEF WithdrawFromKernel, KernelRoute, Agrees
  <2>4. CASE InstallInKernel(p)
    BY <1>1, <2>2, <2>4 DEF InstallInKernel, KernelRoute, Agrees
  <2>5. CASE SkipTransit(p)
    <3>1. best[p] \in Upstreams
      BY <2>2, <2>5 DEF SkipTransit
    <3>2. best[p] \notin InWGRange \cup {None}
      BY <3>1, PeersAreApart DEF InWGRange, Peers
    <3> QED
      BY <1>1, <3>2 DEF Agrees
  <2> QED
    BY <2>3, <2>4, <2>5 DEF HandleBestPath
<1> QED
  BY <1>1, <1>2, <1>3, <1>4 DEF KernelCatchesUp, Agrees

\* Every step keeps the invariant.
LEMMA SpeakerStepInv ==
    ASSUME SpeakerInv, [Next]_vars
    PROVE  SpeakerInv'
<1>0. SpeakerTypeOK'
  BY SpeakerStepType DEF SpeakerInv
<1>1. CASE UNCHANGED <<best, pending, fib, unsynced>>
  BY <1>0, <1>1 DEF SpeakerInv, KernelCatchesUp, Agrees
<1>2. CASE AnnounceAggregate
  <2>1. {Aggregate} \in SUBSET Prefixes /\ [p \in {Aggregate} |-> Self] \in [{Aggregate} -> Origins]
    BY DEF Prefixes, Origins
  <2>2. KernelCatchesUp'
    <3>1. CASE SwitchBest({Aggregate}, [p \in {Aggregate} |-> Self])
      BY <1>2, <2>1, <3>1, SwitchBestCatchesUp DEF AnnounceAggregate
    <3>2. CASE UNCHANGED <<best, pending>>
      BY <1>2, <3>2 DEF AnnounceAggregate, kernVars, SpeakerInv, KernelCatchesUp, Agrees
    <3> QED
      BY <1>2, <3>1, <3>2 DEF AnnounceAggregate
  <2> QED
    BY <1>0, <2>2 DEF SpeakerInv
<1>3. ASSUME NEW q \in Peers, NEW new \in SUBSET Prefixes, UpdatePaths(q, new),
             UNCHANGED kernVars
      PROVE  SpeakerInv'
  BY <1>0, <1>3, UpdatePathsCatchesUp DEF SpeakerInv
<1>4. CASE \E n \in NodePeers : RemovePeer(n)
  BY <1>3, <1>4 DEF RemovePeer, Peers
<1>5. CASE \E q \in Peers : FlushPaths(q)
  BY <1>3, <1>5 DEF FlushPaths
<1>6. ASSUME NEW q \in Peers, NEW p \in Prefixes, Announce(q, p) \/ Withdraw(q, p)
      PROVE  SpeakerInv'
  <2>1. accepted[q] \cup {p} \in SUBSET Prefixes /\ accepted[q] \ {p} \in SUBSET Prefixes
    BY DEF SpeakerInv, SpeakerTypeOK
  <2> QED
    BY <1>3, <1>6, <2>1 DEF Announce, Withdraw
<1>7. CASE \E p \in Prefixes : HandleBestPath(p)
  BY <1>0, <1>7, HandleBestPathCatchesUp DEF SpeakerInv
<1>8. CASE RestartCore \/ AnnounceAggregateFails
  <2>1. KernelCatchesUp'
    BY <1>8 DEF RestartCore, AnnounceAggregateFails, LoseMemory, KernelCatchesUp, Agrees
  <2> QED
    BY <1>0, <2>1 DEF SpeakerInv
<1> QED
  BY <1>1, <1>2, <1>4, <1>5, <1>6, <1>7, <1>8
     DEF Next, StartUpStep, PeerStep, vars, StartBGP, ApplyPolicies, AddUpstream,
         AssignExportPolicy, AddPeer, SessionUp, SessionDown, ribVars, kernVars

\* Once the watcher has seen every change of a prefix, its kernel route is
\* the best path when that leads into the tunnel range, and gone when there
\* is no path (speaker.go:291-346).
THEOREM KernelFollowsBestPaths == Spec => []FIBFollowsRIB
<1>1. Init => SpeakerInv
  <2> SUFFICES ASSUME Init PROVE SpeakerInv
    OBVIOUS
  <2> QED
    BY SpeakerInitType DEF Init, SpeakerInv, KernelCatchesUp, Agrees
<1>2. SpeakerInv => FIBFollowsRIB
  BY DEF SpeakerInv, KernelCatchesUp, Agrees, FIBFollowsRIB
<1> QED
  BY <1>1, <1>2, SpeakerStepInv, PTL DEF Spec

-----------------------------------------------------------------------------
(***************************************************************************)
(* The route policies.                                                     *)
(***************************************************************************)

\* The start-up order: the import policy precedes every neighbour, and the
\* nodes come last.
StartUpOrder ==
    /\ phase \in {"upstreams", "serving"} => importFilter
    /\ neighbours # {} => phase \in {"upstreams", "serving"}
    /\ neighbours \cap NodePeers # {} => phase = "serving"

\* What the import policy lets in, and from whom.
OnlyPlannedPaths ==
    /\ \A q \in Peers : accepted[q] \subseteq SubPrefixes
    /\ \A q \in Peers : accepted[q] # {} => q \in neighbours
    /\ \A p \in Prefixes : best[p] \in NodePeers => p \in SubPrefixes /\ phase = "serving"
    /\ \A p \in Foreign : best[p] = None /\ pending[p] = <<>> /\ fib[p] = None

PolicyInv == SpeakerTypeOK /\ StartUpOrder /\ OnlyPlannedPaths

\* A neighbour's update, filtered by the import policy, brings in planned
\* paths only.
LEMMA UpdatePathsArePlanned ==
    ASSUME PolicyInv, NEW q \in Peers, NEW new \in SUBSET SubPrefixes,
           UpdatePaths(q, new), new # {} => q \in neighbours \cap neighbours',
           neighbours \ {q} \subseteq neighbours',
           UNCHANGED <<phase, fib>>
    PROVE  OnlyPlannedPaths'
<1> USE DEF PolicyInv, SpeakerTypeOK
<1> DEFINE affected == (accepted[q] \ new) \cup (new \ accepted[q])
<1>1. affected \in SUBSET SubPrefixes /\ affected \in SUBSET Prefixes
  BY DEF OnlyPlannedPaths, Prefixes
<1>2. accepted' = [accepted EXCEPT ![q] = new]
  BY DEF UpdatePaths
<1>3. PICK b \in [affected -> Origins] :
        /\ \A p \in affected : MayBeBest(b[p], accepted', OwnPaths(p), p)
        /\ SwitchBest(affected, b)
  <2>1. PICK b \in [affected -> Origins] :
          /\ \A p \in affected :
                MayBeBest(b[p], [accepted EXCEPT ![q] = new], OwnPaths(p), p)
          /\ SwitchBest(affected, b)
    BY Zenon DEF UpdatePaths
  <2> QED
    BY <1>2, <2>1, Zenon
<1> HIDE DEF affected
<1>4. \A r \in Peers : accepted'[r] \subseteq SubPrefixes
  BY <1>2 DEF OnlyPlannedPaths
<1>5. \A r \in Peers : accepted'[r] # {} => r \in neighbours'
  BY <1>2 DEF OnlyPlannedPaths
<1>6. ASSUME NEW p \in Prefixes, best'[p] \in NodePeers
      PROVE  p \in SubPrefixes /\ phase' = "serving"
  <2>1. CASE p \in affected /\ b[p] # best[p]
    <3>1. best'[p] = b[p]
      BY <1>3, <2>1 DEF SwitchBest
    <3>2. b[p] \in Choices(accepted', OwnPaths(p), p)
      BY <1>3, <2>1 DEF MayBeBest
    <3>3. b[p] \in Peers /\ b[p] # Self /\ b[p] # None
      BY <1>6, <3>1, PeersAreApart DEF Peers
    <3>4. p \in accepted'[b[p]]
      BY <3>2, <3>3 DEF Choices, OwnPaths
    <3>5. b[p] \in neighbours
      BY <1>2, <3>3, <3>4 DEF OnlyPlannedPaths
    <3>6. phase = "serving"
      BY <1>6, <3>1, <3>5 DEF StartUpOrder
    <3> QED
      BY <1>1, <2>1, <3>6
  <2>2. CASE ~ (p \in affected /\ b[p] # best[p])
    <3>1. best'[p] = best[p]
      BY <1>3, <2>2 DEF SwitchBest
    <3> QED
      BY <1>6, <3>1 DEF OnlyPlannedPaths
  <2> QED
    BY <2>1, <2>2
<1>7. \A p \in Foreign : best'[p] = None /\ pending'[p] = <<>> /\ fib'[p] = None
  <2>1. \A p \in Foreign : p \in Prefixes /\ p \notin affected
    BY <1>1, PrefixesAreApart DEF Prefixes
  <2> QED
    BY <1>3, <2>1 DEF SwitchBest, OnlyPlannedPaths
<1> QED
  BY <1>4, <1>5, <1>6, <1>7 DEF OnlyPlannedPaths

\* Every step keeps the order and the filter.
LEMMA PolicyStep ==
    ASSUME PolicyInv, [Next]_vars
    PROVE  PolicyInv'
<1> USE DEF startVars, confVars, peerVars, ribVars, kernVars
<1>0. SpeakerTypeOK'
  BY SpeakerStepType DEF PolicyInv
<1>1. CASE StartBGP \/ ApplyPolicies \/ UNCHANGED vars
  BY <1>0, <1>1 DEF StartBGP, ApplyPolicies, vars, PolicyInv, StartUpOrder,
                    OnlyPlannedPaths, SpeakerTypeOK
<1>2. ASSUME NEW u \in Upstreams, AddUpstream(u) \/ AssignExportPolicy(u)
      PROVE  PolicyInv'
  <2>1. u \notin NodePeers
    BY PeersAreApart
  <2> QED
    BY <1>0, <1>2, <2>1 DEF AddUpstream, AssignExportPolicy, PolicyInv, StartUpOrder,
                            OnlyPlannedPaths
<1>3. CASE AnnounceAggregate
  <2>1. \A p \in Prefixes : p # Aggregate => best'[p] = best[p] /\ pending'[p] = pending[p]
    BY <1>3 DEF AnnounceAggregate, SwitchBest
  <2>2. best'[Aggregate] \in {Self, best[Aggregate]}
    BY <1>3 DEF AnnounceAggregate, SwitchBest, Prefixes
  <2>3. Aggregate \notin Foreign /\ Foreign \subseteq Prefixes /\ Self \notin NodePeers
    BY PrefixesAreApart, PeersAreApart DEF Prefixes, Peers
  <2>4. OnlyPlannedPaths'
    BY <1>3, <2>1, <2>2, <2>3 DEF AnnounceAggregate, PolicyInv, OnlyPlannedPaths
  <2>5. StartUpOrder'
    BY <1>3 DEF AnnounceAggregate, PolicyInv, StartUpOrder
  <2> QED
    BY <1>0, <2>4, <2>5 DEF PolicyInv
<1>4. ASSUME NEW n \in NodePeers, AddPeer(n)
      PROVE  PolicyInv'
  BY <1>0, <1>4 DEF AddPeer, PolicyInv, StartUpOrder, OnlyPlannedPaths
<1>5. ASSUME NEW n \in NodePeers, RemovePeer(n)
      PROVE  PolicyInv'
  <2>1. n \in Peers
    BY DEF Peers
  <2>2. OnlyPlannedPaths'
    BY <1>5, <2>1, UpdatePathsArePlanned DEF RemovePeer
  <2>3. StartUpOrder'
    BY <1>5 DEF RemovePeer, PolicyInv, StartUpOrder
  <2> QED
    BY <1>0, <2>2, <2>3 DEF PolicyInv
<1>6. ASSUME NEW q \in Peers, SessionUp(q) \/ SessionDown(q)
      PROVE  PolicyInv'
  BY <1>0, <1>6 DEF SessionUp, SessionDown, PolicyInv, StartUpOrder, OnlyPlannedPaths
<1>7. ASSUME NEW q \in Peers, NEW new \in SUBSET SubPrefixes, UpdatePaths(q, new),
             q \in neighbours, UNCHANGED <<startVars, confVars, peerVars, kernVars>>
      PROVE  PolicyInv'
  <2>1. OnlyPlannedPaths'
    BY <1>7, UpdatePathsArePlanned
  <2>2. StartUpOrder'
    BY <1>7 DEF PolicyInv, StartUpOrder
  <2> QED
    BY <1>0, <2>1, <2>2 DEF PolicyInv
<1>8. ASSUME NEW q \in Peers, FlushPaths(q)
      PROVE  PolicyInv'
  BY <1>7, <1>8 DEF FlushPaths
<1>9. ASSUME NEW q \in Peers, NEW p \in Prefixes, Announce(q, p) \/ Withdraw(q, p)
      PROVE  PolicyInv'
  <2>1. q \in neighbours /\ importFilter
    BY <1>9 DEF Announce, Withdraw, PolicyInv, SpeakerTypeOK, StartUpOrder
  <2>2. accepted[q] \subseteq SubPrefixes
    BY DEF PolicyInv, OnlyPlannedPaths
  <2>3. CASE Announce(q, p)
    BY <1>7, <2>1, <2>2, <2>3 DEF Announce
  <2>4. CASE Withdraw(q, p)
    BY <1>7, <2>1, <2>2, <2>4 DEF Withdraw
  <2> QED
    BY <1>9, <2>3, <2>4
<1>10. ASSUME NEW p \in Prefixes, HandleBestPath(p)
       PROVE  PolicyInv'
  <2>1. p \notin Foreign
    BY <1>10 DEF HandleBestPath, WithdrawFromKernel, InstallInKernel, SkipTransit, Dequeue,
                 PolicyInv, OnlyPlannedPaths
  <2>2. \A r \in Prefixes : r # p => pending'[r] = pending[r] /\ fib'[r] = fib[r]
    BY <1>10 DEF HandleBestPath, WithdrawFromKernel, InstallInKernel, SkipTransit, Dequeue,
                 KernelRoute, PolicyInv, SpeakerTypeOK
  <2>3. Foreign \subseteq Prefixes
    BY DEF Prefixes
  <2>4. UNCHANGED <<startVars, confVars, peerVars, accepted, best>>
    BY <1>10 DEF HandleBestPath, WithdrawFromKernel, InstallInKernel, SkipTransit, Dequeue
  <2> QED
    BY <1>0, <2>1, <2>2, <2>3, <2>4 DEF PolicyInv, StartUpOrder, OnlyPlannedPaths
<1>11. CASE RestartCore \/ AnnounceAggregateFails
  <2>1. None \notin NodePeers /\ Foreign \subseteq Prefixes
    BY PeersAreApart DEF Peers, Prefixes
  <2> QED
    BY <1>0, <1>11, <2>1
       DEF RestartCore, AnnounceAggregateFails, LoseMemory, PolicyInv, StartUpOrder,
           OnlyPlannedPaths
<1> QED
  BY <1>1, <1>2, <1>3, <1>4, <1>5, <1>6, <1>8, <1>9, <1>10, <1>11
     DEF Next, StartUpStep, PeerStep

LEMMA PolicyInit == Init => PolicyInv
<1>1. None \notin NodePeers /\ Foreign \subseteq Prefixes
  BY PeersAreApart DEF Peers, Prefixes
<1> QED
  BY <1>1, SpeakerInitType DEF Init, PolicyInv, StartUpOrder, OnlyPlannedPaths

\* The kernel never gets a route for a prefix outside the plan: no neighbour
\* precedes the import policy (main.go:140-150, policy.go:163-171).
THEOREM KernelGetsPlannedRoutes == Spec => []OnlyPlannedRoutes
<1>1. PolicyInv => OnlyPlannedRoutes
  BY DEF PolicyInv, OnlyPlannedPaths, OnlyPlannedRoutes
<1> QED
  BY <1>1, PolicyInit, PolicyStep, PTL DEF Spec

-----------------------------------------------------------------------------
(***************************************************************************)
(* Node routes and the upstreams, when no start-up call fails.             *)
(***************************************************************************)

\* An upstream that is a neighbour has its export policy or is still to get
\* it, and none is left when the nodes may come.
UpstreamsFiltered ==
    /\ \A u \in Upstreams \cap neighbours : u \in exportFilter \cup todo
    /\ phase = "serving" => todo = {}

InsideInv == PolicyInv /\ UpstreamsFiltered /\ NodeRoutesStayInside

\* A node's path is not exported to an upstream with a session.
LEMMA ExportStopsNodeRoutes ==
    ASSUME InsideInv, NEW u \in Upstreams, u \in sessions,
           NEW p \in Prefixes, NEW b \in Origins,
           b \in NodePeers => p \in SubPrefixes /\ phase = "serving"
    PROVE  Export(u, p, b) \notin NodePeers
<1>1. None \notin NodePeers /\ Aggregate \notin SubPrefixes
  BY PeersAreApart, PrefixesAreApart DEF Peers
<1>2. CASE b \in NodePeers
  <2>1. u \in neighbours /\ p # Aggregate /\ todo = {}
    BY <1>1, <1>2 DEF InsideInv, PolicyInv, SpeakerTypeOK, UpstreamsFiltered
  <2>2. u \in exportFilter
    BY <2>1 DEF InsideInv, UpstreamsFiltered
  <2> QED
    BY <1>1, <2>1, <2>2 DEF Export
<1>3. CASE b \notin NodePeers
  BY <1>1, <1>3 DEF Export
<1> QED
  BY <1>2, <1>3

\* So a switch of best paths sends no upstream a node's route.
LEMMA SwitchBestStaysInside ==
    ASSUME InsideInv, NEW P \in SUBSET Prefixes, NEW b \in [P -> Origins],
           SwitchBest(P, b),
           \A p \in P : b[p] \in NodePeers /\ b[p] # best[p]
                          => p \in SubPrefixes /\ phase = "serving"
    PROVE  NodeRoutesStayInside'
<1> SUFFICES ASSUME NEW u \in Upstreams, NEW p \in Prefixes
             PROVE  sent'[u][p] \notin NodePeers
  BY DEF NodeRoutesStayInside
<1>1. None \notin NodePeers
  BY PeersAreApart DEF Peers
<1>2. CASE u \in sessions /\ p \in P /\ b[p] # best[p]
  <2>1. b[p] \in Origins
    BY <1>2
  <2>2. Export(u, p, b[p]) \notin NodePeers
    BY <1>2, <2>1, ExportStopsNodeRoutes
  <2> QED
    BY <1>2, <2>2 DEF SwitchBest
<1>3. CASE u \in sessions /\ ~ (p \in P /\ b[p] # best[p])
  <2>1. sent'[u][p] = sent[u][p]
    BY <1>3 DEF SwitchBest
  <2> QED
    BY <2>1 DEF InsideInv, NodeRoutesStayInside
<1>4. CASE u \notin sessions
  BY <1>1, <1>4 DEF SwitchBest, NothingSent
<1> QED
  BY <1>2, <1>3, <1>4

LEMMA UpdatePathsStayInside ==
    ASSUME InsideInv, NEW q \in Peers, NEW new \in SUBSET Prefixes,
           UpdatePaths(q, new), PolicyInv', UNCHANGED phase
    PROVE  NodeRoutesStayInside'
<1> DEFINE affected == (accepted[q] \ new) \cup (new \ accepted[q])
<1>1. affected \in SUBSET Prefixes
  BY DEF InsideInv, PolicyInv, SpeakerTypeOK
<1>2. PICK b \in [affected -> Origins] : SwitchBest(affected, b)
  BY DEF UpdatePaths
<1> HIDE DEF affected
<1>3. \A p \in affected : b[p] # best[p] => best'[p] = b[p]
  BY <1>1, <1>2 DEF SwitchBest
<1>4. \A p \in affected : b[p] \in NodePeers /\ b[p] # best[p]
                            => p \in SubPrefixes /\ phase = "serving"
  BY <1>1, <1>3 DEF PolicyInv, OnlyPlannedPaths
<1> QED
  BY <1>1, <1>2, <1>4, SwitchBestStaysInside

LEMMA InsideStep ==
    ASSUME ~ BGPFaults, InsideInv, [Next]_vars
    PROVE  InsideInv'
<1> USE DEF startVars, confVars, peerVars, ribVars, kernVars
<1>0. PolicyInv'
  BY PolicyStep DEF InsideInv
<1>1. CASE StartBGP \/ ApplyPolicies \/ UNCHANGED vars
  BY <1>0, <1>1 DEF StartBGP, ApplyPolicies, vars, InsideInv, UpstreamsFiltered,
                    NodeRoutesStayInside
<1>2. ASSUME NEW u \in Upstreams, AddUpstream(u) \/ AssignExportPolicy(u)
      PROVE  InsideInv'
  BY <1>0, <1>2 DEF AddUpstream, AssignExportPolicy, InsideInv, UpstreamsFiltered,
                    NodeRoutesStayInside
<1>3. CASE AnnounceAggregate
  <2>1. {Aggregate} \in SUBSET Prefixes /\ [p \in {Aggregate} |-> Self] \in [{Aggregate} -> Origins]
    BY DEF Prefixes, Origins
  <2>2. Self \notin NodePeers
    BY PeersAreApart DEF Peers
  <2>3. NodeRoutesStayInside'
    <3>1. CASE SwitchBest({Aggregate}, [p \in {Aggregate} |-> Self])
      BY <1>3, <2>1, <2>2, <3>1, SwitchBestStaysInside DEF AnnounceAggregate
    <3>2. CASE UNCHANGED sent
      BY <3>2 DEF InsideInv, NodeRoutesStayInside
    <3> QED
      BY <1>3, <3>1, <3>2 DEF AnnounceAggregate
  <2> QED
    BY <1>0, <1>3, <2>3 DEF AnnounceAggregate, InsideInv, UpstreamsFiltered
<1>4. ASSUME NEW n \in NodePeers, AddPeer(n)
      PROVE  InsideInv'
  <2>1. n \notin Upstreams
    BY PeersAreApart
  <2> QED
    BY <1>0, <1>4, <2>1 DEF AddPeer, InsideInv, UpstreamsFiltered, NodeRoutesStayInside
<1>5. ASSUME NEW q \in Peers, NEW new \in SUBSET Prefixes, UpdatePaths(q, new),
             neighbours' \subseteq neighbours, UNCHANGED <<startVars, confVars>>
      PROVE  InsideInv'
  <2>1. NodeRoutesStayInside'
    BY <1>0, <1>5, UpdatePathsStayInside
  <2>2. UpstreamsFiltered'
    BY <1>5 DEF InsideInv, UpstreamsFiltered
  <2> QED
    BY <1>0, <2>1, <2>2 DEF InsideInv
<1>6. ASSUME NEW n \in NodePeers, RemovePeer(n)
      PROVE  InsideInv'
  <2>1. n \in Peers
    BY DEF Peers
  <2> QED
    BY <1>5, <1>6, <2>1 DEF RemovePeer
<1>7. ASSUME NEW q \in Peers, FlushPaths(q)
      PROVE  InsideInv'
  BY <1>5, <1>7 DEF FlushPaths
<1>8. ASSUME NEW q \in Peers, NEW p \in Prefixes, Announce(q, p) \/ Withdraw(q, p)
      PROVE  InsideInv'
  <2>1. accepted[q] \cup {p} \in SUBSET Prefixes /\ accepted[q] \ {p} \in SUBSET Prefixes
    BY DEF InsideInv, PolicyInv, SpeakerTypeOK
  <2> QED
    BY <1>5, <1>8, <2>1 DEF Announce, Withdraw
<1>9. ASSUME NEW q \in Peers, SessionUp(q)
      PROVE  InsideInv'
  <2>1. q \in neighbours /\ UNCHANGED <<startVars, confVars, neighbours>>
    BY <1>9 DEF SessionUp
  <2>2. ASSUME NEW u \in Upstreams, NEW p \in Prefixes
        PROVE  sent'[u][p] \notin NodePeers
    <3>1. CASE u = q
      <4>1. sent'[u][p] = Export(u, p, best[p])
        BY <1>9, <3>1 DEF SessionUp
      <4>2. None \notin NodePeers /\ Aggregate \notin SubPrefixes
        BY PeersAreApart, PrefixesAreApart DEF Peers
      <4>3. CASE best[p] \in NodePeers
        <5>1. p # Aggregate /\ u \in exportFilter
          BY <2>1, <3>1, <4>2, <4>3
             DEF InsideInv, PolicyInv, OnlyPlannedPaths, UpstreamsFiltered
        <5> QED
          BY <4>1, <4>2, <5>1 DEF Export
      <4>4. CASE best[p] \notin NodePeers
        BY <4>1, <4>2, <4>4 DEF Export
      <4> QED
        BY <4>3, <4>4
    <3>2. CASE u # q
      <4>1. sent'[u][p] = sent[u][p]
        BY <1>9, <3>2 DEF SessionUp
      <4> QED
        BY <4>1 DEF InsideInv, NodeRoutesStayInside
    <3> QED
      BY <3>1, <3>2
  <2> QED
    BY <1>0, <2>1, <2>2 DEF InsideInv, UpstreamsFiltered, NodeRoutesStayInside
<1>10. ASSUME NEW q \in Peers, SessionDown(q)
       PROVE  InsideInv'
  <2>1. None \notin NodePeers
    BY PeersAreApart DEF Peers
  <2>2. NodeRoutesStayInside'
    BY <1>10, <2>1 DEF SessionDown, NothingSent, InsideInv, NodeRoutesStayInside
  <2> QED
    BY <1>0, <1>10, <2>2 DEF SessionDown, InsideInv, UpstreamsFiltered
<1>11. ASSUME NEW p \in Prefixes, HandleBestPath(p)
       PROVE  InsideInv'
  BY <1>0, <1>11 DEF HandleBestPath, WithdrawFromKernel, InstallInKernel, SkipTransit,
                     Dequeue, InsideInv, UpstreamsFiltered, NodeRoutesStayInside
<1>12. CASE RestartCore \/ AnnounceAggregateFails
  <2>1. None \notin NodePeers
    BY PeersAreApart DEF Peers
  <2> QED
    BY <1>0, <1>12, <2>1
       DEF RestartCore, AnnounceAggregateFails, LoseMemory, NothingSent, InsideInv,
           UpstreamsFiltered, NodeRoutesStayInside
<1> QED
  BY <1>1, <1>2, <1>3, <1>4, <1>6, <1>7, <1>8, <1>9, <1>10, <1>11, <1>12
     DEF Next, StartUpStep, PeerStep

\* When GoBGP refuses none of the start-up calls, no path learned from a node
\* is ever sent to an upstream (policy.go:15).  The assumption is needed: run()
\* only logs a refused export policy (main.go:149-151).
THEOREM NodeRoutesStayWithTheCore ==
    ASSUME ~ BGPFaults
    PROVE  Spec => []NodeRoutesStayInside
<1>1. Init => InsideInv
  <2>1. None \notin NodePeers
    BY PeersAreApart DEF Peers
  <2> QED
    BY <2>1, PolicyInit DEF Init, InsideInv, UpstreamsFiltered, NodeRoutesStayInside,
                            NothingSent
<1>2. InsideInv /\ [Next]_vars => InsideInv'
  BY InsideStep
<1>3. InsideInv => NodeRoutesStayInside
  BY DEF InsideInv
<1> QED
  BY <1>1, <1>2, <1>3, PTL DEF Spec

-----------------------------------------------------------------------------
(***************************************************************************)
(* What is offered: the best paths and their owners.                       *)
(***************************************************************************)

\* The paths of prefixes that an update does not touch stay; the others get one
\* the neighbours have.
LEMMA UpdatePathsEffect ==
    ASSUME SpeakerTypeOK, NEW q \in Peers, NEW new \in SUBSET Prefixes,
           UpdatePaths(q, new)
    PROVE  /\ accepted' = [accepted EXCEPT ![q] = new]
           /\ \A p \in Prefixes : (p \in accepted[q] <=> p \in new) =>
                 best'[p] = best[p]
           /\ \A p \in Prefixes : ~ (p \in accepted[q] <=> p \in new) =>
                 best'[p] \in Choices(accepted', OwnPaths(p), p)
           /\ \A p \in Prefixes :
                 pending'[p] \in {pending[p], Append(pending[p], best'[p])}
<1> USE DEF SpeakerTypeOK
<1> DEFINE affected == (accepted[q] \ new) \cup (new \ accepted[q])
<1>1. accepted' = [accepted EXCEPT ![q] = new]
  BY DEF UpdatePaths
<1>2. PICK b \in [affected -> Origins] :
        /\ \A p \in affected : MayBeBest(b[p], accepted', OwnPaths(p), p)
        /\ SwitchBest(affected, b)
  <2>1. PICK b \in [affected -> Origins] :
          /\ \A p \in affected :
                MayBeBest(b[p], [accepted EXCEPT ![q] = new], OwnPaths(p), p)
          /\ SwitchBest(affected, b)
    BY Zenon DEF UpdatePaths
  <2> QED
    BY <1>1, <2>1, Zenon
<1>3. \A p \in Prefixes : p \in affected <=> ~ (p \in accepted[q] <=> p \in new)
  OBVIOUS
<1> HIDE DEF affected
<1>4. \A p \in Prefixes : p \notin affected => best'[p] = best[p]
  BY <1>2 DEF SwitchBest
<1>5. \A p \in Prefixes : p \in affected => best'[p] = b[p]
  BY <1>2 DEF SwitchBest
<1>6. \A p \in affected : b[p] \in Choices(accepted', OwnPaths(p), p)
  BY <1>2 DEF MayBeBest
<1>7. \A p \in Prefixes : pending'[p] \in {pending[p], Append(pending[p], best'[p])}
  BY <1>2 DEF SwitchBest
<1> QED
  BY <1>1, <1>3, <1>4, <1>5, <1>6, <1>7

\* A best path learned from a neighbour is one of that neighbour's.
BestIsOffered ==
    \A p \in Prefixes : best[p] \in Peers => p \in accepted[best[p]]

LEMMA UpdatePathsOffered ==
    ASSUME SpeakerTypeOK, BestIsOffered, NEW q \in Peers, NEW new \in SUBSET Prefixes,
           UpdatePaths(q, new)
    PROVE  BestIsOffered'
<1> SUFFICES ASSUME NEW p \in Prefixes, best'[p] \in Peers
             PROVE  p \in accepted'[best'[p]]
  BY DEF BestIsOffered
<1>1. accepted' = [accepted EXCEPT ![q] = new] /\ accepted \in [Peers -> SUBSET Prefixes]
  BY UpdatePathsEffect DEF SpeakerTypeOK
<1>2. CASE p \in accepted[q] <=> p \in new
  <2>1. best'[p] = best[p]
    BY <1>2, UpdatePathsEffect
  <2> QED
    BY <1>1, <1>2, <2>1 DEF BestIsOffered
<1>3. CASE ~ (p \in accepted[q] <=> p \in new)
  <2>1. best'[p] \in Choices(accepted', OwnPaths(p), p)
    BY <1>3, UpdatePathsEffect
  <2>2. best'[p] # Self /\ best'[p] # None
    BY PeersAreApart
  <2> QED
    BY <2>1, <2>2 DEF Choices, OwnPaths
<1> QED
  BY <1>2, <1>3

LEMMA OfferedStep ==
    ASSUME SpeakerTypeOK, BestIsOffered, [Next]_vars
    PROVE  BestIsOffered'
<1>1. ASSUME UNCHANGED <<accepted, best>> PROVE BestIsOffered'
  BY <1>1 DEF BestIsOffered
<1>2. CASE AnnounceAggregate
  <2>1. UNCHANGED accepted
    BY <1>2 DEF AnnounceAggregate
  <2>2. \A p \in Prefixes : best'[p] \in {best[p], Self}
    BY <1>2 DEF AnnounceAggregate, SwitchBest
  <2> QED
    BY <2>1, <2>2, PeersAreApart DEF BestIsOffered
<1>3. ASSUME NEW q \in Peers, NEW p \in Prefixes,
             \/ q \in NodePeers /\ RemovePeer(q)
             \/ FlushPaths(q)
             \/ Announce(q, p)
             \/ Withdraw(q, p)
      PROVE  BestIsOffered'
  <2>1. \E new \in SUBSET Prefixes : UpdatePaths(q, new)
    <3>1. accepted[q] \cup {p} \in SUBSET Prefixes /\ accepted[q] \ {p} \in SUBSET Prefixes
      BY DEF SpeakerTypeOK
    <3> QED
      BY <1>3, <3>1 DEF RemovePeer, FlushPaths, Announce, Withdraw
  <2> QED
    BY <2>1, UpdatePathsOffered
<1>4. CASE RestartCore \/ AnnounceAggregateFails
  BY <1>4, PeersAreApart DEF RestartCore, AnnounceAggregateFails, LoseMemory, BestIsOffered
<1>5. ASSUME NEW p \in Prefixes, HandleBestPath(p)
      PROVE  UNCHANGED <<accepted, best>>
  BY <1>5 DEF HandleBestPath, WithdrawFromKernel, InstallInKernel, SkipTransit, Dequeue
<1>6. Aggregate \in Prefixes /\ NodePeers \subseteq Peers
  BY DEF Prefixes, Peers
<1> QED
  BY <1>1, <1>2, <1>3, <1>4, <1>5, <1>6
     DEF Next, StartUpStep, PeerStep, vars, StartBGP, ApplyPolicies, AddUpstream,
         AssignExportPolicy, AddPeer, SessionUp, SessionDown, ribVars

\* Once the watcher is through, a kernel route to a node is one that node
\* offers, as a neighbour (speaker.go:145-153, 306-344).
THEOREM KernelRoutesAreAlwaysOffered == Spec => []KernelRoutesAreOffered
<1>1. Init => SpeakerInv /\ BestIsOffered
  <2> SUFFICES ASSUME Init PROVE SpeakerInv /\ BestIsOffered
    OBVIOUS
  <2> QED
    BY SpeakerInitType, PeersAreApart
       DEF Init, SpeakerInv, KernelCatchesUp, Agrees, BestIsOffered
<1>2. SpeakerInv /\ BestIsOffered /\ [Next]_vars => BestIsOffered'
  BY OfferedStep DEF SpeakerInv
<1>3. SpeakerInv /\ PolicyInv /\ BestIsOffered => KernelRoutesAreOffered
  <2> SUFFICES ASSUME SpeakerInv, PolicyInv, BestIsOffered,
                      NEW p \in Prefixes \ unsynced, NEW n \in NodePeers,
                      pending[p] = <<>>, best[p] \notin Upstreams, fib[p] = n
               PROVE  n \in neighbours /\ p \in accepted[n]
    BY DEF KernelRoutesAreOffered
  <2>1. best[p] \in InWGRange \cup {None}
    BY DEF SpeakerInv, SpeakerTypeOK, Origins, Peers, InWGRange
  <2>2. best[p] = n /\ n \in Peers
    BY <2>1 DEF SpeakerInv, KernelCatchesUp, Agrees, Peers
  <2>3. p \in accepted[n]
    BY <2>2 DEF BestIsOffered
  <2> QED
    BY <2>2, <2>3 DEF PolicyInv, OnlyPlannedPaths
<1> QED
  BY <1>1, <1>2, <1>3, SpeakerStepInv, PolicyInit, PolicyStep, PTL DEF Spec

-----------------------------------------------------------------------------
(***************************************************************************)
(* How far the kernel can fall behind when it refuses nothing and the core *)
(* does not restart.                                                       *)
(***************************************************************************)

\* No path of p is best, or was lately, that comes from an origin in S.
FreeOf(p, S) ==
    /\ best[p] \notin S
    /\ \A i \in 1 .. Len(pending[p]) : pending[p][i] \notin S

\* The core originates nothing but the aggregate.
OwnPathsAreTheAggregate == \A p \in Prefixes \ {Aggregate} : FreeOf(p, {Self})

\* A process that does not serve yet has given the watcher nothing to install.
KernelUntouched ==
    phase # "serving" => \A p \in Prefixes : FreeOf(p, InWGRange) /\ fib[p] = None

\* Its own address is the one gateway that the kernel may refuse.
InStepInv == OwnPathsAreTheAggregate /\ KernelUntouched /\ unsynced \subseteq {Aggregate}

LEMMA UpdatesAreFree ==
    ASSUME SpeakerTypeOK, NEW q \in Peers, NEW new \in SUBSET Prefixes, UpdatePaths(q, new),
           NEW p \in Prefixes, NEW S, FreeOf(p, S), best'[p] \notin S
    PROVE  FreeOf(p, S)'
<1>1. /\ pending[p] \in Seq(Origins)
      /\ \A i \in 1 .. Len(pending[p]) : pending[p][i] \notin S
  BY DEF FreeOf, SpeakerTypeOK
<1>2. pending'[p] \in {pending[p], Append(pending[p], best'[p])}
  BY UpdatePathsEffect
<1>3. best'[p] \in Origins
  BY UpdatePathsType
<1>4. CASE pending'[p] = pending[p]
  BY <1>1, <1>4 DEF FreeOf
<1>5. CASE pending'[p] = Append(pending[p], best'[p])
  <2> DEFINE q2 == Append(pending[p], best'[p])
  <2>1. /\ Len(q2) = Len(pending[p]) + 1
        /\ \A i \in 1 .. Len(pending[p]) : q2[i] = pending[p][i]
        /\ q2[Len(pending[p]) + 1] = best'[p]
    BY <1>1, <1>3, AppendProperties
  <2>2. Len(pending[p]) \in Nat
    BY <1>1
  <2>3. ASSUME NEW i \in 1 .. Len(q2) PROVE q2[i] \notin S
    <3> HIDE DEF q2
    <3>1. i \in 1 .. Len(pending[p]) \/ i = Len(pending[p]) + 1
      BY <2>1, <2>2
    <3> QED
      BY <1>1, <2>1, <3>1
  <2> QED
    BY <1>5, <2>3 DEF FreeOf
<1> QED
  BY <1>2, <1>4, <1>5

\* A neighbour's update makes no path of the core's own best.
LEMMA UpdatesAreNotOwn ==
    ASSUME SpeakerTypeOK, NEW q \in Peers, NEW new \in SUBSET Prefixes,
           UpdatePaths(q, new), NEW p \in Prefixes, best[p] # Self
    PROVE  best'[p] # Self
<1>1. CASE p \in accepted[q] <=> p \in new
  BY <1>1, UpdatePathsEffect
<1>2. CASE ~ (p \in accepted[q] <=> p \in new)
  <2>1. best'[p] \in Choices(accepted', OwnPaths(p), p)
    BY <1>2, UpdatePathsEffect
  <2> QED
    BY <2>1, PeersAreApart DEF Choices, OwnPaths
<1> QED
  BY <1>1, <1>2

LEMMA InStepStep ==
    ASSUME ~ KernelFaults, ~ CoreRestarts, PolicyInv, InStepInv, [Next]_vars
    PROVE  InStepInv'
<1> USE DEF InStepInv
<1>0. SpeakerTypeOK /\ PolicyInv'
  BY PolicyStep DEF PolicyInv
<1>1. ASSUME UNCHANGED <<best, pending, fib, unsynced>>,
             phase' = "serving" => phase = "serving",
             phase = "serving" => phase' = "serving"
      PROVE  InStepInv'
  BY <1>1 DEF OwnPathsAreTheAggregate, KernelUntouched, FreeOf
<1>2. CASE AnnounceAggregate
  <2>1. /\ UNCHANGED unsynced
        /\ phase' = "serving"
        /\ \A p \in Prefixes \ {Aggregate} : best'[p] = best[p] /\ pending'[p] = pending[p]
    BY <1>2 DEF AnnounceAggregate, SwitchBest, kernVars
  <2> QED
    BY <2>1 DEF OwnPathsAreTheAggregate, KernelUntouched, FreeOf
<1>3. ASSUME NEW q \in Peers, NEW p \in Prefixes,
             \/ q \in NodePeers /\ RemovePeer(q)
             \/ FlushPaths(q)
             \/ Announce(q, p)
             \/ Withdraw(q, p)
      PROVE  InStepInv'
  <2>1. PICK new \in SUBSET Prefixes : UpdatePaths(q, new)
    <3>1. accepted[q] \cup {p} \in SUBSET Prefixes /\ accepted[q] \ {p} \in SUBSET Prefixes
      BY <1>0 DEF SpeakerTypeOK
    <3> QED
      BY <1>3, <3>1 DEF RemovePeer, FlushPaths, Announce, Withdraw
  <2>2. UNCHANGED <<phase, fib, unsynced>>
    BY <1>3 DEF RemovePeer, FlushPaths, Announce, Withdraw, kernVars, startVars
  <2>3. OwnPathsAreTheAggregate'
    <3> SUFFICES ASSUME NEW r \in Prefixes \ {Aggregate} PROVE FreeOf(r, {Self})'
      BY DEF OwnPathsAreTheAggregate
    <3>1. FreeOf(r, {Self})
      BY DEF OwnPathsAreTheAggregate
    <3>2. best'[r] \notin {Self}
      BY <1>0, <2>1, <3>1, UpdatesAreNotOwn DEF FreeOf
    <3> QED
      BY <1>0, <2>1, <3>1, <3>2, UpdatesAreFree
  <2>4. ASSUME phase # "serving", NEW r \in Prefixes
        PROVE  FreeOf(r, InWGRange)' /\ fib'[r] = None
    <3>1. FreeOf(r, InWGRange) /\ fib[r] = None
      BY <2>4 DEF KernelUntouched
    <3>2. best'[r] # Self
      BY <1>0, <2>1, <3>1, UpdatesAreNotOwn DEF FreeOf, InWGRange
    <3>3. best'[r] \notin NodePeers
      BY <1>0, <2>2, <2>4 DEF PolicyInv, OnlyPlannedPaths
    <3>4. best'[r] \notin InWGRange
      BY <3>2, <3>3 DEF InWGRange
    <3> QED
      BY <1>0, <2>1, <2>2, <3>1, <3>4, UpdatesAreFree
  <2>5. KernelUntouched'
    BY <2>2, <2>4 DEF KernelUntouched
  <2> QED
    BY <2>2, <2>3, <2>5
<1>4. ASSUME NEW p \in Prefixes, HandleBestPath(p) PROVE InStepInv'
  <2>0. Dequeue(p)
    BY <1>4 DEF HandleBestPath, WithdrawFromKernel, InstallInKernel, SkipTransit
  <2>1. /\ pending[p] \in Seq(Origins) /\ pending[p] # <<>> /\ UNCHANGED <<best, phase>>
        /\ pending'[p] = Tail(pending[p])
        /\ \A r \in Prefixes : r # p => pending'[r] = pending[r]
    BY <1>0, <2>0 DEF Dequeue, SpeakerTypeOK, startVars
  <2>2. ASSUME NEW r \in Prefixes, NEW S, FreeOf(r, S) PROVE FreeOf(r, S)'
    <3>1. CASE r = p
      <4>1. \A i \in 1 .. Len(Tail(pending[p])) :
               i + 1 \in 1 .. Len(pending[p]) /\ Tail(pending[p])[i] = pending[p][i + 1]
        BY <2>1
      <4> QED
        BY <2>1, <2>2, <3>1, <4>1 DEF FreeOf
    <3>2. CASE r # p
      BY <2>1, <2>2, <3>2 DEF FreeOf
    <3> QED
      BY <3>1, <3>2
  <2>3. \A S : FreeOf(p, S) => Head(pending[p]) \notin S
    BY <2>1 DEF FreeOf
  <2>4. OwnPathsAreTheAggregate'
    BY <2>2 DEF OwnPathsAreTheAggregate
  <2>5. unsynced' \subseteq {Aggregate}
    <3>1. p # Aggregate => Head(pending[p]) # Self
      BY <2>3 DEF OwnPathsAreTheAggregate
    <3> QED
      BY <1>4, <3>1, PeersAreApart
         DEF HandleBestPath, WithdrawFromKernel, InstallInKernel, SkipTransit, KernelRoute,
             kernVars
  <2>6. ASSUME phase # "serving", NEW r \in Prefixes
        PROVE  FreeOf(r, InWGRange)' /\ fib'[r] = None
    <3>1. FreeOf(r, InWGRange) /\ FreeOf(p, InWGRange) /\ fib[r] = None
      BY <2>6 DEF KernelUntouched
    <3>2. Head(pending[p]) \notin InWGRange
      BY <2>3, <3>1
    <3>3. fib'[r] = None
      BY <1>0, <1>4, <3>1, <3>2
         DEF HandleBestPath, WithdrawFromKernel, InstallInKernel, SkipTransit, KernelRoute,
             kernVars, SpeakerTypeOK
    <3> QED
      BY <2>2, <3>1, <3>3
  <2>7. KernelUntouched'
    BY <2>1, <2>6 DEF KernelUntouched
  <2> QED
    BY <2>4, <2>5, <2>7
<1>5. CASE AnnounceAggregateFails
  <2>1. /\ \A p \in Prefixes : best'[p] = None /\ pending'[p] = <<>> /\ fib[p] = None
        /\ UNCHANGED <<fib, unsynced>>
    BY <1>5 DEF AnnounceAggregateFails, LoseMemory, KernelUntouched
  <2>2. None \notin InWGRange \cup {Self}
    BY PeersAreApart DEF InWGRange, Peers
  <2> QED
    BY <2>1, <2>2 DEF OwnPathsAreTheAggregate, KernelUntouched, FreeOf
<1>6. ~ RestartCore
  BY DEF RestartCore
<1>7. Aggregate \in Prefixes /\ NodePeers \subseteq Peers
  BY DEF Prefixes, Peers
<1> QED
  BY <1>1, <1>2, <1>3, <1>4, <1>5, <1>6, <1>7
     DEF Next, StartUpStep, PeerStep, vars, StartBGP, ApplyPolicies, AddUpstream,
         AssignExportPolicy, AddPeer, SessionUp, SessionDown, startVars, ribVars, kernVars

\* The exceptions of FIBFollowsRIB are the kernel's refusals and the routes of an
\* earlier process, no more: without either, every sub-prefix that the watcher
\* has caught up with has its best path's route, or none (speaker.go:306-344).
THEOREM OnlyFaultsLeaveTheKernelBehind ==
    ASSUME ~ KernelFaults, ~ CoreRestarts
    PROVE  Spec => [](\A p \in SubPrefixes :
                        pending[p] = <<>> /\ best[p] \notin Upstreams => fib[p] = best[p])
<1> DEFINE Followed == \A p \in SubPrefixes :
                         pending[p] = <<>> /\ best[p] \notin Upstreams => fib[p] = best[p]
<1>1. Init => SpeakerInv /\ PolicyInv /\ InStepInv
  <2> SUFFICES ASSUME Init PROVE SpeakerInv /\ PolicyInv /\ InStepInv
    OBVIOUS
  <2>1. None \notin InWGRange \cup {Self}
    BY PeersAreApart DEF InWGRange, Peers
  <2> QED
    BY SpeakerInitType, PolicyInit, <2>1
       DEF Init, SpeakerInv, KernelCatchesUp, Agrees, InStepInv, OwnPathsAreTheAggregate,
           KernelUntouched, FreeOf
<1>2. PolicyInv /\ InStepInv /\ [Next]_vars => InStepInv'
  BY InStepStep
<1>3. SpeakerInv /\ InStepInv => Followed
  <2> SUFFICES ASSUME SpeakerInv, InStepInv, NEW p \in SubPrefixes,
                      pending[p] = <<>>, best[p] \notin Upstreams
               PROVE  fib[p] = best[p]
    OBVIOUS
  <2>1. p \in Prefixes /\ p # Aggregate
    BY PrefixesAreApart DEF Prefixes
  <2>2. best[p] \in InWGRange \cup {None}
    BY <2>1 DEF SpeakerInv, SpeakerTypeOK, Origins, Peers, InWGRange
  <2> QED
    BY <2>1, <2>2 DEF SpeakerInv, KernelCatchesUp, Agrees, InStepInv
<1> QED
  BY <1>1, <1>2, <1>3, SpeakerStepInv, PolicyStep, PTL DEF Spec
=============================================================================
