--------------------------- MODULE ReplicationLock ---------------------------
(***************************************************************************)
(* The locks replications take of their peers.  Two replicated actors that *)
(* are connected should not be replicated at the same time, as each of the *)
(* new replicas would miss the other.  A replication manager therefore     *)
(* asks the managers of all peer replications for their locks, replicates  *)
(* when it has the last one, and returns them.  It does not ask a peer     *)
(* that it has given its own lock, before it gets that one back.           *)
(*                                                                         *)
(* Abstracted: the replication itself, the choice of a node, the leader    *)
(* cache (leaders are known), leaders that move or cannot be reached and   *)
(* requests that time out.  The peers' leaders are on different runtimes.  *)
(* The definitions named _MUT are mistakes of the definition that follows  *)
(* them: the run shows that the properties tell the two apart.             *)
(***************************************************************************)
EXTENDS Naturals, Sequences

CONSTANTS
  Replications,     \* the replicated actors, or their ReplicationData
  Deployments,      \* the ways they may be connected
  MaxReplications,  \* bound: replications started
  MaxOvertakes      \* bound: messages that overtake another one, when a
                    \* link is replaced; 0 for links that are not

(* If one actor is connected to another one, so is the other to the first. *)
ASSUME DeploymentAssumption ==
  \A d \in Deployments :
    /\ d \in [Replications -> SUBSET Replications]
    /\ \A r \in Replications : r \notin d[r] /\ \A p \in d[r] : r \in d[p]
ASSUME LockBoundAssumption == MaxReplications \in Nat /\ MaxOvertakes \in Nat

VARIABLES
  peers,      \* peer_replication_ids of each
  phase,      \* status READY; REPLICATING, with the callback queued; or called
  given,      \* given_lock_replication_ids: "we are locked out against these"
  acquired,   \* aquired_lock_replication_ids
  queued,     \* queued_lock_replication_ids: "we attempt to get lock"
  net,        \* messages on the link from one leader to another
  ahead,      \* history: peers that were replicating when it asked
  started,    \* replications started so far
  overtakes   \* reorderings so far

vars == <<peers, phase, given, acquired, queued, net, ahead, started, overtakes>>

Link == {l \in Replications \X Replications : l[1] # l[2]}

Messages == {"lock", "lock OK", "lock UNAVAILABLE", "release", "release OK"}

(* After deployment; the peers are collected when the actors are connected. *)
Init ==
  /\ peers \in Deployments
  /\ phase = [r \in Replications |-> "ready"]
  /\ given = [r \in Replications |-> {}]
  /\ acquired = [r \in Replications |-> {}]
  /\ queued = [r \in Replications |-> {}]
  /\ net = [l \in Link |-> <<>>]
  /\ ahead = [r \in Replications |-> {}]
  /\ started = 0
  /\ overtakes = 0

-----------------------------------------------------------------------------
IsNext(p, r, m) == net[<<p, r>>] # <<>> /\ Head(net[<<p, r>>]) = m

(* r takes the next message from p and sends m to a set of peers.          *)
Answered(r, p, m) ==
  [net EXCEPT ![<<p, r>>] = Tail(@), ![<<r, p>>] = Append(@, m)]

Sent(n, r, R, m) ==
  [l \in Link |-> IF l[1] = r /\ l[2] \in R THEN Append(n[l], m) ELSE n[l]]

(* cont_lock_peer_replication: the locks to ask for.                       *)
ToAsk(want, have, gave) == (want \ have) \ gave

-----------------------------------------------------------------------------
(* lock_peer_replication, for a replication that was ready and has found a *)
(* node.  Without peers the callback is called at once.                    *)
Lock_only_asked_MUT(r) ==
  /\ phase[r] = "ready"
  /\ started < MaxReplications
  /\ started' = started + 1
  /\ LET ask == ToAsk(peers[r], acquired[r], given[r]) IN
     /\ phase' = [phase EXCEPT ![r] = IF ask = {} THEN "replicating" ELSE "locking"]
     /\ queued' = [queued EXCEPT ![r] = ask]
     /\ net' = Sent(net, r, ask, "lock")
  /\ ahead' = [ahead EXCEPT ![r] = {p \in peers[r] : phase[p] = "replicating"}]
  /\ UNCHANGED <<peers, given, acquired, overtakes>>

Lock(r) ==
  /\ phase[r] = "ready"
  /\ started < MaxReplications
  /\ started' = started + 1
  /\ \/ /\ peers[r] = {}
        /\ phase' = [phase EXCEPT ![r] = "replicating"]
        /\ UNCHANGED <<queued, net>>
     \/ /\ peers[r] # {}
        /\ phase' = [phase EXCEPT ![r] = "locking"]
        /\ queued' = [queued EXCEPT ![r] = peers[r]]
        /\ net' = Sent(net, r, ToAsk(peers[r], acquired[r], given[r]), "lock")
  /\ ahead' = [ahead EXCEPT ![r] = {p \in peers[r] : phase[p] = "replicating"}]
  /\ UNCHANGED <<peers, given, acquired, overtakes>>

(* _try_replication_lock at r, asked by p.                                 *)
TryLock_not_given_MUT(r, p) ==
  /\ IsNext(p, r, "lock")
  /\ net' = Answered(r, p, IF p \in acquired[r] THEN "lock UNAVAILABLE" ELSE "lock OK")
  /\ UNCHANGED <<peers, phase, given, acquired, queued, ahead, started, overtakes>>

TryLock_queued_MUT(r, p) ==
  /\ IsNext(p, r, "lock")
  /\ \/ /\ p \in acquired[r] \cup queued[r]
        /\ net' = Answered(r, p, "lock UNAVAILABLE")
        /\ UNCHANGED given
     \/ /\ p \notin acquired[r] \cup queued[r]
        /\ net' = Answered(r, p, "lock OK")
        /\ given' = [given EXCEPT ![r] = @ \cup {p}]
  /\ UNCHANGED <<peers, phase, acquired, queued, ahead, started, overtakes>>

TryLock(r, p) ==
  /\ IsNext(p, r, "lock")
  /\ \/ /\ p \in acquired[r]
        /\ net' = Answered(r, p, "lock UNAVAILABLE")
        /\ UNCHANGED given
     \/ /\ p \notin acquired[r]
        /\ net' = Answered(r, p, "lock OK")
        /\ given' = [given EXCEPT ![r] = @ \cup {p}]
  /\ UNCHANGED <<peers, phase, acquired, queued, ahead, started, overtakes>>

(* _response_lock with OK: the callback when it was the last.  An answer   *)
(* that is not queued any more ends in a KeyError.                         *)
Granted_first_MUT(r, p) ==
  /\ IsNext(p, r, "lock OK")
  /\ acquired' = [acquired EXCEPT ![r] = @ \cup {p}]
  /\ queued' = [queued EXCEPT ![r] = @ \ {p}]
  /\ phase' = IF p \in queued[r] THEN [phase EXCEPT ![r] = "replicating"] ELSE phase
  /\ net' = [net EXCEPT ![<<p, r>>] = Tail(@)]
  /\ UNCHANGED <<peers, given, ahead, started, overtakes>>

Granted(r, p) ==
  /\ IsNext(p, r, "lock OK")
  /\ acquired' = [acquired EXCEPT ![r] = @ \cup {p}]
  /\ queued' = [queued EXCEPT ![r] = @ \ {p}]
  /\ phase' = IF queued[r] = {p} THEN [phase EXCEPT ![r] = "replicating"] ELSE phase
  /\ net' = [net EXCEPT ![<<p, r>>] = Tail(@)]
  /\ UNCHANGED <<peers, given, ahead, started, overtakes>>

(* ... with SERVICE_UNAVAILABLE: "there will be a retry when released".    *)
Refused(r, p) ==
  /\ IsNext(p, r, "lock UNAVAILABLE")
  /\ net' = [net EXCEPT ![<<p, r>>] = Tail(@)]
  /\ UNCHANGED <<peers, phase, given, acquired, queued, ahead, started, overtakes>>

(* _replicated: release_peer_replication, and ready again.                 *)
Replicated(r) ==
  /\ phase[r] = "replicating"
  /\ phase' = [phase EXCEPT ![r] = "ready"]
  /\ net' = Sent(net, r, acquired[r], "release")
  /\ ahead' = [p \in Replications |-> ahead[p] \ {r}]
  /\ UNCHANGED <<peers, given, acquired, queued, started, overtakes>>

(* _release_replication_lock at r, asked by p: the lock may now be asked   *)
(* for in the other direction.                                             *)
Release_no_retry_MUT(r, p) ==
  /\ IsNext(p, r, "release")
  /\ given' = [given EXCEPT ![r] = @ \ {p}]
  /\ net' = Answered(r, p, "release OK")
  /\ UNCHANGED <<peers, phase, acquired, queued, ahead, started, overtakes>>

Release(r, p) ==
  /\ IsNext(p, r, "release")
  /\ given' = [given EXCEPT ![r] = @ \ {p}]
  /\ net' = LET answered == Answered(r, p, "release OK")
            IN  IF p \in given[r]
                THEN Sent(answered, r, ToAsk(queued[r], acquired[r], given'[r]), "lock")
                ELSE answered
  /\ UNCHANGED <<peers, phase, acquired, queued, ahead, started, overtakes>>

(* _response_release: the lock is asked for again if it is queued again.   *)
Released_kept_MUT(r, p) ==
  /\ IsNext(p, r, "release OK")
  /\ net' = [net EXCEPT ![<<p, r>>] = Tail(@)]
  /\ UNCHANGED <<peers, phase, given, acquired, queued, ahead, started, overtakes>>

Released(r, p) ==
  /\ IsNext(p, r, "release OK")
  /\ acquired' = [acquired EXCEPT ![r] = @ \ {p}]
  /\ net' = LET taken == [net EXCEPT ![<<p, r>>] = Tail(@)]
            IN  IF p \in acquired[r] /\ p \in queued[r]
                THEN Sent(taken, r, ToAsk(queued[r], acquired'[r], given[r]), "lock")
                ELSE taken
  /\ UNCHANGED <<peers, phase, given, queued, ahead, started, overtakes>>

(* A link is replaced by another one, and a message overtakes the one      *)
(* before it.                                                              *)
Overtake(l) ==
  /\ overtakes < MaxOvertakes
  /\ \E i \in 1 .. Len(net[l]) - 1 :
       net' = [net EXCEPT ![l] = [@ EXCEPT ![i] = net[l][i + 1], ![i + 1] = net[l][i]]]
  /\ overtakes' = overtakes + 1
  /\ UNCHANGED <<peers, phase, given, acquired, queued, ahead, started>>

-----------------------------------------------------------------------------
Receive(r, p) ==
  \/ TryLock(r, p)
  \/ Granted(r, p)
  \/ Refused(r, p)
  \/ Release(r, p)
  \/ Released(r, p)

Next ==
  \/ \E r \in Replications : Lock(r) \/ Replicated(r)
  \/ \E l \in Link : Receive(l[2], l[1]) \/ Overtake(l)

Spec == Init /\ [][Next]_vars

(* Messages are delivered and a replication ends; none has to start.       *)
Fairness ==
  /\ \A r \in Replications : WF_vars(Replicated(r))
  /\ \A l \in Link : WF_vars(Receive(l[2], l[1]))

FairSpec == Spec /\ Fairness

-----------------------------------------------------------------------------
(* PROPERTIES *)

(* Every variable holds a value of its kind; and the callback is queued    *)
(* exactly while locks are, which is what lock_peer_replication relies on. *)
TypeOK ==
  /\ peers \in Deployments
  /\ phase \in [Replications -> {"ready", "locking", "replicating"}]
  /\ given \in [Replications -> SUBSET Replications]
  /\ acquired \in [Replications -> SUBSET Replications]
  /\ queued \in [Replications -> SUBSET Replications]
  /\ net \in [Link -> Seq(Messages)]
  /\ ahead \in [Replications -> SUBSET Replications]
  /\ started \in Nat
  /\ overtakes \in Nat
  /\ \A r \in Replications : phase[r] = "locking" <=> queued[r] # {}

(* "Will perform the actual replication after aquiring a lock towards      *)
(* connected peers": it has them all, and they know it.                    *)
HasLocks(r) ==
  phase[r] = "replicating" => acquired[r] = peers[r] /\ \A p \in peers[r] : r \in given[p]

ReplicatesLocked == \A r \in Replications : HasLocks(r)

(* It has them if links are not replaced and no one has a second peer.     *)
Pairs == \A r \in Replications : \A p, q \in peers[r] : p = q

ReplicatesLockedInPairs == Pairs /\ overtakes = 0 => ReplicatesLocked

(* What the locks do prevent: a replication that asks while its peer       *)
(* replicates waits until it is done.                                      *)
WaitsForPeer ==
  Pairs /\ overtakes = 0 =>
    \A r \in Replications : phase[r] = "replicating" => ahead[r] = {}

(* Whatever the interleaving of requests, no lock is left behind: when all *)
(* is quiet, no one holds one or is locked out.                            *)
LocksReturned ==
  (\A l \in Link : net[l] = <<>>) /\ (\A r \in Replications : phase[r] = "ready")
    => overtakes > 0 \/ \A r \in Replications : acquired[r] = {} /\ given[r] = {}

(* r waits for p's lock and nothing is under way between them.             *)
Stuck(r, p) == p \in queued[r] /\ net[<<r, p>>] = <<>> /\ net[<<p, r>>] = <<>>

(* Who waits waits for a peer that replicates or waits itself, and not in  *)
(* a circle, whatever the deployment: a lock is asked for at once, unless  *)
(* it has been given in return, and comes back with a release.             *)
NoDeadlock ==
  overtakes = 0 =>
    /\ \A r, p \in Replications : Stuck(r, p) => phase[p] # "ready"
    /\ \A D \in (SUBSET Replications) \ {{}} :
         \E r \in D : \A p \in D : ~ Stuck(r, p)

(* "FIXME could get into deadlock if 3 parts or more in a circle": on FIFO *)
(* links none does; who waits for its peers' locks gets them.              *)
EventuallyReplicates ==
  \A r \in Replications :
    phase[r] = "locking" ~> phase[r] = "replicating" \/ overtakes > 0
=============================================================================
