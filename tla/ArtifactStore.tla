----------------------------- MODULE ArtifactStore -----------------------------
(* The store of uploaded artifacts (artifact.rs, the /artifacts routes of  *)
(* http.rs).  An upload is a lease with a staging file, to which chunks are *)
(* appended at their offset; finalizing it publishes the file and enters   *)
(* it in a registry.  Everything runs under the lock of the store, so each *)
(* handler is one action; what interleaves are the clients, the clock, the *)
(* calls of the file system that fail, and the restarts of the daemon,     *)
(* which forget the registry and keep the files.                           *)
(*                                                                         *)
(* A chunk is a value of Chunks and counts as one byte.  A call that is    *)
(* refused before it changes anything is a step that does not happen.      *)
EXTENDS Integers, Sequences, FiniteSetsExt

CONSTANTS
    Ids,           \* uploads: the store draws a new random id for each
    Chunks,        \* contents of a chunk
    MaxBytes,      \* limit of one artifact
    MaxTotal,      \* limit of the finalized artifacts
    MaxPending,    \* limit of the reservations of the leases
    MaxLeases,     \* limit of the leases
    LeaseTtl, FinalTtl,
    MaxSequence,   \* u64::MAX
    MaxTime,       \* bound on the clock
    MaxFaults,     \* bound on the calls of the file system that fail
    MaxRestarts,   \* bound on the restarts
    None

VARIABLES
    leases,        \* id -> its lease, or None
    artifacts,     \* id -> its entry in the registry, or None
    staging,       \* id -> its staging file, or None
    final,         \* id -> its published file, or None
    pendingBytes, finalizedBytes, nextAccess,
    used,          \* ids that were drawn
    later,         \* history: <<i, j>> of the registry, j used after i
    now, faults, restarts

store == <<leases, artifacts, staging, final, pendingBytes, finalizedBytes>>
vars == <<leases, artifacts, staging, final, pendingBytes, finalizedBytes,
          nextAccess, used, later, now, faults, restarts>>

Leases   == [reserved : Nat, expected : Nat \cup {None}, hash : Seq(Chunks),
             expires : Nat]
Entries  == [hash : Seq(Chunks), access : Nat, expires : Nat]
Contents == [content : Seq(Chunks), modified : Nat]

(* What the proofs assume of the constants.                                *)
StoreAssumption ==
    /\ MaxBytes \in Nat /\ MaxTotal \in Nat /\ MaxPending \in Nat
    /\ LeaseTtl \in Nat /\ FinalTtl \in Nat
    /\ None \notin Leases /\ None \notin Entries /\ None \notin Contents

Nobody == [i \in Ids |-> None]

Leased     == {i \in Ids : leases[i] # None}
Registered == {i \in Ids : artifacts[i] # None}

Reserved(S) == MapThenSumSet(LAMBDA i : leases[i].reserved, S)
Finalized(S) == MapThenSumSet(LAMBDA i : Len(artifacts[i].hash), S)

(* Files are swept by their age alone.                                     *)
Window == IF LeaseTtl > FinalTtl THEN LeaseTtl ELSE FinalTtl

Late  == {i \in Leased : leases[i].expires <= now}
Stale == {i \in Registered : artifacts[i].expires <= now}
Old(files) == {i \in Ids : files[i] # None /\ now - files[i].modified >= Window}

(* saturating_sub                                                          *)
Minus(n, k) == IF n > k THEN n - k ELSE 0

Forget(f, S) == [i \in Ids |-> IF i \in S THEN None ELSE f[i]]

Init ==
    /\ leases = Nobody /\ artifacts = Nobody
    /\ staging = Nobody /\ final = Nobody
    /\ pendingBytes = 0 /\ finalizedBytes = 0 /\ nextAccess = 0
    /\ used = {} /\ later = {}
    /\ now = 0 /\ faults = MaxFaults /\ restarts = MaxRestarts

(* The uses but those of S.                                                *)
Without(S) == {u \in later : u[1] \notin S /\ u[2] \notin S}

Fault == faults > 0 /\ faults' = faults - 1
Fine  == UNCHANGED faults

-------------------------------------------------------------------------------
(* What cleanup_expired may remove: the expired leases, all of them but    *)
(* those whose file does not go; then the expired artifacts and then the   *)
(* old files, each up to the first that does not go.                       *)
Cleanups ==
    {[ok |-> TRUE, l |-> Late, a |-> Stale, s |-> Old(staging), f |-> Old(final)]}
    \cup {[ok |-> FALSE, l |-> L, a |-> {}, s |-> {}, f |-> {}] :
             L \in (SUBSET Late) \ {Late}}
    \cup {[ok |-> FALSE, l |-> Late, a |-> A, s |-> {}, f |-> {}] :
             A \in (SUBSET Stale) \ {Stale}}
    \cup {[ok |-> FALSE, l |-> Late, a |-> Stale, s |-> S, f |-> F] :
             S \in (SUBSET Old(staging)) \ {Old(staging)},
             F \in SUBSET Old(final)}

(* The reservation of an upload whose size is declared is made at once.    *)
Lease(n) == [reserved |-> IF n = None THEN 0 ELSE n, expected |-> n,
             hash |-> <<>>, expires |-> now + LeaseTtl]

Admitted(L, p, reserved) ==
    Cardinality(L) < MaxLeases /\ p + reserved <= MaxPending

CreateLease(i) ==
    /\ i \notin used
    /\ \E n \in 1 .. MaxBytes \cup {None}, c \in Cleanups :
          /\ IF c.ok THEN Fine ELSE Fault
          /\ LET p == Minus(pendingBytes, Reserved(c.l))
                 made == c.ok /\ Admitted(Leased \ c.l, p, Lease(n).reserved)
             IN /\ used' = IF made THEN used \cup {i} ELSE used
                /\ leases' = [Forget(leases, c.l) EXCEPT
                                  ![i] = IF made THEN Lease(n) ELSE @]
                /\ staging' = [Forget(staging, c.l \cup c.s) EXCEPT
                                  ![i] = IF made THEN [content |-> <<>>,
                                                       modified |-> now] ELSE @]
                /\ pendingBytes' = IF made THEN p + Lease(n).reserved ELSE p
          /\ artifacts' = Forget(artifacts, c.a)
          /\ final' = Forget(final, c.a \cup c.f)
          /\ finalizedBytes' = Minus(finalizedBytes, Finalized(c.a))
          /\ later' = Without(c.a)
    /\ UNCHANGED <<nextAccess, now, restarts>>

(* A lease that goes without its reservation.                              *)
DropKeepsReservation(i) ==
    /\ leases' = Forget(leases, {i})
    /\ staging' = Forget(staging, {i})
    /\ UNCHANGED <<pendingBytes, artifacts, final, finalizedBytes, nextAccess,
                   used, later, now, faults, restarts>>

(* validate_live_lease: whoever calls for an expired lease removes it.     *)
DropLease(i) ==
    /\ leases' = Forget(leases, {i})
    /\ staging' = Forget(staging, {i})
    /\ pendingBytes' = Minus(pendingBytes, leases[i].reserved)
    /\ UNCHANGED <<artifacts, final, finalizedBytes, nextAccess, used, later,
                   now, faults, restarts>>

Expire(i) == i \in Late /\ DropLease(i)

Live(i) == i \in Leased \ Late

(* A staging file whose length nobody compares.                            *)
AgreesBlindly(i) == staging[i] # None

(* A staging file that is gone or has another length than the lease fails  *)
(* the call.                                                               *)
Agrees(i) == staging[i] # None
             /\ Len(staging[i].content) = Len(leases[i].hash)

(* A write that fails may have written the chunk, and then is rolled back, *)
(* if that does not fail as well.                                          *)
AppendChunk(i) ==
    /\ Live(i) /\ Agrees(i)
    /\ LET l == leases[i]
           after == Len(l.hash) + 1
           more == Minus(after, l.reserved)
       IN /\ after <= (IF l.expected = None THEN MaxBytes ELSE l.expected)
          /\ pendingBytes + more <= MaxPending
          /\ \E c \in Chunks :
                LET written == [content |-> Append(staging[i].content, c),
                                modified |-> now]
                IN \/ /\ leases' = [leases EXCEPT ![i].hash = Append(@, c),
                                                  ![i].reserved = @ + more]
                      /\ staging' = [staging EXCEPT ![i] = written]
                      /\ pendingBytes' = pendingBytes + more
                      /\ Fine
                   \/ /\ Fault
                      /\ staging' = [staging EXCEPT ![i] = written]
                      /\ UNCHANGED <<leases, pendingBytes>>
                   \/ /\ Fault
                      /\ staging' = [staging EXCEPT ![i].modified = now]
                      /\ UNCHANGED <<leases, pendingBytes>>
    /\ UNCHANGED <<artifacts, final, finalizedBytes, nextAccess, used, later,
                   now, restarts>>

-------------------------------------------------------------------------------
Order(as) == {i \in Ids : as[i] # None}

(* A renumbering that starts the counter over and keeps the numbers.       *)
WrapsAround(as) == <<as, 0>>

(* Before the counter of the uses ends, the uses are renumbered in their   *)
(* order.                                                                  *)
Renumbered(as) ==
    <<[i \in Ids |-> IF as[i] = None THEN None ELSE
          [as[i] EXCEPT !.access =
              Cardinality({j \in Order(as) : as[j].access < as[i].access})]],
      Cardinality(Order(as))>>

(* allocate_access_sequence: the registry and the next number.             *)
Allocate(as) == IF nextAccess = MaxSequence THEN Renumbered(as)
                ELSE <<as, nextAccess>>

(* Once what is gone is out of the registry, i is used last.               *)
Used(i, gone) ==
    Without(gone \cup {i}) \cup ((Registered \ (gone \cup {i})) \X {i})

(* ensure_finalized_capacity_locked: the least recently used go first,     *)
(* until the new one fits, or until one does not go.                       *)
Oldest(S, from) ==
    /\ S \subseteq from
    /\ \A i \in S, j \in from \ S : artifacts[i].access < artifacts[j].access

Fits(S, size) == Finalized(S) + size <= MaxTotal

Evictions(size, from) ==
    {S \in SUBSET from :
        /\ Oldest(S, from) /\ Fits(from \ S, size)
        /\ \A T \in (SUBSET S) \ {S} : Oldest(T, from) => ~ Fits(from \ T, size)}

Incomplete(size, from) ==
    {S \in SUBSET from : Oldest(S, from) /\ ~ Fits(from \ S, size)}

Remove(S) ==
    /\ final' = Forget(final, S)
    /\ finalizedBytes' = Minus(finalizedBytes, Finalized(S))

(* finalize: size and digest are those of the lease, the staging file must *)
(* still have that length.  What expired and what has to make room goes    *)
(* first; then the file gets its final name, and only then the registry    *)
(* its entry.  Any step may fail, and the lease stays; the last one,       *)
(* removing the staging name, undoes the link if it can.                   *)
Finalize(i) ==
    /\ Live(i) /\ Agrees(i)
    /\ leases[i].expected \in {None, Len(leases[i].hash)}
    /\ LET size == Len(leases[i].hash)
           kept == Registered \ Stale
       IN \/ \E E \in Evictions(size, kept) :
                LET as == Allocate(Forget(artifacts, Stale \cup E))
                    gone == Stale \cup E
                IN \/ /\ final[i] = None
                      /\ final' = [Forget(final, gone) EXCEPT ![i] = staging[i]]
                      /\ finalizedBytes' =
                            Minus(finalizedBytes, Finalized(gone)) + size
                      /\ artifacts' = [as[1] EXCEPT
                            ![i] = [hash |-> leases[i].hash, access |-> as[2],
                                    expires |-> now + FinalTtl]]
                      /\ nextAccess' = as[2] + 1
                      /\ later' = Used(i, gone)
                      /\ leases' = Forget(leases, {i})
                      /\ staging' = Forget(staging, {i})
                      /\ pendingBytes' = Minus(pendingBytes, leases[i].reserved)
                      /\ Fine
                   \/ /\ IF final[i] = None THEN Fault ELSE Fine
                      /\ artifacts' = Forget(artifacts, gone)
                      /\ later' = Without(gone)
                      /\ finalizedBytes' = Minus(finalizedBytes, Finalized(gone))
                      /\ \E f \in IF final[i] = None THEN {None, staging[i]}
                                  ELSE {final[i]} :
                            final' = [Forget(final, gone) EXCEPT ![i] = f]
                      /\ UNCHANGED <<leases, staging, pendingBytes, nextAccess>>
          \/ /\ Fault
             /\ \E S \in (SUBSET Stale) \cup
                         {Stale \cup E : E \in Incomplete(size, kept)} :
                   /\ Remove(S)
                   /\ artifacts' = Forget(artifacts, S)
                   /\ later' = Without(S)
             /\ UNCHANGED <<leases, staging, pendingBytes, nextAccess>>
    /\ UNCHANGED <<used, now, restarts>>

Abort(i) == Live(i) /\ DropLease(i)

(* lookup and artifact_read: what is expired goes, up to the first that    *)
(* does not; an artifact that is there becomes the latest used.            *)
Lookup(i) ==
    /\ \/ /\ Fine
          /\ Remove(Stale)
          /\ IF i \in Registered \ Stale
             THEN LET as == Allocate(Forget(artifacts, Stale)) IN
                  /\ artifacts' = [as[1] EXCEPT ![i].access = as[2]]
                  /\ nextAccess' = as[2] + 1
                  /\ later' = Used(i, Stale)
             ELSE /\ artifacts' = Forget(artifacts, Stale)
                  /\ later' = Without(Stale)
                  /\ UNCHANGED nextAccess
       \/ /\ Fault
          /\ \E S \in (SUBSET Stale) \ {Stale} :
                /\ Remove(S) /\ artifacts' = Forget(artifacts, S)
                /\ later' = Without(S)
          /\ UNCHANGED nextAccess
    /\ UNCHANGED <<leases, staging, pendingBytes, used, now, restarts>>

(* consume deletes the artifact, if the file system lets it.               *)
Consume(i) ==
    /\ i \in Registered
    /\ \E S \in SUBSET (Stale \cup {i}) :
          /\ IF S = Stale \cup {i} THEN Fine ELSE Fault /\ i \notin S \ Stale
          /\ Remove(S) /\ artifacts' = Forget(artifacts, S)
          /\ later' = Without(S)
    /\ UNCHANGED <<leases, staging, pendingBytes, nextAccess, used, now,
                   restarts>>

-------------------------------------------------------------------------------
Tick ==
    /\ now < MaxTime /\ now' = now + 1
    /\ UNCHANGED <<leases, artifacts, staging, final, pendingBytes,
                   finalizedBytes, nextAccess, used, later, faults, restarts>>

(* A new store knows nothing and sweeps the old files.                     *)
Restart ==
    /\ restarts > 0 /\ restarts' = restarts - 1
    /\ leases' = Nobody /\ artifacts' = Nobody
    /\ pendingBytes' = 0 /\ finalizedBytes' = 0 /\ nextAccess' = 0
    /\ later' = {}
    /\ staging' = Forget(staging, Old(staging))
    /\ final' = Forget(final, Old(final))
    /\ UNCHANGED <<used, now, faults>>

Next ==
    \/ \E i \in Ids : \/ CreateLease(i) \/ Expire(i) \/ AppendChunk(i)
                      \/ Finalize(i) \/ Abort(i) \/ Lookup(i) \/ Consume(i)
    \/ Tick \/ Restart

Spec == Init /\ [][Next]_vars

-------------------------------------------------------------------------------
TypeOK ==
    /\ leases \in [Ids -> Leases \cup {None}]
    /\ artifacts \in [Ids -> Entries \cup {None}]
    /\ staging \in [Ids -> Contents \cup {None}]
    /\ final \in [Ids -> Contents \cup {None}]
    /\ used \subseteq Ids /\ later \subseteq Ids \X Ids
    /\ nextAccess \in Nat /\ now \in Nat
    /\ IsFiniteSet(Registered)

(* A published artifact is what its client has been acknowledged, chunk by *)
(* chunk, and has the digest it was given: no write that fails half way,   *)
(* and no retry after one, gets into it (artifact.rs:561 and 640).         *)
PublishedIsWhole ==
    \A i \in Registered : final[i] # None => final[i].content = artifacts[i].hash

(* The counters agree with what they count, whatever fails on the way, and *)
(* the budgets hold (artifact.rs:665 and 820).                             *)
AccountsAreExact ==
    /\ pendingBytes = Reserved(Leased) /\ pendingBytes <= MaxPending
    /\ finalizedBytes = Finalized(Registered) /\ finalizedBytes <= MaxTotal

(* The numbers of the uses keep their order, when they are renumbered too: *)
(* what was looked up last is evicted last (artifact.rs:1029).             *)
UsesAreOrdered ==
    /\ \A i, j \in Registered : i # j => <<i, j>> \in later \/ <<j, i>> \in later
    /\ \A u \in later : /\ {u[1], u[2]} \subseteq Registered
                         /\ artifacts[u[1]].access < artifacts[u[2]].access

(* An artifact that is listed and not expired has its file.                *)
ListedIsOnDisk == \A i \in Registered \ Stale : final[i] # None
===============================================================================
