---------------------------- MODULE ThreadClaims ----------------------------
(* Path claims of a thread group (mu/threads/coordinator.py): a thread claims *)
(* paths before it edits them, gives them back or hands them over; a refused  *)
(* request leaves a conflict, which a human may override.  Each operation is  *)
(* one immediate transaction of the journal.                                  *)
(*                                                                            *)
(* `claims' holds the rows that are not released, `conflicts' the open ones.  *)
(* A claim's row keeps the id of the turn that made it; a turn that is over   *)
(* is no turn, for no turn ever has its id again.                             *)
EXTENDS Integers, Sequences, FiniteSets

CONSTANTS
    Threads,        \* thread ids of the group
    Procs,          \* processes that run turns: the GUI, terminals, containers
    Paths,          \* paths that are claimed
    Below,          \* pairs <<p, q>>: p is q or lies below it
    ClaimIds,       \* ids of claims
    NoTurn

Turns == Procs \X Threads

ASSUME NoTurnAssumption == NoTurn \notin Turns

VARIABLES members, claims, conflicts

claimVars == <<members, claims, conflicts>>

\* paths_overlap()
Overlap(p, q) == <<p, q>> \in Below \/ <<q, p>> \in Below

\* Paths form a tree: two that one lies below are one below the other.
ASSUME PathAssumption ==
    /\ Below \subseteq Paths \X Paths
    /\ \A p \in Paths : <<p, p>> \in Below
    /\ \A f, p, q \in Paths : <<f, p>> \in Below /\ <<f, q>> \in Below => Overlap(p, q)

Claims == [path : Paths, owner : Threads, turn : Turns \cup {NoTurn},
           expired : BOOLEAN]

Conflicts == [path : Paths, owner : Threads, requester : Threads, claim : ClaimIds]

ClaimInit ==
    /\ members = Threads
    /\ claims = [i \in {} |-> {}]
    /\ conflicts = {}

-----------------------------------------------------------------------------
Owned(t) == {i \in DOMAIN claims : claims[i].owner = t}

\* Mutant: whoever owns them.
Touching_AnyOwner(t, ps) ==
    {i \in DOMAIN claims : \E p \in ps : Overlap(claims[i].path, p)}

Touching(t, ps) ==
    {i \in Owned(t) : \E p \in ps : Overlap(claims[i].path, p)}

Keep(ids) == [i \in ids |-> claims[i]]

\* _active_claims_conn(): what has expired is released first.
Active == {i \in DOMAIN claims : ~claims[i].expired}

\* Claims of peers that are in the way of t claiming p.
Blockers(t, p) ==
    {i \in Active : claims[i].owner # t /\ Overlap(p, claims[i].path)}

Unused == ClaimIds \ (DOMAIN claims \cup {c.claim : c \in conflicts})

\* Mutant: an expired claim is passed over, but not released.
Granted_NotSwept(t, ps, turn) ==
    LET new == {p \in ps : \A i \in Owned(t) \cap Active : ~Overlap(p, claims[i].path)}
    IN  /\ t \in members
        /\ \A p \in ps : Blockers(t, p) = {}
        /\ \E id \in [new -> Unused] :
              /\ \A p, q \in new : id[p] = id[q] => p = q
              /\ claims' = [i \in DOMAIN claims \cup {id[p] : p \in new} |->
                    IF i \in DOMAIN claims THEN claims[i]
                    ELSE [path |-> CHOOSE p \in new : id[p] = i,
                          owner |-> t, turn |-> turn, expired |-> FALSE]]
        /\ UNCHANGED <<members, conflicts>>

\* A request is granted as a whole.  A path that overlaps a claim t has is
\* covered by that one, which runs on; each of the others gets a row.
Granted(t, ps, turn) ==
    LET new == {p \in ps : \A i \in Owned(t) \cap Active : ~Overlap(p, claims[i].path)}
    IN  /\ t \in members
        /\ \A p \in ps : Blockers(t, p) = {}
        /\ \E id \in [new -> Unused] :
              /\ \A p, q \in new : id[p] = id[q] => p = q
              /\ claims' = [i \in Active \cup {id[p] : p \in new} |->
                    IF i \in Active THEN claims[i]
                    ELSE [path |-> CHOOSE p \in new : id[p] = i,
                          owner |-> t, turn |-> turn, expired |-> FALSE]]
        /\ UNCHANGED <<members, conflicts>>

\* The paths of a request that peers are in the way of.
Disputed(t, ps) == {p \in ps : Blockers(t, p) # {}}

\* The conflicts of a refused request that are not open yet: `by' is the claim
\* found in the way of each disputed path.
NewConflicts(t, by) ==
    {[path |-> p, owner |-> claims[by[p]].owner, requester |-> t, claim |-> by[p]] :
        p \in DOMAIN by} \ conflicts

\* A request is refused as a whole: one open conflict for each disputed path.
Refused(t, ps, by) ==
    /\ t \in members /\ Disputed(t, ps) # {}
    /\ \A p \in Disputed(t, ps) : by[p] \in Blockers(t, p)
    /\ claims' = Keep(Active)
    /\ conflicts' = conflicts \cup NewConflicts(t, by)
    /\ UNCHANGED members

\* release_paths()
Release(ids) ==
    /\ claims' = Keep(DOMAIN claims \ ids)
    /\ UNCHANGED <<members, conflicts>>

\* handoff_paths(): the claims keep the turn that made them.
HandOff(t, to, ps) ==
    /\ to \in members /\ Touching(t, ps) # {}
    /\ claims' = [i \in DOMAIN claims |->
          IF i \in Touching(t, ps)
          THEN [claims[i] EXCEPT !.owner = to, !.expired = FALSE] ELSE claims[i]]
    /\ UNCHANGED <<members, conflicts>>

\* override_conflict(): whoever owns the claim by now loses it.
Override(c) ==
    /\ c \in conflicts
    /\ conflicts' = conflicts \ {c}
    /\ claims' = [i \in DOMAIN claims |->
          IF i = c.claim
          THEN [claims[i] EXCEPT !.owner = c.requester, !.turn = NoTurn,
                                 !.expired = FALSE]
          ELSE claims[i]]
    /\ UNCHANGED members

\* Mutant: the claims of a deleted thread stay.
Forget_Claims(t) ==
    /\ members' = members \ {t}
    /\ conflicts' = {c \in conflicts : t \notin {c.owner, c.requester}}
    /\ UNCHANGED claims

\* delete_thread(), as far as claims go.
Forget(t) ==
    /\ members' = members \ {t}
    /\ claims' = Keep(DOMAIN claims \ Owned(t))
    /\ conflicts' = {c \in conflicts : t \notin {c.owner, c.requester}}

\* Its hour is over.
Expire(i) ==
    /\ i \in Active
    /\ claims' = [claims EXCEPT ![i].expired = TRUE]
    /\ UNCHANGED <<members, conflicts>>

\* The claims when the turn `over' has ended and given back those in `ids'.
Ended(ids, over) ==
    [i \in DOMAIN claims \ ids |->
        IF claims[i].turn = over THEN [claims[i] EXCEPT !.turn = NoTurn]
        ELSE claims[i]]

ClaimTypeOK ==
    /\ members \subseteq Threads
    /\ DOMAIN claims \subseteq ClaimIds
    /\ claims \in [DOMAIN claims -> Claims]
    /\ conflicts \subseteq Conflicts

\* No two threads hold claims on the same file.
ClaimsExclusive ==
    \A i, j \in DOMAIN claims :
        claims[i].owner # claims[j].owner => ~Overlap(claims[i].path, claims[j].path)

\* Whoever holds a claim, or may be given one by an override, is a member.
OwnersAreMembers ==
    /\ \A i \in DOMAIN claims : claims[i].owner \in members
    /\ \A c \in conflicts : c.requester \in members
=============================================================================
