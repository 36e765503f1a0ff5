-------------------------- MODULE ThreadTurns_proofs --------------------------
(* A thread group, for every number of threads and processes, every tree of   *)
(* paths and every interleaving of turns: claims and writes are exclusive,    *)
(* claims belong to members, a thread has one turn at a time, and no wake is  *)
(* left for a message that was read.                                          *)
EXTENDS ThreadTurns, FiniteSetTheorems, SequenceTheorems, TLAPS

\* No request names both a path and another one below it.
Unnested(rs) ==
    \A ps \in rs : \A p, q \in ps : p # q => ~Overlap(p, q)

\* ClaimsExclusive is not inductive: an override or a hand-over moves a claim
\* to a thread whose other claims must not touch those of the old owner, so no
\* two claims may touch at all.  This is the only part of what follows that
\* needs unnested requests.
Apart ==
    \A i, j \in DOMAIN claims :
        i # j => ~Overlap(claims[i].path, claims[j].path)

ClaimInv == ClaimTypeOK /\ OwnersAreMembers

\* What a step does to the claims that makes no new ones.
Steady == ClaimInv' /\ (Apart => Apart')

-----------------------------------------------------------------------------
(* The operations.                                                            *)

\* Claims that go, or change in all but their path, leave the others apart.
LEMMA SamePathsApart ==
    ASSUME DOMAIN claims' \subseteq DOMAIN claims,
           \A i \in DOMAIN claims' : claims'[i].path = claims[i].path
    PROVE  Apart => Apart'
BY DEF Apart, Overlap

LEMMA KeepInv ==
    ASSUME ClaimInv, NEW ids \in SUBSET DOMAIN claims, claims' = Keep(ids),
           members' = members, conflicts' = conflicts
    PROVE  Steady
<1>1. DOMAIN claims' = ids /\ \A i \in ids : claims'[i] = claims[i]
  BY DEF Keep
<1>2. Apart => Apart'
  BY <1>1, SamePathsApart DEF ClaimInv
<1>3. ClaimTypeOK'
  BY <1>1 DEF ClaimInv, ClaimTypeOK, Keep
<1>4. OwnersAreMembers'
  BY <1>1 DEF ClaimInv, OwnersAreMembers
<1> QED  BY <1>2, <1>3, <1>4 DEF ClaimInv, Steady

LEMMA GrantedInv ==
    ASSUME ClaimInv, NEW t \in Threads, NEW ps \in SUBSET Paths,
           NEW over \in Turns, Granted(t, ps, over)
    PROVE  ClaimInv' /\ (Apart /\ Unnested({ps}) => Apart')
<1> DEFINE new == {p \in ps : \A i \in Owned(t) \cap Active :
                                 ~Overlap(p, claims[i].path)}
<1>1. PICK id \in [new -> Unused] :
         /\ \A p, q \in new : id[p] = id[q] => p = q
         /\ claims' = [i \in Active \cup {id[p] : p \in new} |->
                IF i \in Active THEN claims[i]
                ELSE [path |-> CHOOSE p \in new : id[p] = i,
                      owner |-> t, turn |-> over, expired |-> FALSE]]
  BY DEF Granted
<1>2. t \in members /\ members' = members /\ conflicts' = conflicts
  BY DEF Granted
<1>3. \A p \in new : id[p] \in ClaimIds /\ id[p] \notin DOMAIN claims
  BY <1>1 DEF Unused
<1>4. DOMAIN claims' = Active \cup {id[p] : p \in new}
  BY <1>1
<1>5. \A i \in Active : i \in DOMAIN claims /\ claims'[i] = claims[i]
  BY <1>1 DEF Active
<1>6. ASSUME NEW p \in new
      PROVE  /\ claims'[id[p]] \in Claims
             /\ claims'[id[p]].path = p
             /\ claims'[id[p]].owner = t
  <2>1. (CHOOSE q \in new : id[q] = id[p]) = p
    BY <1>1
  <2>2. id[p] \notin Active /\ p \in Paths
    BY <1>3 DEF Active
  <2>3. claims'[id[p]] = [path |-> p, owner |-> t, turn |-> over, expired |-> FALSE]
    BY <1>1, <2>1, <2>2
  <2> QED  BY <2>2, <2>3 DEF Claims
<1>7. ASSUME NEW i \in DOMAIN claims'
      PROVE  \/ i \in Active
             \/ \E p \in new : i = id[p]
  BY <1>4
<1>8. ClaimTypeOK'
  <2>1. \A i \in Active : claims'[i] \in Claims
    BY <1>5 DEF ClaimInv, ClaimTypeOK
  <2>2. \A p \in new : claims'[id[p]] \in Claims
    BY <1>6
  <2>3. \A i \in DOMAIN claims' : claims'[i] \in Claims
    BY <1>7, <2>1, <2>2
  <2>4. claims' \in [DOMAIN claims' -> Claims]
    BY <1>1, <1>4, <2>3
  <2>5. DOMAIN claims' \subseteq ClaimIds
    BY <1>3, <1>5, <1>7 DEF ClaimInv, ClaimTypeOK
  <2> QED  BY <1>2, <2>4, <2>5 DEF ClaimInv, ClaimTypeOK
<1>9. OwnersAreMembers'
  BY <1>2, <1>5, <1>6, <1>7 DEF ClaimInv, OwnersAreMembers
<1>10. ASSUME Apart, Unnested({ps})
       PROVE  Apart'
  <2> SUFFICES ASSUME NEW i \in DOMAIN claims', NEW j \in DOMAIN claims', i # j
               PROVE  ~Overlap(claims'[i].path, claims'[j].path)
    BY DEF Apart, Overlap
  <2>1. ASSUME NEW k \in Active, NEW p \in new
        PROVE  ~Overlap(p, claims[k].path) /\ ~Overlap(claims[k].path, p)
    <3>1. CASE claims[k].owner = t
      BY <2>1, <3>1 DEF Owned, Active, Overlap
    <3>2. CASE claims[k].owner # t
      <4>1. Blockers(t, p) = {}
        BY DEF Granted
      <4> QED  BY <2>1, <3>2, <4>1 DEF Blockers, Overlap
    <3> QED  BY <3>1, <3>2
  <2> HIDE DEF new
  <2>2. CASE i \in Active /\ j \in Active
    BY <1>5, <1>10, <2>2 DEF Apart
  <2>3. CASE i \in Active /\ j \notin Active
    BY <1>5, <1>6, <1>7, <2>1, <2>3
  <2>4. CASE i \notin Active /\ j \in Active
    BY <1>5, <1>6, <1>7, <2>1, <2>4
  <2>5. CASE i \notin Active /\ j \notin Active
    <3>1. PICK p \in new, q \in new : i = id[p] /\ j = id[q]
      BY <1>7, <2>5
    <3>2. p # q /\ p \in ps /\ q \in ps
      BY <3>1 DEF new
    <3>3. ~Overlap(p, q)
      BY <1>10, <3>2 DEF Unnested
    <3> QED  BY <1>6, <3>1, <3>3
  <2> QED  BY <2>2, <2>3, <2>4, <2>5
<1> QED  BY <1>8, <1>9, <1>10 DEF ClaimInv

LEMMA RefusedInv ==
    ASSUME ClaimInv, NEW t \in Threads, NEW ps \in SUBSET Paths,
           NEW by \in [Disputed(t, ps) -> Active], Refused(t, ps, by)
    PROVE  Steady
<1>1. t \in members /\ members' = members /\ claims' = Keep(Active)
      /\ conflicts' = conflicts \cup NewConflicts(t, by)
  BY DEF Refused
<1>2. \A c \in NewConflicts(t, by) : c \in Conflicts /\ c.requester = t
  <2> SUFFICES ASSUME NEW p \in Disputed(t, ps)
               PROVE  [path |-> p, owner |-> claims[by[p]].owner,
                       requester |-> t, claim |-> by[p]] \in Conflicts
    BY DEF NewConflicts
  <2>1. by[p] \in DOMAIN claims /\ p \in Paths
    BY DEF Active, Disputed
  <2> QED  BY <2>1 DEF ClaimInv, ClaimTypeOK, Claims, Conflicts
<1>3. DOMAIN claims' = Active /\ \A i \in Active : claims'[i] = claims[i]
  BY <1>1 DEF Keep
<1>4. Apart => Apart'
  BY <1>3, SamePathsApart DEF ClaimInv, Active
<1>5. ClaimTypeOK'
  BY <1>1, <1>2, <1>3 DEF ClaimInv, ClaimTypeOK, Keep, Active
<1>6. OwnersAreMembers'
  BY <1>1, <1>2, <1>3 DEF ClaimInv, OwnersAreMembers, Active
<1> QED  BY <1>4, <1>5, <1>6 DEF ClaimInv, Steady

LEMMA HandOffInv ==
    ASSUME ClaimInv, NEW t \in Threads, NEW to, NEW ps, HandOff(t, to, ps)
    PROVE  Steady
<1>1. to \in members /\ members' = members /\ conflicts' = conflicts
  BY DEF HandOff
<1>2. DOMAIN claims' = DOMAIN claims
  BY DEF HandOff
<1>3. ASSUME NEW i \in DOMAIN claims
      PROVE  /\ claims'[i] \in Claims
             /\ claims'[i].path = claims[i].path
             /\ claims'[i].owner \in {to, claims[i].owner}
  <2>1. claims[i] \in Claims /\ to \in Threads
    BY <1>1 DEF ClaimInv, ClaimTypeOK
  <2> QED  BY <2>1 DEF HandOff, Claims
<1>4. claims' \in [DOMAIN claims' -> Claims]
  BY <1>2, <1>3 DEF HandOff
<1>5. Apart => Apart'
  BY <1>2, <1>3, SamePathsApart DEF ClaimInv
<1> QED  BY <1>1, <1>2, <1>3, <1>4, <1>5 DEF ClaimInv, ClaimTypeOK, OwnersAreMembers, Steady

LEMMA OverrideInv ==
    ASSUME ClaimInv, NEW c, Override(c)
    PROVE  Steady
<1>1. c \in conflicts /\ members' = members /\ conflicts' = conflicts \ {c}
  BY DEF Override
<1>2. DOMAIN claims' = DOMAIN claims
  BY DEF Override
<1>3. ASSUME NEW i \in DOMAIN claims
      PROVE  /\ claims'[i] \in Claims
             /\ claims'[i].path = claims[i].path
             /\ claims'[i].owner \in {c.requester, claims[i].owner}
  <2>1. claims[i] \in Claims /\ c.requester \in Threads
    BY <1>1 DEF ClaimInv, ClaimTypeOK, Conflicts
  <2> QED  BY <2>1 DEF Override, Claims
<1>4. claims' \in [DOMAIN claims' -> Claims]
  BY <1>2, <1>3 DEF Override
<1>5. Apart => Apart'
  BY <1>2, <1>3, SamePathsApart DEF ClaimInv
<1>6. c.requester \in members
  BY <1>1 DEF ClaimInv, OwnersAreMembers
<1> QED  BY <1>1, <1>2, <1>3, <1>4, <1>5, <1>6 DEF ClaimInv, ClaimTypeOK, OwnersAreMembers, Steady

LEMMA ForgetInv ==
    ASSUME ClaimInv, NEW t, Forget(t)
    PROVE  Steady
<1>1. /\ members' = members \ {t}
      /\ conflicts' \subseteq conflicts
      /\ \A c \in conflicts' : c.requester # t
      /\ claims' = Keep(DOMAIN claims \ Owned(t))
  BY DEF Forget
<1>2. /\ DOMAIN claims' = DOMAIN claims \ Owned(t)
      /\ \A i \in DOMAIN claims' : claims'[i] = claims[i]
  BY <1>1 DEF Keep
<1>3. Apart => Apart'
  BY <1>2, SamePathsApart DEF ClaimInv
<1>4. ClaimTypeOK'
  BY <1>1, <1>2 DEF ClaimInv, ClaimTypeOK, Keep
<1>5. OwnersAreMembers'
  BY <1>1, <1>2 DEF ClaimInv, OwnersAreMembers, Owned
<1> QED  BY <1>3, <1>4, <1>5 DEF ClaimInv, Steady

\* A claim's turn is over, or its hour.
LEMMA RowsInv ==
    ASSUME ClaimInv, members' = members, conflicts' = conflicts,
           claims' \in [DOMAIN claims' -> Claims],
           DOMAIN claims' \subseteq DOMAIN claims,
           \A i \in DOMAIN claims' : /\ claims'[i].path = claims[i].path
                                     /\ claims'[i].owner = claims[i].owner
    PROVE  Steady
<1>1. Apart => Apart'
  BY SamePathsApart DEF ClaimInv
<1> QED  BY <1>1 DEF ClaimInv, ClaimTypeOK, OwnersAreMembers, Steady

LEMMA ExpireInv ==
    ASSUME ClaimInv, NEW i, Expire(i)
    PROVE  Steady
<1>1. i \in DOMAIN claims /\ claims' = [claims EXCEPT ![i].expired = TRUE]
      /\ members' = members /\ conflicts' = conflicts
  BY DEF Expire, Active
<1>2. claims \in [DOMAIN claims -> Claims]
  BY DEF ClaimInv, ClaimTypeOK
<1>3. claims' \in [DOMAIN claims -> Claims] /\ DOMAIN claims' = DOMAIN claims
  BY <1>1, <1>2 DEF Claims
<1>4. \A j \in DOMAIN claims' : /\ claims'[j].path = claims[j].path
                                /\ claims'[j].owner = claims[j].owner
  BY <1>1, <1>2 DEF Claims
<1> QED  BY <1>1, <1>3, <1>4, RowsInv DEF Steady

-----------------------------------------------------------------------------
(* The steps.                                                                 *)

LEMMA EndInv ==
    ASSUME ClaimInv, NEW p \in Procs, NEW t \in Threads, End(p, t)
    PROVE  Steady
<1>1. claims' = Ended(Returned(p, t), <<p, t>>)
      /\ members' = members /\ conflicts' = conflicts
  BY DEF End
<1>2. claims \in [DOMAIN claims -> Claims]
  BY DEF ClaimInv, ClaimTypeOK
<1>3. DOMAIN claims' = DOMAIN claims \ Returned(p, t)
  BY <1>1 DEF Ended
<1>4. \A i \in DOMAIN claims' :
         /\ claims'[i] \in Claims
         /\ claims'[i].path = claims[i].path
         /\ claims'[i].owner = claims[i].owner
  BY <1>1, <1>2, <1>3 DEF Ended, Claims
<1>5. claims' \in [DOMAIN claims' -> Claims]
  BY <1>1, <1>3, <1>4 DEF Ended
<1> QED  BY <1>1, <1>3, <1>4, <1>5, RowsInv DEF Steady

LEMMA CrashInv ==
    ASSUME ClaimInv, NEW p \in Procs, Crash(p)
    PROVE  Steady
<1> DEFINE after == [i \in DOMAIN claims |->
          IF claims[i].turn # NoTurn /\ claims[i].turn[1] = p
          THEN [claims[i] EXCEPT !.turn = NoTurn] ELSE claims[i]]
<1>1. claims' = after /\ members' = members /\ conflicts' = conflicts
  BY DEF Crash
<1>2. claims \in [DOMAIN claims -> Claims]
  BY DEF ClaimInv, ClaimTypeOK
<1>3. \A i \in DOMAIN claims :
         /\ after[i] \in Claims
         /\ after[i].path = claims[i].path
         /\ after[i].owner = claims[i].owner
  BY <1>2 DEF Claims
<1>4. after \in [DOMAIN claims -> Claims] /\ DOMAIN after = DOMAIN claims
  BY <1>3
<1> HIDE DEF after
<1> QED  BY <1>1, <1>3, <1>4, RowsInv DEF Steady

\* Steps that leave the claims alone.
LEMMA OtherStepInv ==
    ASSUME ClaimInv, UNCHANGED claimVars
    PROVE  Steady
BY DEF Steady, ClaimInv, ClaimTypeOK, OwnersAreMembers, Apart, Overlap, claimVars

LEMMA HandlerStepInv ==
    ASSUME ClaimInv, NEW h \in handlers,
           \/ Check(h) \/ CheckFails(h) \/ WakeTurn(h)
           \/ FinishHandler(h) \/ RequeueHandler(h)
    PROVE  Steady
<1>1. UNCHANGED claimVars
  BY DEF Check, CheckFails, WakeTurn, FinishHandler, RequeueHandler,
         Begin, HandlerFrame
<1> QED  BY <1>1, OtherStepInv

\* The steps that make claims.
LEMMA ClaimStepInv ==
    ASSUME ClaimInv, NEW p \in Procs, NEW t \in Threads,
           GuardedWrite(p, t) \/ ClaimPaths(p, t)
    PROVE  ClaimInv' /\ (Apart /\ Unnested(Requests \cup Edits) => Apart')
<1>1. \A ps \in Requests \cup Edits :
         ps \in SUBSET Paths /\ (Unnested(Requests \cup Edits) => Unnested({ps}))
  BY TurnAssumption DEF Unnested
<1>2. <<p, t>> \in Turns
  BY DEF Turns
<1>3. PICK ps \in Requests \cup Edits :
         \/ Granted(t, ps, <<p, t>>)
         \/ \E by \in [Disputed(t, ps) -> Active] : Refused(t, ps, by)
  BY DEF GuardedWrite, ClaimPaths
<1>4. CASE Granted(t, ps, <<p, t>>)
  BY <1>1, <1>2, <1>4, GrantedInv
<1>5. CASE \E by \in [Disputed(t, ps) -> Active] : Refused(t, ps, by)
  BY <1>1, <1>5, RefusedInv DEF Steady
<1> QED  BY <1>3, <1>4, <1>5

LEMMA ToolStepInv ==
    ASSUME ClaimInv, NEW p \in Procs, NEW t \in Threads,
           ReleasePaths(p, t) \/ HandOffPaths(p, t) \/ OverrideConflict(p, t)
    PROVE  Steady
<1>1. CASE ReleasePaths(p, t)
  <2>1. PICK ids : Release(ids)
    BY <1>1 DEF ReleasePaths
  <2>2. claims' = Keep(DOMAIN claims \ ids) /\ members' = members
        /\ conflicts' = conflicts
    BY <2>1 DEF Release
  <2> QED  BY <2>2, KeepInv
<1>2. CASE HandOffPaths(p, t)
  BY <1>2, HandOffInv DEF HandOffPaths
<1>3. CASE OverrideConflict(p, t)
  BY <1>3, OverrideInv DEF OverrideConflict
<1> QED  BY <1>1, <1>2, <1>3

LEMMA StepInv ==
    ASSUME ClaimInv, [Next]_vars
    PROVE  ClaimInv' /\ (Apart /\ Unnested(Requests \cup Edits) => Apart')
<1>1. CASE UNCHANGED vars
  BY <1>1, OtherStepInv DEF vars, Steady
<1>2. ASSUME NEW p \in Procs, NEW t \in Threads,
             \/ UserTurn(p, t) \/ Iterate(p, t) \/ Read(p, t)
             \/ Written(p, t) \/ SendMessage(p, t)
             \/ AcknowledgeMessage(p, t) \/ Renew(p, t)
      PROVE  Steady
  <2>1. UNCHANGED claimVars
    BY <1>2 DEF UserTurn, Begin, Iterate, Read, Written, SendMessage,
                AcknowledgeMessage, Renew
  <2> QED  BY <2>1, OtherStepInv
<1>3. ASSUME NEW p \in Procs, Schedule(p) \/ Restart(p)
      PROVE  Steady
  <2>1. UNCHANGED claimVars
    BY <1>3 DEF Schedule, Restart, HandlerFrame
  <2> QED  BY <2>1, OtherStepInv
<1>4. ASSUME NEW k \in DOMAIN msgs, WakeAges(k)
      PROVE  Steady
  BY <1>4, OtherStepInv DEF WakeAges
<1>5. ASSUME NEW t \in Threads, LeaseLapses(t)
      PROVE  Steady
  BY <1>5, OtherStepInv DEF LeaseLapses
<1>6. ASSUME NEW t \in Threads, DeleteThread(t)
      PROVE  Steady
  BY <1>6, ForgetInv DEF DeleteThread
<1>7. ASSUME NEW i \in DOMAIN claims, ClaimExpires(i)
      PROVE  Steady
  BY <1>7, ExpireInv DEF ClaimExpires
<1> QED  BY <1>1, <1>2, <1>3, <1>4, <1>5, <1>6, <1>7, EndInv, CrashInv,
            ClaimStepInv, ToolStepInv, HandlerStepInv DEF Next, Steady

LEMMA ClaimsInvariant == Spec => []ClaimInv
<1>1. Init => ClaimInv
  BY DEF Init, ClaimInit, ClaimInv, ClaimTypeOK, OwnersAreMembers
<1>2. ClaimInv /\ [Next]_vars => ClaimInv'
  BY StepInv
<1> QED  BY <1>1, <1>2, PTL DEF Spec

LEMMA ApartInvariant ==
    ASSUME Unnested(Requests \cup Edits)
    PROVE  Spec => []Apart
<1>1. Init => Apart
  BY DEF Init, ClaimInit, Apart
<1>2. ClaimInv /\ Apart /\ [Next]_vars => Apart'
  BY StepInv
<1> QED  BY <1>1, <1>2, ClaimsInvariant, PTL DEF Spec

\* As long as no request names a path and another one below it, no two threads
\* hold claims on the same file (coordinator.py, claim_paths(), handoff_paths(),
\* override_conflict()).
THEOREM NeverSharedClaim ==
    ASSUME Unnested(Requests \cup Edits)
    PROVE  Spec => []ClaimsExclusive
<1>1. Apart => ClaimsExclusive
  BY DEF Apart, ClaimsExclusive
<1> QED  BY <1>1, ApartInvariant, PTL

\* No claim blocks the group for a thread that is not there (delete_thread()),
\* and no override gives one to it, whatever is requested.
THEOREM ClaimsOfMembers == Spec => []OwnersAreMembers
<1>1. ClaimInv => OwnersAreMembers
  BY DEF ClaimInv
<1> QED  BY <1>1, ClaimsInvariant, PTL
-----------------------------------------------------------------------------
(* Messages and their wakes.                                                  *)

\* A wake that was claimed long ago is still claimed, one that is owed was not
\* delivered, and nobody who is not there is to be woken.  WakeIsOwed is not
\* inductive without the first: what is taken back becomes pending again.
RowOK(m) ==
    /\ m \in Messages
    /\ m.old => m.wake = "claimed"
    /\ m.wake \in LiveWake => ~m.delivered
    /\ m.to \notin members => m.wake = "none"

MailInv == msgs \in Seq(Messages) /\ \A k \in DOMAIN msgs : RowOK(msgs[k])

LEMMA MailRows ==
    ASSUME MailInv
    PROVE  /\ Len(msgs) \in Nat /\ DOMAIN msgs = 1..Len(msgs)
           /\ msgs \in [DOMAIN msgs -> Messages]
           /\ \A k \in DOMAIN msgs : RowOK(msgs[k])
BY LenProperties DEF MailInv

\* Each message is replaced.
LEMMA ReplacedInv ==
    ASSUME MailInv, NEW f, f = [k \in DOMAIN msgs |-> f[k]], msgs' = f,
           members' = members, \A k \in DOMAIN msgs : RowOK(f[k])
    PROVE  MailInv'
<1>1. Len(msgs) \in Nat /\ f \in [1..Len(msgs) -> Messages]
  BY MailRows DEF RowOK
<1>2. f \in Seq(Messages)
  BY <1>1
<1>3. DOMAIN msgs' = DOMAIN msgs /\ \A k \in DOMAIN msgs : RowOK(f[k])'
  BY DEF RowOK
<1> QED  BY <1>2, <1>3 DEF MailInv

\* Messages are added.
LEMMA AddedInv ==
    ASSUME MailInv, NEW s \in Seq(Messages), msgs' = msgs \o s,
           members' = members, \A k \in DOMAIN s : RowOK(s[k])
    PROVE  MailInv'
<1>1. /\ msgs' \in Seq(Messages)
      /\ Len(msgs') = Len(msgs) + Len(s)
      /\ \A k \in 1..Len(msgs) + Len(s) :
            msgs'[k] = IF k <= Len(msgs) THEN msgs[k] ELSE s[k - Len(msgs)]
  BY ConcatProperties DEF MailInv
<1>2. DOMAIN s = 1..Len(s) /\ Len(s) \in Nat /\ DOMAIN msgs' = 1..Len(msgs')
  BY <1>1, LenProperties
<1>3. ASSUME NEW k \in DOMAIN msgs'
      PROVE  RowOK(msgs'[k])
  <2>1. CASE k <= Len(msgs)
    BY <1>1, <1>2, <2>1, MailRows
  <2>2. CASE ~(k <= Len(msgs))
    <3>1. k - Len(msgs) \in DOMAIN s
      BY <1>1, <1>2, <2>2, MailRows
    <3> QED  BY <1>1, <1>2, <2>2, <3>1
  <2> QED  BY <2>1, <2>2
<1>4. \A k \in DOMAIN msgs' : RowOK(msgs[k])'
  BY <1>3 DEF RowOK
<1> QED  BY <1>1, <1>4 DEF MailInv

LEMMA MessageOK ==
    ASSUME NEW t \in Threads, NEW u \in Threads \cap members, NEW ms
    PROVE  /\ RowOK(Message(t, u, ms))
           /\ RowOK([Message(t, u, ms) EXCEPT !.wake = "none"])
BY DEF RowOK, Message, Messages, WAKE_STATES, LiveWake

LEMMA DeliveredInv ==
    ASSUME MailInv, NEW ids, msgs' = Delivered(ids), members' = members
    PROVE  MailInv'
<1>1. \A k \in DOMAIN msgs : RowOK(Delivered(ids)[k])
  BY MailRows DEF RowOK, Delivered, Messages, WAKE_STATES, LiveWake
<1>2. Delivered(ids) = [k \in DOMAIN msgs |-> Delivered(ids)[k]]
  BY DEF Delivered
<1> QED  BY <1>1, <1>2, ReplacedInv

LEMMA AcknowledgeInv ==
    ASSUME MailInv, NEW k \in DOMAIN msgs, Acknowledge(k), members' = members
    PROVE  MailInv'
<1> DEFINE f == [msgs EXCEPT ![k].acked = TRUE]
<1>1. \A j \in DOMAIN msgs : RowOK(f[j])
  BY MailRows DEF RowOK, Messages
<1>2. f = [j \in DOMAIN msgs |-> f[j]] /\ msgs' = f
  BY MailRows DEF Acknowledge
<1> HIDE DEF f
<1> QED  BY <1>1, <1>2, ReplacedInv

\* A deleted thread's wakes go with it.
LEMMA ForgetMailInv ==
    ASSUME MailInv, NEW t, Forget(t), ForgetMail(t)
    PROVE  MailInv'
<1> DEFINE f == [k \in DOMAIN msgs |->
          [msgs[k] EXCEPT !.gone = @ \/ t \in {msgs[k].from, msgs[k].to},
                          !.wake = IF msgs[k].to = t THEN "none" ELSE @,
                          !.old = IF msgs[k].to = t THEN FALSE ELSE @]]
<1>1. msgs' = f /\ members' = members \ {t}
  BY DEF ForgetMail, Forget
<1>2. ASSUME NEW k \in DOMAIN msgs
      PROVE  /\ f[k] \in Messages
             /\ f[k].old => f[k].wake = "claimed"
             /\ f[k].wake \in LiveWake => ~f[k].delivered
             /\ f[k].to \notin members \ {t} => f[k].wake = "none"
  <2>1. RowOK(msgs[k])
    BY MailRows
  <2> QED  BY <2>1 DEF RowOK, Messages, WAKE_STATES, LiveWake
<1>3. f \in [1..Len(msgs) -> Messages] /\ Len(msgs) \in Nat
  BY <1>2, MailRows
<1>4. f \in Seq(Messages) /\ DOMAIN f = DOMAIN msgs
  <2>1. DOMAIN f = DOMAIN msgs
    OBVIOUS
  <2> HIDE DEF f
  <2> QED  BY <1>3, <2>1
<1> HIDE DEF f
<1>5. \A k \in DOMAIN msgs' : RowOK(msgs[k])'
  BY <1>1, <1>2, <1>4 DEF RowOK
<1> QED  BY <1>1, <1>4, <1>5 DEF MailInv

LEMMA ClaimWakeInv ==
    ASSUME MailInv, NEW k \in DOMAIN msgs, ClaimWake(k), members' = members
    PROVE  MailInv'
<1>1. \A j \in DOMAIN msgs : RowOK(Recovered[j])
  BY MailRows DEF RowOK, Recovered, Messages, WAKE_STATES, LiveWake
<1>2. Recovered = [j \in DOMAIN msgs |-> Recovered[j]]
  BY DEF Recovered
<1> DEFINE f == [Recovered EXCEPT ![k].wake = "claimed"]
<1>3. msgs' = f /\ Recovered[k].wake = "pending"
  BY DEF ClaimWake, Claimable
<1> HIDE DEF Recovered
<1>4. f = [j \in DOMAIN msgs |-> f[j]]
  BY <1>2
<1>5. ASSUME NEW j \in DOMAIN msgs
      PROVE  RowOK(f[j])
  <2>1. CASE j = k
    <3>1. f[j] = [Recovered[j] EXCEPT !.wake = "claimed"]
      BY <1>2, <2>1
    <3> QED  BY <1>1, <1>3, <2>1, <3>1 DEF RowOK, Messages, WAKE_STATES, LiveWake
  <2>2. CASE j # k
    BY <1>1, <1>2, <2>2
  <2> QED  BY <2>1, <2>2
<1> HIDE DEF f
<1> QED  BY <1>3, <1>4, <1>5, ReplacedInv

\* Wakes that are over, requeued or getting old.
LEMMA WakeInv ==
    ASSUME MailInv, NEW k, FinishWake(k) \/ RequeueWake(k) \/ Ages(k),
           members' = members
    PROVE  MailInv'
<1>1. \A j \in DOMAIN msgs :
         /\ msgs[j] \in Messages
         /\ msgs[j].old => msgs[j].wake = "claimed"
         /\ msgs[j].wake \in LiveWake => ~msgs[j].delivered
         /\ msgs[j].to \notin members => msgs[j].wake = "none"
  BY MailRows DEF RowOK
<1>2. msgs \in [DOMAIN msgs -> Messages]
  BY MailRows
<1>3. /\ msgs' = [j \in DOMAIN msgs |-> msgs'[j]]
      /\ \A j \in DOMAIN msgs \ {k} : msgs'[j] = msgs[j]
  BY <1>2 DEF FinishWake, RequeueWake, Ages
<1>4. CASE k \notin DOMAIN msgs
  BY <1>3, <1>4, MailRows, ReplacedInv
<1>5. CASE k \in DOMAIN msgs
  <2>1. \/ msgs'[k] = [msgs[k] EXCEPT !.wake = IF @ = "none" THEN @ ELSE "done", !.old = FALSE]
        \/ msgs'[k] = [msgs[k] EXCEPT !.wake = IF @ = "claimed" THEN "pending" ELSE @, !.old = FALSE]
        \/ msgs[k].wake = "claimed" /\ msgs'[k] = [msgs[k] EXCEPT !.old = TRUE]
    BY <1>2, <1>5 DEF FinishWake, RequeueWake, Ages, Messages
  <2>2. RowOK(msgs'[k])
    BY <1>1, <1>5, <2>1 DEF RowOK, Messages, WAKE_STATES, LiveWake
  <2>3. \A j \in DOMAIN msgs : RowOK(msgs'[j])
    BY <1>3, <2>2, MailRows
  <2> QED  BY <1>3, <2>3, ReplacedInv
<1> QED  BY <1>4, <1>5

\* The owners of disputed claims are members, and there are finitely many.
LEMMA NoticesInv ==
    ASSUME ClaimInv, MailInv, NEW t \in Threads, NEW ps \in Requests \cup Edits,
           NEW by \in [Disputed(t, ps) -> Active],
           NEW order \in [1..Cardinality(NewConflicts(t, by)) -> NewConflicts(t, by)],
           msgs' = Notices(t, order), members' = members
    PROVE  MailInv'
<1> DEFINE row(p) == [path |-> p, owner |-> claims[by[p]].owner, requester |-> t,
                      claim |-> by[p]]
           rows == {row(p) : p \in Disputed(t, ps)}
           n == Cardinality(NewConflicts(t, by))
           s == [k \in DOMAIN order |->
                    [Message(t, order[k].owner, msgs) EXCEPT !.wake =
                        IF \E j \in 1..(k - 1) : order[j].owner = order[k].owner
                        THEN "none" ELSE @]]
<1>1. IsFiniteSet(Disputed(t, ps))
  <2>1. IsFiniteSet(ps)
    BY TurnAssumption
  <2>2. Disputed(t, ps) \in SUBSET ps
    BY DEF Disputed
  <2> QED  BY <2>1, <2>2, FS_Subset
<1>2. IsFiniteSet(rows)
  <2>1. [p \in Disputed(t, ps) |-> row(p)] \in Surjection(Disputed(t, ps), rows)
    BY DEF Surjection
  <2> QED  BY <1>1, <2>1, FS_Surjection
<1>3. n \in Nat
  <2>1. NewConflicts(t, by) \in SUBSET rows
    BY DEF NewConflicts
  <2> QED  BY <1>2, <2>1, FS_Subset, FS_CardinalityType
<1>4. \A c \in NewConflicts(t, by) : c.owner \in Threads \cap members
  <2> SUFFICES ASSUME NEW p \in Disputed(t, ps)
               PROVE  claims[by[p]].owner \in Threads \cap members
    BY DEF NewConflicts
  <2> QED  BY DEF Active, ClaimInv, ClaimTypeOK, OwnersAreMembers
<1>5. \A k \in 1..n : RowOK(s[k])
  <2> SUFFICES ASSUME NEW k \in 1..n
               PROVE  RowOK(s[k])
    OBVIOUS
  <2> DEFINE m == Message(t, order[k].owner, msgs)
  <2>1. RowOK(m) /\ RowOK([m EXCEPT !.wake = "none"])
    BY <1>4, MessageOK
  <2>2. s[k] = m \/ s[k] = [m EXCEPT !.wake = "none"]
    BY DEF Message
  <2> HIDE DEF m, s
  <2> QED  BY <2>1, <2>2
<1>6. DOMAIN s = 1..n /\ msgs' = msgs \o s
  BY DEF Notices
<1>7. s \in [1..n -> Messages]
  BY <1>5, <1>6 DEF RowOK
<1> HIDE DEF s, n
<1>8. s \in Seq(Messages)
  BY <1>3, <1>7
<1> QED  BY <1>5, <1>6, <1>8, AddedInv

\* Steps that leave the messages alone.
LEMMA SameMailInv ==
    ASSUME MailInv, msgs' = msgs, members' = members
    PROVE  MailInv'
BY DEF MailInv, RowOK

LEMMA TurnStepMail ==
    ASSUME ClaimInv, MailInv, NEW p \in Procs, NEW t \in Threads,
           \/ GuardedWrite(p, t) \/ ClaimPaths(p, t) \/ ReleasePaths(p, t)
           \/ HandOffPaths(p, t) \/ OverrideConflict(p, t) \/ Read(p, t)
           \/ SendMessage(p, t) \/ AcknowledgeMessage(p, t)
    PROVE  MailInv'
<1>1. CASE GuardedWrite(p, t)
  <2>1. PICK fs \in Edits :
           \/ Granted(t, fs, <<p, t>>) /\ UNCHANGED msgs
           \/ \E by \in [Disputed(t, fs) -> Active] :
                 /\ Refused(t, fs, by)
                 /\ \E order \in [1..Cardinality(NewConflicts(t, by)) -> NewConflicts(t, by)] :
                       msgs' = Notices(t, order)
    BY <1>1 DEF GuardedWrite
  <2>2. members' = members
    BY <2>1 DEF Granted, Refused
  <2> QED  BY <2>1, <2>2, SameMailInv, NoticesInv
<1>2. CASE ClaimPaths(p, t)
  BY <1>2, SameMailInv DEF ClaimPaths, Granted, Refused
<1>3. CASE ReleasePaths(p, t) \/ HandOffPaths(p, t) \/ OverrideConflict(p, t)
  BY <1>3, SameMailInv DEF ReleasePaths, Release, HandOffPaths, HandOff,
                           OverrideConflict, Override
<1>4. CASE Read(p, t)
  BY <1>4, DeliveredInv DEF Read, claimVars
<1>5. CASE SendMessage(p, t)
  <2>1. PICK u \in Threads \cap members : msgs' = Append(msgs, Message(t, u, msgs))
    BY <1>5 DEF SendMessage, Send, ClaimInv, ClaimTypeOK
  <2> DEFINE m == Message(t, u, msgs)
  <2>2. RowOK(m) /\ members' = members
    BY <1>5, <2>1, MessageOK DEF SendMessage, claimVars
  <2>3. m \in Messages /\ msgs' = Append(msgs, m)
    BY <2>1, <2>2 DEF RowOK
  <2> HIDE DEF m
  <2>4. msgs' = msgs \o <<m>>
    BY <2>3, AppendIsConcat DEF MailInv
  <2>5. <<m>> \in Seq(Messages) /\ \A k \in DOMAIN <<m>> : <<m>>[k] = m
    BY <2>3
  <2> QED  BY <2>2, <2>4, <2>5, AddedInv
<1>6. CASE AcknowledgeMessage(p, t)
  BY <1>6, AcknowledgeInv DEF AcknowledgeMessage, claimVars
<1> QED  BY <1>1, <1>2, <1>3, <1>4, <1>5, <1>6

LEMMA StepMail ==
    ASSUME ClaimInv, MailInv, [Next]_vars
    PROVE  MailInv'
<1>1. CASE UNCHANGED vars
  BY <1>1, SameMailInv DEF vars, claimVars, mailVars
<1>2. ASSUME NEW p \in Procs, NEW t \in Threads,
             \/ UserTurn(p, t) \/ Iterate(p, t) \/ End(p, t)
             \/ Written(p, t) \/ Renew(p, t)
      PROVE  MailInv'
  BY <1>2, SameMailInv DEF UserTurn, Begin, Iterate, End, Written, Renew, claimVars
<1>3. ASSUME NEW p \in Procs, Schedule(p) \/ Crash(p) \/ Restart(p)
      PROVE  MailInv'
  <2>1. CASE Schedule(p)
    BY <1>3, <2>1, ClaimWakeInv DEF Schedule, HandlerFrame, claimVars
  <2>2. CASE Crash(p) \/ Restart(p)
    BY <1>3, <2>2, SameMailInv DEF Crash, Restart, claimVars, mailVars
  <2> QED  BY <1>3, <2>1, <2>2
<1>4. ASSUME NEW h \in handlers,
             \/ Check(h) \/ CheckFails(h) \/ WakeTurn(h)
             \/ FinishHandler(h) \/ RequeueHandler(h)
      PROVE  MailInv'
  <2>1. CASE Check(h) \/ CheckFails(h) \/ WakeTurn(h)
    BY <2>1, SameMailInv DEF Check, CheckFails, WakeTurn, Begin, HandlerFrame,
                             claimVars, mailVars
  <2>2. CASE FinishHandler(h) \/ RequeueHandler(h)
    BY <2>2, WakeInv DEF FinishHandler, RequeueHandler, HandlerFrame, claimVars
  <2> QED  BY <1>4, <2>1, <2>2
<1>5. ASSUME NEW k \in DOMAIN msgs, WakeAges(k)
      PROVE  MailInv'
  BY <1>5, WakeInv DEF WakeAges, claimVars
<1>6. ASSUME NEW i \in DOMAIN claims, ClaimExpires(i)
      PROVE  MailInv'
  BY <1>6, SameMailInv DEF ClaimExpires, Expire, mailVars
<1>7. ASSUME NEW t \in Threads, LeaseLapses(t) \/ DeleteThread(t)
      PROVE  MailInv'
  BY <1>7, SameMailInv, ForgetMailInv DEF LeaseLapses, DeleteThread, claimVars
<1> QED  BY <1>1, <1>2, <1>3, <1>4, <1>5, <1>6, <1>7, TurnStepMail DEF Next

LEMMA MailInvariant == Spec => []MailInv
<1>1. Init => MailInv
  BY EmptySeq DEF Init, MailInit, MailInv
<1>2. ClaimInv /\ MailInv /\ [Next]_vars => MailInv'
  BY StepMail
<1> QED  BY <1>1, <1>2, ClaimsInvariant, PTL DEF Spec

\* No wake is left for a message that a turn has read (mark_delivered(),
\* claim_wake(), requeue_wake()), whatever order they come in.
THEOREM NoWakeLeftOver == Spec => []WakeIsOwed
<1>1. MailInv => WakeIsOwed
  BY DEF MailInv, RowOK, WakeIsOwed
<1> QED  BY <1>1, MailInvariant, PTL

-----------------------------------------------------------------------------
(* Types.                                                                     *)

LeaseTypeOK ==
    /\ lease \in [Threads -> Procs \cup {Nobody, Gone}]
    /\ lapsed \subseteq {t \in Threads : lease[t] # Nobody}
    /\ \A t \in Threads \ members : lease[t] = Nobody

TurnTypeOK ==
    /\ alive \subseteq Procs
    /\ turn \in [Procs -> [Threads -> {"none", "begun", "reading", "live"}]]
    /\ inbox \in [Procs -> [Threads -> SUBSET Nat]]
    /\ writing \in [Procs -> [Threads -> SUBSET Paths]]
    /\ handlers \subseteq Handlers
    /\ budget \in [BudgetKinds -> Nat]
    /\ bereft \subseteq Turns /\ slipped \subseteq Threads

LEMMA LeasedType ==
    ASSUME LeaseTypeOK, members' = members, NEW p \in Procs, NEW t \in members,
           Leased(p, t)
    PROVE  LeaseTypeOK'
BY MailAssumption DEF LeaseTypeOK, Leased

LEMMA UnleasedType ==
    ASSUME LeaseTypeOK, members' = members, NEW p \in Procs, NEW t \in Threads,
           Unleased(p, t)
    PROVE  LeaseTypeOK'
BY MailAssumption DEF LeaseTypeOK, Unleased

\* What keeps the leases, and takes no member away, keeps their type; so does
\* all that only lets a lease lapse.
LEMMA SameLeaseType ==
    ASSUME LeaseTypeOK, members' = members, UNCHANGED <<lease, lapsed>>
    PROVE  LeaseTypeOK'
BY DEF LeaseTypeOK

LEMMA StepLeaseType ==
    ASSUME ClaimInv, TurnTypeOK, LeaseTypeOK, [Next]_vars
    PROVE  LeaseTypeOK'
<1>1. CASE UNCHANGED vars
  BY <1>1, SameLeaseType DEF vars, claimVars, mailVars
<1>2. ASSUME NEW p \in Procs, NEW t \in Threads, Begin(p, t)
      PROVE  LeaseTypeOK'
  BY <1>2, LeasedType DEF Begin, MayBegin, MayLease, claimVars
<1>3. ASSUME NEW p \in Procs, NEW t \in Threads, Iterate(p, t) \/ Renew(p, t)
      PROVE  LeaseTypeOK'
  BY <1>3, LeasedType, SameLeaseType DEF Iterate, Renew, MayLease, claimVars
<1>4. ASSUME NEW p \in Procs, NEW t \in Threads, End(p, t)
      PROVE  LeaseTypeOK'
  BY <1>4, UnleasedType DEF End
<1>5. ASSUME NEW p \in Procs, NEW t \in Threads,
             \/ Read(p, t) \/ Written(p, t) \/ SendMessage(p, t)
             \/ AcknowledgeMessage(p, t)
      PROVE  LeaseTypeOK'
  BY <1>5, SameLeaseType DEF Read, Written, SendMessage, AcknowledgeMessage,
                             ToolFrame, claimVars
<1>6. ASSUME NEW p \in Procs, NEW t \in Threads,
             \/ GuardedWrite(p, t) \/ ClaimPaths(p, t) \/ ReleasePaths(p, t)
             \/ HandOffPaths(p, t) \/ OverrideConflict(p, t)
      PROVE  LeaseTypeOK'
  BY <1>6, SameLeaseType DEF GuardedWrite, ClaimPaths, ReleasePaths, HandOffPaths,
         OverrideConflict, ToolFrame, Granted, Refused, Release, HandOff, Override
<1>7. ASSUME NEW p \in Procs, Schedule(p) \/ Restart(p)
      PROVE  LeaseTypeOK'
  BY <1>7, SameLeaseType DEF Schedule, Restart, HandlerFrame, claimVars, mailVars
<1>8. ASSUME NEW p \in Procs, Crash(p)
      PROVE  LeaseTypeOK'
  BY <1>8, MailAssumption DEF Crash, LeaseTypeOK
<1>9. ASSUME NEW h \in handlers,
             \/ Check(h) \/ CheckFails(h) \/ WakeTurn(h)
             \/ FinishHandler(h) \/ RequeueHandler(h)
      PROVE  LeaseTypeOK'
  <2>1. h.proc \in Procs
    BY DEF TurnTypeOK, Handlers
  <2>2. CASE WakeTurn(h) /\ Begin(h.proc, msgs[h.wake].to)
    <3>1. msgs[h.wake].to \in Threads
      BY <2>2 DEF Begin, MayBegin, MayLease, ClaimInv, ClaimTypeOK
    <3> QED  BY <1>2, <2>1, <2>2, <3>1
  <2>3. CASE ~(WakeTurn(h) /\ Begin(h.proc, msgs[h.wake].to))
    BY <1>9, <2>3, SameLeaseType DEF Check, CheckFails, WakeTurn, FinishHandler,
           RequeueHandler, HandlerFrame, claimVars, mailVars
  <2> QED  BY <2>2, <2>3
<1>10. ASSUME NEW k \in DOMAIN msgs, WakeAges(k)
       PROVE  LeaseTypeOK'
  BY <1>10, SameLeaseType DEF WakeAges, claimVars
<1>11. ASSUME NEW i \in DOMAIN claims, ClaimExpires(i)
       PROVE  LeaseTypeOK'
  BY <1>11, SameLeaseType DEF ClaimExpires, Expire, mailVars
<1>12. ASSUME NEW t \in Threads, LeaseLapses(t)
       PROVE  LeaseTypeOK'
  BY <1>12 DEF LeaseLapses, LeaseTypeOK, claimVars
<1>13. ASSUME NEW t \in Threads, DeleteThread(t)
       PROVE  LeaseTypeOK'
  BY <1>13, MailAssumption DEF DeleteThread, Forget, ForgetMail, LeaseTypeOK
<1> QED  BY <1>1, <1>2, <1>3, <1>4, <1>5, <1>6, <1>7, <1>8, <1>9, <1>10, <1>11,
            <1>12, <1>13 DEF Next, UserTurn

LEMMA SpendType ==
    ASSUME TurnTypeOK, NEW kind \in BudgetKinds, Spend(kind)
    PROVE  budget' \in [BudgetKinds -> Nat]
BY DEF TurnTypeOK, Spend

LEMMA WritersAreTurns == \A ids : WritersUnder(ids) \subseteq Turns
BY DEF WritersUnder

LEMMA TurnStepType ==
    ASSUME ClaimInv, MailInv, TurnTypeOK, NEW p \in Procs, NEW t \in Threads,
           \/ UserTurn(p, t) \/ Iterate(p, t) \/ Read(p, t) \/ End(p, t)
           \/ Renew(p, t)
    PROVE  TurnTypeOK'
<1>1. CASE UserTurn(p, t)
  <2>1. budget' \in [BudgetKinds -> Nat]
    BY <1>1, SpendType DEF UserTurn, BudgetKinds
  <2> QED  BY <1>1, <2>1 DEF UserTurn, Begin, TurnTypeOK
<1>2. CASE Iterate(p, t)
  <2>1. Inbox(t) \in SUBSET Nat
    BY MailRows DEF Inbox
  <2> QED  BY <1>2, <2>1 DEF Iterate, TurnTypeOK
<1>3. CASE Read(p, t)
  BY <1>3 DEF Read, TurnTypeOK
<1>4. CASE End(p, t)
  <2>1. budget' \in [BudgetKinds -> Nat]
    BY <1>4, SpendType DEF End, BudgetKinds, TurnTypeOK
  <2>2. handlers' \subseteq Handlers
    BY <1>4 DEF End, TurnTypeOK, Handlers
  <2> QED  BY <1>4, <2>1, <2>2 DEF End, TurnTypeOK
<1>5. CASE Renew(p, t)
  BY <1>5 DEF Renew, TurnTypeOK, turnVars
<1> QED  BY <1>1, <1>2, <1>3, <1>4, <1>5

LEMMA ToolStepType ==
    ASSUME TurnTypeOK, NEW p \in Procs, NEW t \in Threads,
           \/ GuardedWrite(p, t) \/ Written(p, t) \/ ClaimPaths(p, t)
           \/ ReleasePaths(p, t) \/ HandOffPaths(p, t) \/ OverrideConflict(p, t)
           \/ SendMessage(p, t) \/ AcknowledgeMessage(p, t)
    PROVE  TurnTypeOK'
<1>1. budget' \in [BudgetKinds -> Nat]
  BY SpendType DEF GuardedWrite, Written, ClaimPaths, ReleasePaths, HandOffPaths,
         OverrideConflict, SendMessage, AcknowledgeMessage, BudgetKinds, TurnTypeOK
<1>2. ToolFrame
  BY DEF GuardedWrite, Written, ClaimPaths, ReleasePaths, HandOffPaths,
         OverrideConflict, SendMessage, AcknowledgeMessage
<1>3. bereft' \subseteq Turns
  BY WritersAreTurns DEF GuardedWrite, Written, ClaimPaths, ReleasePaths,
         HandOffPaths, OverrideConflict, SendMessage, AcknowledgeMessage, TurnTypeOK
<1>4. writing' \in [Procs -> [Threads -> SUBSET Paths]]
  <2>1. CASE GuardedWrite(p, t)
    <3>1. \A fs \in Edits : fs \in SUBSET Paths
      BY TurnAssumption
    <3>2. \/ writing' = writing
          \/ \E fs \in Edits : writing' = [writing EXCEPT ![p][t] = fs]
      BY <2>1 DEF GuardedWrite
    <3>3. ASSUME NEW fs \in SUBSET Paths, writing' = [writing EXCEPT ![p][t] = fs]
          PROVE  writing' \in [Procs -> [Threads -> SUBSET Paths]]
      BY <3>3 DEF TurnTypeOK
    <3>4. writing' = writing => writing' \in [Procs -> [Threads -> SUBSET Paths]]
      BY DEF TurnTypeOK
    <3> QED  BY <3>1, <3>2, <3>3, <3>4
  <2>2. CASE Written(p, t)
    BY <2>2 DEF Written, TurnTypeOK
  <2>3. CASE ~(GuardedWrite(p, t) \/ Written(p, t))
    BY <2>3 DEF ClaimPaths, ReleasePaths, HandOffPaths, OverrideConflict,
                SendMessage, AcknowledgeMessage, TurnTypeOK
  <2> QED  BY <2>1, <2>2, <2>3
<1> QED  BY <1>1, <1>2, <1>3, <1>4 DEF TurnTypeOK, ToolFrame

LEMMA HandlerStepType ==
    ASSUME MailInv, TurnTypeOK,
           \/ \E p \in Procs : Schedule(p)
           \/ \E h \in handlers :
                 \/ Check(h) \/ CheckFails(h) \/ WakeTurn(h)
                 \/ FinishHandler(h) \/ RequeueHandler(h)
    PROVE  TurnTypeOK'
<1>1. ASSUME NEW p \in Procs, Schedule(p)
      PROVE  TurnTypeOK'
  <2>1. PICK k \in DOMAIN msgs :
           handlers' = handlers \cup {[proc |-> p, wake |-> k, at |-> "check"]}
    BY <1>1 DEF Schedule
  <2>2. k \in Nat
    BY MailRows
  <2>3. handlers' \subseteq Handlers
    BY <2>1, <2>2 DEF TurnTypeOK, Handlers
  <2> QED  BY <1>1, <2>3 DEF Schedule, HandlerFrame, TurnTypeOK
<1>2. ASSUME NEW h \in handlers,
             \/ Check(h) \/ CheckFails(h) \/ WakeTurn(h)
             \/ FinishHandler(h) \/ RequeueHandler(h)
      PROVE  TurnTypeOK'
  <2>1. h \in Handlers
    BY DEF TurnTypeOK
  <2>2. handlers' \subseteq Handlers
    BY <1>2, <2>1 DEF Check, CheckFails, WakeTurn, FinishHandler, RequeueHandler,
           Goes, TurnTypeOK, Handlers
  <2>3. budget' \in [BudgetKinds -> Nat]
    BY <1>2, SpendType DEF Check, CheckFails, WakeTurn, FinishHandler,
           RequeueHandler, BudgetKinds, TurnTypeOK
  <2>4. UNCHANGED <<alive, inbox, writing, bereft, slipped>>
    BY <1>2 DEF Check, CheckFails, WakeTurn, FinishHandler, RequeueHandler,
           Begin, HandlerFrame
  <2>5. turn' \in [Procs -> [Threads -> {"none", "begun", "reading", "live"}]]
    <3>1. \/ turn' = turn
          \/ \E q, t : turn' = [turn EXCEPT ![q][t] = "begun"]
      BY <1>2 DEF Check, CheckFails, WakeTurn, FinishHandler, RequeueHandler, Begin
    <3>2. ASSUME NEW q, NEW t, turn' = [turn EXCEPT ![q][t] = "begun"]
          PROVE  turn' \in [Procs -> [Threads -> {"none", "begun", "reading", "live"}]]
      BY <3>2 DEF TurnTypeOK
    <3>3. turn' = turn
             => turn' \in [Procs -> [Threads -> {"none", "begun", "reading", "live"}]]
      BY DEF TurnTypeOK
    <3> QED  BY <3>1, <3>2, <3>3
  <2> QED  BY <2>2, <2>3, <2>4, <2>5 DEF TurnTypeOK
<1> QED  BY <1>1, <1>2

LEMMA FaultStepType ==
    ASSUME TurnTypeOK,
           \/ \E p \in Procs : Crash(p) \/ Restart(p)
           \/ \E k \in DOMAIN msgs : WakeAges(k)
           \/ \E i \in DOMAIN claims : ClaimExpires(i)
           \/ \E t \in Threads : LeaseLapses(t) \/ DeleteThread(t)
    PROVE  TurnTypeOK'
<1>1. budget' \in [BudgetKinds -> Nat]
  BY SpendType DEF Crash, Restart, WakeAges, ClaimExpires, LeaseLapses,
         DeleteThread, BudgetKinds, TurnTypeOK
<1>2. ASSUME NEW p \in Procs, Crash(p)
      PROVE  TurnTypeOK'
  BY <1>1, <1>2 DEF Crash, TurnTypeOK
<1>3. ASSUME NEW p \in Procs, Restart(p)
      PROVE  TurnTypeOK'
  BY <1>3 DEF Restart, TurnTypeOK
<1>4. ASSUME NEW k \in DOMAIN msgs, WakeAges(k)
      PROVE  TurnTypeOK'
  BY <1>1, <1>4 DEF WakeAges, TurnTypeOK
<1>5. ASSUME NEW i \in DOMAIN claims, ClaimExpires(i)
      PROVE  TurnTypeOK'
  BY <1>1, <1>5, WritersAreTurns DEF ClaimExpires, TurnTypeOK
<1>6. ASSUME NEW t \in Threads, LeaseLapses(t)
      PROVE  TurnTypeOK'
  BY <1>1, <1>6 DEF LeaseLapses, TurnTypeOK
<1>7. ASSUME NEW t \in Threads, DeleteThread(t)
      PROVE  TurnTypeOK'
  BY <1>1, <1>7, WritersAreTurns DEF DeleteThread, TurnTypeOK
<1> QED  BY <1>2, <1>3, <1>4, <1>5, <1>6, <1>7

LEMMA StepTurnType ==
    ASSUME ClaimInv, MailInv, TurnTypeOK, [Next]_vars
    PROVE  TurnTypeOK'
<1>1. CASE UNCHANGED vars
  BY <1>1 DEF vars, turnVars, TurnTypeOK
<1> QED  BY <1>1, TurnStepType, ToolStepType, HandlerStepType, FaultStepType DEF Next

LEMMA TypesInvariant == Spec => [](LeaseTypeOK /\ TurnTypeOK)
<1>1. Init => LeaseTypeOK /\ TurnTypeOK
  <2> SUFFICES ASSUME Init
               PROVE  LeaseTypeOK /\ TurnTypeOK
    OBVIOUS
  <2>1. LeaseTypeOK
    BY DEF Init, ClaimInit, MailInit, LeaseTypeOK
  <2>2. TurnTypeOK
    BY TurnAssumption DEF Init, TurnTypeOK
  <2> QED  BY <2>1, <2>2
<1>2. ClaimInv /\ MailInv /\ LeaseTypeOK /\ TurnTypeOK /\ [Next]_vars
         => LeaseTypeOK' /\ TurnTypeOK'
  BY StepLeaseType, StepTurnType
<1> QED  BY <1>1, <1>2, ClaimsInvariant, MailInvariant, PTL DEF Spec

\* The types of the group's state and its foreign keys: nobody who was deleted
\* keeps a lease or a wake (delete_thread()).
THEOREM TypeCorrect == Spec => []TypeOK
<1>1. ClaimInv /\ MailInv /\ LeaseTypeOK /\ TurnTypeOK => TypeOK
  <2> SUFFICES ASSUME ClaimInv, MailInv, LeaseTypeOK, TurnTypeOK
               PROVE  TypeOK
    OBVIOUS
  <2>1. MailTypeOK
    BY DEF MailInv, RowOK, LeaseTypeOK, MailTypeOK
  <2> QED  BY <2>1 DEF ClaimInv, TurnTypeOK, TypeOK
<1> QED  BY <1>1, ClaimsInvariant, MailInvariant, TypesInvariant, PTL

-----------------------------------------------------------------------------
(* Turns and leases.                                                          *)

\* The lease of a thread that is still there is held, and not lapsed.
Holds(p, t) == lease[t] = p /\ t \notin lapsed

\* OneTurn is not inductive: that nobody else begins a turn is the lease's
\* doing, so whoever is in a turn must hold it.  (The thread may have been
\* deleted, and then nobody begins a turn on it any more.)
TurnInv ==
    /\ OneTurn
    /\ \A p \in Procs, t \in Threads :
          turn[p][t] # "none" => t \in slipped \/ t \notin members \/ Holds(p, t)
    /\ \A p \in Procs, t \in Threads : writing[p][t] # {} => turn[p][t] = "live"

\* Steps that begin no turn.
LEMMA NoTurnBegins ==
    ASSUME TurnInv, slipped \subseteq slipped', members' \subseteq members,
           \A p \in Procs, t \in Threads :
              turn'[p][t] # "none" =>
                 /\ turn[p][t] # "none"
                 /\ \/ t \in slipped' \/ t \notin members'
                    \/ Holds(p, t) => Holds(p, t)',
           \A p \in Procs, t \in Threads : writing'[p][t] # {} => turn'[p][t] = "live"
    PROVE  TurnInv'
<1>1. OneTurn'
  BY DEF TurnInv, OneTurn
<1>2. ASSUME NEW p \in Procs, NEW t \in Threads, turn'[p][t] # "none",
             t \notin slipped', t \in members'
      PROVE  Holds(p, t)'
  <2>1. turn[p][t] # "none" /\ (Holds(p, t) => Holds(p, t)')
    BY <1>2
  <2>2. t \notin slipped /\ t \in members
    BY <1>2
  <2> QED  BY <2>1, <2>2 DEF TurnInv
<1> QED  BY <1>1, <1>2 DEF TurnInv

\* A turn begins: whoever else was in one would hold the lease.
LEMMA TurnBegins ==
    ASSUME LeaseTypeOK, TurnTypeOK, TurnInv, NEW p \in Procs, NEW t \in Threads,
           Begin(p, t)
    PROVE  TurnInv'
<1>1. /\ turn[p][t] = "none" /\ turn' = [turn EXCEPT ![p][t] = "begun"]
      /\ t \in members /\ (lease[t] \in {Nobody, p, Gone} \/ t \in lapsed)
      /\ lease' = [lease EXCEPT ![t] = p] /\ lapsed' = lapsed \ {t}
      /\ UNCHANGED <<members, writing, slipped>>
  BY DEF Begin, MayBegin, MayLease, Leased, claimVars
<1>2. /\ turn'[p][t] = "begun"
      /\ \A q \in Procs, u \in Threads : q # p \/ u # t => turn'[q][u] = turn[q][u]
  BY <1>1 DEF TurnTypeOK
<1>3. t \notin slipped => \A q \in Procs : turn[q][t] = "none"
  BY <1>1, MailAssumption DEF TurnInv, Holds
<1>4. OneTurn'
  BY <1>1, <1>2, <1>3 DEF TurnInv, OneTurn
<1>5. ASSUME NEW q \in Procs, NEW u \in Threads, turn'[q][u] # "none",
             u \notin slipped', u \in members'
      PROVE  lease'[u] = q /\ u \notin lapsed'
  <2>1. CASE u = t
    <3>1. q = p
      BY <1>1, <1>2, <1>3, <1>5, <2>1
    <3> QED  BY <1>1, <2>1, <3>1 DEF LeaseTypeOK
  <2>2. CASE u # t
    BY <1>1, <1>2, <1>5, <2>2 DEF TurnInv, Holds
  <2> QED  BY <2>1, <2>2
<1>6. \A q \in Procs, u \in Threads : writing'[q][u] # {} => turn'[q][u] = "live"
  BY <1>1, <1>2 DEF TurnInv
<1> QED  BY <1>4, <1>5, <1>6 DEF TurnInv, Holds

\* A step of a turn that goes on, or of a tool call.
LEMMA TurnStepInv ==
    ASSUME LeaseTypeOK, TurnTypeOK, TurnInv, NEW p \in Procs, NEW t \in Threads,
           \/ Iterate(p, t) \/ Read(p, t) \/ End(p, t) \/ Renew(p, t)
    PROVE  TurnInv'
<1>1. turn[p][t] # "none" /\ UNCHANGED <<members, writing, slipped>>
  BY DEF Iterate, Read, End, Renew, claimVars, turnVars
<1>2. \A q \in Procs, u \in Threads : q # p \/ u # t => turn'[q][u] = turn[q][u]
  BY DEF Iterate, Read, End, Renew, turnVars, TurnTypeOK
<1>3. writing[p][t] # {} => turn'[p][t] = turn[p][t]
  <2>1. writing[p][t] # {} => turn[p][t] = "live"
    BY DEF TurnInv
  <2> QED  BY <2>1 DEF Iterate, Read, End, Renew, turnVars
<1>4. ASSUME NEW q \in Procs, NEW u \in Threads, turn'[q][u] # "none"
      PROVE  /\ turn[q][u] # "none"
             /\ u \in slipped \/ (Holds(q, u) => Holds(q, u)')
  <2> SUFFICES ASSUME u \notin slipped, Holds(q, u)
               PROVE  lease'[u] = q /\ u \notin lapsed'
    BY <1>1, <1>2, <1>4 DEF Holds
  <2>1. turn[q][u] # "none"
    BY <1>1, <1>2, <1>4
  <2>2. u = t => q = p
    BY <1>1, <1>4, <2>1 DEF TurnInv, OneTurn
  <2>3. CASE u = t
    <3>1. ~End(p, t)
      BY <1>4, <2>2, <2>3 DEF End, TurnTypeOK
    <3>2. \/ lease' = [lease EXCEPT ![t] = p] /\ lapsed' = lapsed \ {t}
          \/ UNCHANGED <<lease, lapsed>>
      BY <3>1 DEF Iterate, Read, Renew, Leased
    <3> QED  BY <2>1, <2>2, <2>3, <3>2 DEF Holds, LeaseTypeOK
  <2>4. CASE u # t
    <3>1. lease'[u] = lease[u] /\ lapsed' \subseteq lapsed
      BY <2>4 DEF Iterate, Read, Renew, End, Leased, Unleased, LeaseTypeOK
    <3> QED  BY <2>1, <3>1 DEF Holds
  <2> QED  BY <2>3, <2>4
<1>5. \A q \in Procs, u \in Threads : writing'[q][u] # {} => turn'[q][u] = "live"
  BY <1>1, <1>2, <1>3 DEF TurnInv
<1> QED  BY <1>1, <1>4, <1>5, NoTurnBegins

\* Steps that change neither turns nor leases.
LEMMA SameTurns ==
    ASSUME TurnInv, UNCHANGED <<turn, lease, lapsed, slipped, members>>,
           \A q \in Procs, u \in Threads :
              writing'[q][u] # {} => writing[q][u] # {} \/ turn[q][u] = "live"
    PROVE  TurnInv'
BY DEF TurnInv, OneTurn, Holds

LEMMA ToolStepTurns ==
    ASSUME TurnTypeOK, TurnInv, NEW p \in Procs, NEW t \in Threads,
           \/ GuardedWrite(p, t) \/ Written(p, t) \/ ClaimPaths(p, t)
           \/ ReleasePaths(p, t) \/ HandOffPaths(p, t) \/ OverrideConflict(p, t)
           \/ SendMessage(p, t) \/ AcknowledgeMessage(p, t)
    PROVE  TurnInv'
<1>1. ToolFrame /\ members' = members
  BY DEF GuardedWrite, Written, ClaimPaths, ReleasePaths, HandOffPaths,
         OverrideConflict, SendMessage, AcknowledgeMessage, claimVars,
         Granted, Refused, Release, HandOff, Override
<1>2. \A q \in Procs, u \in Threads :
         writing'[q][u] # {} => writing[q][u] # {} \/ turn[q][u] = "live"
  <2>1. CASE turn[p][t] = "live"
    <3>1. \/ writing' = writing
          \/ \E fs : writing' = [writing EXCEPT ![p][t] = fs]
      BY DEF GuardedWrite, Written, ClaimPaths, ReleasePaths, HandOffPaths,
             OverrideConflict, SendMessage, AcknowledgeMessage
    <3>2. ASSUME NEW fs, writing' = [writing EXCEPT ![p][t] = fs]
          PROVE  \A q \in Procs, u \in Threads :
                    writing'[q][u] # {} => writing[q][u] # {} \/ turn[q][u] = "live"
      BY <2>1, <3>2 DEF TurnTypeOK
    <3> QED  BY <3>1, <3>2
  <2>2. CASE turn[p][t] # "live"
    <3>1. Written(p, t)
      BY <2>2 DEF GuardedWrite, ClaimPaths, ReleasePaths, HandOffPaths,
             OverrideConflict, SendMessage, AcknowledgeMessage, Idle
    <3> QED  BY <3>1 DEF Written, TurnTypeOK
  <2> QED  BY <2>1, <2>2
<1> QED  BY <1>1, <1>2, SameTurns DEF ToolFrame

LEMMA StepTurns ==
    ASSUME ClaimInv, LeaseTypeOK, TurnTypeOK, TurnInv, [Next]_vars
    PROVE  TurnInv'
<1>1. CASE UNCHANGED vars
  BY <1>1, SameTurns DEF vars, claimVars, mailVars, turnVars
<1>2. ASSUME NEW p \in Procs, Crash(p)
      PROVE  TurnInv'
  <2>1. \A u \in Threads : turn'[p][u] = "none" /\ writing'[p][u] = {}
    BY <1>2 DEF Crash, TurnTypeOK
  <2>2. \A q \in Procs \ {p}, u \in Threads :
           turn'[q][u] = turn[q][u] /\ writing'[q][u] = writing[q][u]
    BY <1>2 DEF Crash, TurnTypeOK
  <2>3. UNCHANGED <<members, slipped, lapsed>>
    BY <1>2 DEF Crash
  <2>4. \A q \in Procs \ {p}, u \in Threads : Holds(q, u) => Holds(q, u)'
    BY <1>2, <2>3 DEF Crash, Holds
  <2> QED  BY <2>1, <2>2, <2>3, <2>4, NoTurnBegins DEF TurnInv
<1>3. ASSUME NEW p \in Procs, Schedule(p) \/ Restart(p)
      PROVE  TurnInv'
  BY <1>3, SameTurns DEF Schedule, Restart, HandlerFrame, claimVars, mailVars
<1>4. ASSUME NEW h \in handlers,
             \/ Check(h) \/ CheckFails(h) \/ WakeTurn(h)
             \/ FinishHandler(h) \/ RequeueHandler(h)
      PROVE  TurnInv'
  <2>1. h.proc \in Procs
    BY DEF TurnTypeOK, Handlers
  <2>2. CASE WakeTurn(h) /\ Begin(h.proc, msgs[h.wake].to)
    <3>1. msgs[h.wake].to \in Threads
      BY <2>2 DEF Begin, MayBegin, MayLease, ClaimInv, ClaimTypeOK
    <3> QED  BY <2>1, <2>2, <3>1, TurnBegins
  <2>3. CASE ~(WakeTurn(h) /\ Begin(h.proc, msgs[h.wake].to))
    BY <1>4, <2>3, SameTurns DEF Check, CheckFails, WakeTurn, FinishHandler,
           RequeueHandler, HandlerFrame, claimVars, mailVars
  <2> QED  BY <2>2, <2>3
<1>5. ASSUME NEW k \in DOMAIN msgs, WakeAges(k)
      PROVE  TurnInv'
  BY <1>5, SameTurns DEF WakeAges, claimVars
<1>6. ASSUME NEW i \in DOMAIN claims, ClaimExpires(i)
      PROVE  TurnInv'
  BY <1>6, SameTurns DEF ClaimExpires, Expire, mailVars
<1>7. ASSUME NEW t \in Threads, LeaseLapses(t)
      PROVE  TurnInv'
  <2>1. /\ UNCHANGED <<turn, writing, members, lease>>
        /\ lapsed' = lapsed \cup {t} /\ slipped \subseteq slipped'
    BY <1>7 DEF LeaseLapses, claimVars
  <2>2. \A q \in Procs : turn[q][t] # "none" => t \in slipped'
    BY <1>7 DEF LeaseLapses
  <2>3. \A q \in Procs, u \in Threads \ {t} : Holds(q, u) => Holds(q, u)'
    BY <2>1 DEF Holds
  <2> QED  BY <2>1, <2>2, <2>3, NoTurnBegins DEF TurnInv
<1>8. ASSUME NEW t \in Threads, DeleteThread(t)
      PROVE  TurnInv'
  <2>1. UNCHANGED <<turn, writing, slipped>> /\ members' = members \ {t}
    BY <1>8 DEF DeleteThread, Forget
  <2>2. \A q \in Procs, u \in Threads \ {t} : Holds(q, u) => Holds(q, u)'
    BY <1>8 DEF DeleteThread, ForgetMail, Holds, LeaseTypeOK
  <2> QED  BY <2>1, <2>2, NoTurnBegins DEF TurnInv
<1> QED  BY <1>1, <1>2, <1>3, <1>4, <1>5, <1>6, <1>7, <1>8, TurnBegins,
            TurnStepInv, ToolStepTurns DEF Next, UserTurn

LEMMA TurnsInvariant == Spec => []TurnInv
<1>1. Init => TurnInv
  BY DEF Init, TurnInv, OneTurn
<1>2. ClaimInv /\ LeaseTypeOK /\ TurnTypeOK /\ TurnInv /\ [Next]_vars => TurnInv'
  BY StepTurns
<1> QED  BY <1>1, <1>2, ClaimsInvariant, TypesInvariant, PTL DEF Spec

\* A thread has one turn at a time over all processes (heartbeat(),
\* scheduler.py:20), whatever crashes, as long as its lease did not run out
\* under a turn.
THEOREM OneTurnAtATime == Spec => []OneTurn
<1>1. TurnInv => OneTurn
  BY DEF TurnInv
<1> QED  BY <1>1, TurnsInvariant, PTL

-----------------------------------------------------------------------------
(* Writes.                                                                    *)

\* t has a claim that touches f and has not run out.
Covers(t, f) == \E i \in Active : claims[i].owner = t /\ Overlap(f, claims[i].path)

\* WritesExclusive is about claims that were looked at before the write began;
\* what makes it true is that a thread still has them as it writes.
Covered ==
    \A w \in Turns :
        \/ w \in bereft \/ w[2] \in slipped
        \/ \A f \in writing[w[1]][w[2]] : Covers(w[2], f)

\* Claim i is active after the step as well, and whose and where it was.
Stays(i) ==
    i \in Active' /\ claims'[i].owner = claims[i].owner /\ claims'[i].path = claims[i].path

LEMMA CoverStays ==
    ASSUME NEW t, NEW f, NEW i \in Active, claims[i].owner = t,
           Overlap(f, claims[i].path), Stays(i)
    PROVE  Covers(t, f)'
BY DEF Covers, Stays, Overlap

\* Steps after which nobody writes who did not, and all active claims stay.
LEMMA ClaimsStay ==
    ASSUME Covered, slipped \subseteq slipped', \A i \in Active : Stays(i),
           \A w \in Turns : writing'[w[1]][w[2]] # {} =>
              /\ writing'[w[1]][w[2]] = writing[w[1]][w[2]]
              /\ w \in bereft => w \in bereft'
    PROVE  Covered'
<1> SUFFICES ASSUME NEW w \in Turns, w \notin bereft', w[2] \notin slipped',
                    NEW f \in writing'[w[1]][w[2]]
             PROVE  Covers(w[2], f)'
  BY DEF Covered
<1>1. f \in writing[w[1]][w[2]] /\ w \notin bereft /\ w[2] \notin slipped
  OBVIOUS
<1>2. PICK i \in Active : claims[i].owner = w[2] /\ Overlap(f, claims[i].path)
  BY <1>1 DEF Covered, Covers
<1> QED  BY <1>2, CoverStays

\* Claims are taken, or run out: whoever writes under one is bereft of it.
LEMMA ClaimsTaken ==
    ASSUME Covered, NEW ids, \A i \in Active \ ids : Stays(i),
           bereft' = bereft \cup WritersUnder(ids), UNCHANGED <<writing, slipped>>
    PROVE  Covered'
<1> SUFFICES ASSUME NEW w \in Turns, w \notin bereft', w[2] \notin slipped',
                    NEW f \in writing'[w[1]][w[2]]
             PROVE  Covers(w[2], f)'
  BY DEF Covered
<1>1. PICK i \in Active : claims[i].owner = w[2] /\ Overlap(f, claims[i].path)
  BY DEF Covered, Covers
<1>2. i \notin ids
  BY <1>1 DEF WritersUnder
<1> QED  BY <1>1, <1>2, CoverStays

\* A thread gives claims back: its one turn is not writing.
LEMMA ClaimsGivenBack ==
    ASSUME TurnInv, Covered, NEW p \in Procs, NEW t \in Threads,
           turn[p][t] # "none", writing[p][t] = {},
           \A i \in Active : claims[i].owner # t => Stays(i),
           UNCHANGED <<writing, bereft, slipped>>
    PROVE  Covered'
<1> SUFFICES ASSUME NEW w \in Turns, w \notin bereft', w[2] \notin slipped',
                    NEW f \in writing'[w[1]][w[2]]
             PROVE  Covers(w[2], f)'
  BY DEF Covered
<1>1. PICK i \in Active : claims[i].owner = w[2] /\ Overlap(f, claims[i].path)
  BY DEF Covered, Covers
<1>2. w[1] \in Procs /\ w[2] \in Threads
  BY DEF Turns
<1>3. turn[w[1]][w[2]] = "live"
  BY <1>2 DEF TurnInv
<1>4. w[2] # t
  BY <1>2, <1>3 DEF TurnInv, OneTurn
<1> QED  BY <1>1, <1>4, CoverStays

\* A write begins under claims: each path has one already, or gets one.
LEMMA GrantedCovers ==
    ASSUME ClaimInv, NEW t \in Threads, NEW ps \in SUBSET Paths, NEW over \in Turns,
           Granted(t, ps, over)
    PROVE  /\ \A i \in Active : Stays(i)
           /\ \A f \in ps : Covers(t, f)'
<1> DEFINE new == {p \in ps : \A i \in Owned(t) \cap Active :
                                 ~Overlap(p, claims[i].path)}
<1>1. PICK id \in [new -> Unused] :
         /\ \A p, q \in new : id[p] = id[q] => p = q
         /\ claims' = [i \in Active \cup {id[p] : p \in new} |->
                IF i \in Active THEN claims[i]
                ELSE [path |-> CHOOSE p \in new : id[p] = i,
                      owner |-> t, turn |-> over, expired |-> FALSE]]
  BY DEF Granted
<1>2. ASSUME NEW i \in Active
      PROVE  Stays(i)
  BY <1>1 DEF Stays, Active
<1>3. ASSUME NEW f \in ps
      PROVE  Covers(t, f)'
  <2>1. CASE f \in new
    <3>1. (CHOOSE q \in new : id[q] = id[f]) = f
      BY <1>1, <2>1
    <3>2. id[f] \notin Active
      BY <1>1, <2>1 DEF Unused, Active
    <3>3. claims'[id[f]] = [path |-> f, owner |-> t, turn |-> over, expired |-> FALSE]
          /\ id[f] \in DOMAIN claims'
      BY <1>1, <2>1, <3>1, <3>2
    <3>4. Overlap(f, f)
      BY PathAssumption DEF Overlap
    <3> HIDE DEF new
    <3> QED  BY <3>3, <3>4 DEF Covers, Active, Overlap
  <2>2. CASE f \notin new
    <3>1. PICK i \in Owned(t) \cap Active : Overlap(f, claims[i].path)
      BY <2>2
    <3> QED  BY <1>2, <3>1, CoverStays DEF Owned
  <2> QED  BY <2>1, <2>2
<1> QED  BY <1>2, <1>3

\* Steps that leave the claims, the writers and the bereft alone.
LEMMA SameCover ==
    ASSUME Covered, UNCHANGED <<claims, writing, bereft>>, slipped \subseteq slipped'
    PROVE  Covered'
BY DEF Covered, Covers, Active, Overlap

LEMMA WriteCover ==
    ASSUME ClaimInv, TurnTypeOK, Covered, NEW p \in Procs, NEW t \in Threads,
           GuardedWrite(p, t)
    PROVE  Covered'
<1>1. PICK fs \in Edits :
         \/ Granted(t, fs, <<p, t>>) /\ writing' = [writing EXCEPT ![p][t] = fs]
         \/ writing' = writing /\ claims' = Keep(Active)
  BY DEF GuardedWrite, Refused
<1>2. UNCHANGED <<bereft, slipped>>
  BY DEF GuardedWrite, ToolFrame
<1>3. CASE Granted(t, fs, <<p, t>>) /\ writing' = [writing EXCEPT ![p][t] = fs]
  <2>1. fs \in SUBSET Paths /\ <<p, t>> \in Turns
    BY TurnAssumption DEF Turns
  <2>2. (\A i \in Active : Stays(i)) /\ \A f \in fs : Covers(t, f)'
    BY <1>3, <2>1, GrantedCovers
  <2> SUFFICES ASSUME NEW w \in Turns, w \notin bereft', w[2] \notin slipped',
                      NEW f \in writing'[w[1]][w[2]]
               PROVE  Covers(w[2], f)'
    BY DEF Covered
  <2>3. w[1] \in Procs /\ w[2] \in Threads
    BY DEF Turns
  <2>4. CASE w[1] = p /\ w[2] = t
    BY <1>3, <2>2, <2>3, <2>4 DEF TurnTypeOK
  <2>5. CASE ~(w[1] = p /\ w[2] = t)
    <3>1. writing'[w[1]][w[2]] = writing[w[1]][w[2]]
      BY <1>3, <2>3, <2>5 DEF TurnTypeOK
    <3>2. PICK i \in Active : claims[i].owner = w[2] /\ Overlap(f, claims[i].path)
      BY <1>2, <3>1 DEF Covered, Covers
    <3> QED  BY <2>2, <3>2, CoverStays
  <2> QED  BY <2>4, <2>5
<1>4. CASE writing' = writing /\ claims' = Keep(Active)
  <2>1. \A i \in Active : Stays(i)
    BY <1>4 DEF Stays, Active, Keep
  <2> QED  BY <1>2, <1>4, <2>1, ClaimsStay
<1> QED  BY <1>1, <1>3, <1>4

LEMMA TurnStepCover ==
    ASSUME ClaimInv, TurnTypeOK, TurnInv, Covered, NEW p \in Procs, NEW t \in Threads,
           \/ UserTurn(p, t) \/ Iterate(p, t) \/ Read(p, t) \/ End(p, t)
           \/ GuardedWrite(p, t) \/ Written(p, t)
           \/ ClaimPaths(p, t) \/ ReleasePaths(p, t) \/ HandOffPaths(p, t)
           \/ OverrideConflict(p, t)
           \/ SendMessage(p, t) \/ AcknowledgeMessage(p, t)
           \/ Renew(p, t)
    PROVE  Covered'
<1>1. CASE \/ UserTurn(p, t) \/ Iterate(p, t) \/ Read(p, t) \/ SendMessage(p, t)
           \/ AcknowledgeMessage(p, t) \/ Renew(p, t)
  BY <1>1, SameCover DEF UserTurn, Begin, Iterate, Read, SendMessage,
         AcknowledgeMessage, Renew, ToolFrame, claimVars, turnVars
<1>2. CASE End(p, t)
  <2>1. \A i \in Active : claims[i].owner # t => Stays(i)
    BY <1>2 DEF End, Ended, Returned, Owned, Stays, Active, ClaimInv, ClaimTypeOK, Claims
  <2>2. turn[p][t] # "none" /\ writing[p][t] = {} /\ UNCHANGED <<writing, bereft, slipped>>
    BY <1>2 DEF End
  <2> QED  BY <2>1, <2>2, ClaimsGivenBack
<1>3. CASE Written(p, t)
  <2>1. \A i \in Active : Stays(i)
    BY <1>3 DEF Written, Stays, Active, claimVars
  <2>2. \A w \in Turns : w = <<p, t>> \/ writing'[w[1]][w[2]] = writing[w[1]][w[2]]
    BY <1>3 DEF Written, TurnTypeOK, Turns
  <2>3. writing'[p][t] = {} /\ bereft' = bereft \ {<<p, t>>} /\ slipped' = slipped
    BY <1>3 DEF Written, ToolFrame, TurnTypeOK
  <2> QED  BY <2>1, <2>2, <2>3, ClaimsStay
<1>4. CASE ClaimPaths(p, t)
  <2>1. PICK ps \in Requests : Granted(t, ps, <<p, t>>) \/ claims' = Keep(Active)
    BY <1>4 DEF ClaimPaths, Refused
  <2>2. ps \in SUBSET Paths /\ <<p, t>> \in Turns
    BY TurnAssumption DEF Turns
  <2>3. claims' = Keep(Active) => \A i \in Active : Stays(i)
    BY DEF Stays, Active, Keep
  <2>4. \A i \in Active : Stays(i)
    BY <2>1, <2>2, <2>3, GrantedCovers
  <2> QED  BY <1>4, <2>4, ClaimsStay DEF ClaimPaths, ToolFrame
<1>5. CASE ReleasePaths(p, t)
  <2>1. PICK ids : claims' = Keep(DOMAIN claims \ ids) /\ ids \subseteq Owned(t)
    BY <1>5 DEF ReleasePaths, Release, Touching
  <2>2. \A i \in Active : claims[i].owner # t => Stays(i)
    BY <2>1 DEF Owned, Keep, Stays, Active
  <2> QED  BY <1>5, <2>2, ClaimsGivenBack DEF ReleasePaths, Idle, ToolFrame
<1>6. CASE HandOffPaths(p, t)
  <2>1. \A i \in Active : claims[i].owner # t => Stays(i)
    BY <1>6 DEF HandOffPaths, HandOff, Touching, Owned, Stays, Active
  <2> QED  BY <1>6, <2>1, ClaimsGivenBack DEF HandOffPaths, Idle, ToolFrame
<1>7. CASE OverrideConflict(p, t)
  <2>1. PICK c : Override(c) /\ bereft' = bereft \cup WritersUnder({c.claim} \cap DOMAIN claims)
    BY <1>7 DEF OverrideConflict
  <2>2. \A i \in Active \ ({c.claim} \cap DOMAIN claims) : Stays(i)
    BY <2>1 DEF Override, Stays, Active
  <2> QED  BY <1>7, <2>1, <2>2, ClaimsTaken DEF OverrideConflict, ToolFrame
<1> QED  BY <1>1, <1>2, <1>3, <1>4, <1>5, <1>6, <1>7, WriteCover

LEMMA StepCover ==
    ASSUME ClaimInv, TurnTypeOK, TurnInv, Covered, [Next]_vars
    PROVE  Covered'
<1>1. CASE UNCHANGED vars
  BY <1>1, SameCover DEF vars, claimVars, turnVars
<1>2. ASSUME NEW p \in Procs, Schedule(p) \/ Restart(p)
      PROVE  Covered'
  BY <1>2, SameCover DEF Schedule, Restart, HandlerFrame, claimVars
<1>3. ASSUME NEW p \in Procs, Crash(p)
      PROVE  Covered'
  <2>1. \A i \in Active : Stays(i)
    BY <1>3 DEF Crash, Stays, Active, ClaimInv, ClaimTypeOK, Claims
  <2>2. \A w \in Turns : writing'[w[1]][w[2]] # {} =>
           w[1] # p /\ writing'[w[1]][w[2]] = writing[w[1]][w[2]]
    BY <1>3 DEF Crash, TurnTypeOK, Turns
  <2>3. slipped' = slipped /\ \A w \in bereft : w[1] # p => w \in bereft'
    BY <1>3 DEF Crash
  <2> QED  BY <2>1, <2>2, <2>3, ClaimsStay
<1>4. ASSUME NEW h \in handlers,
             \/ Check(h) \/ CheckFails(h) \/ WakeTurn(h)
             \/ FinishHandler(h) \/ RequeueHandler(h)
      PROVE  Covered'
  BY <1>4, SameCover DEF Check, CheckFails, WakeTurn, FinishHandler, RequeueHandler,
         Begin, HandlerFrame, claimVars
<1>5. ASSUME NEW k \in DOMAIN msgs, WakeAges(k)
      PROVE  Covered'
  BY <1>5, SameCover DEF WakeAges, claimVars
<1>6. ASSUME NEW i \in DOMAIN claims, ClaimExpires(i)
      PROVE  Covered'
  <2>1. \A j \in Active \ {i} : Stays(j)
    BY <1>6 DEF ClaimExpires, Expire, Stays, Active, ClaimInv, ClaimTypeOK
  <2> QED  BY <1>6, <2>1, ClaimsTaken DEF ClaimExpires
<1>7. ASSUME NEW t \in Threads, LeaseLapses(t)
      PROVE  Covered'
  BY <1>7, SameCover DEF LeaseLapses, claimVars
<1>8. ASSUME NEW t \in Threads, DeleteThread(t)
      PROVE  Covered'
  <2>1. \A i \in Active \ Owned(t) : Stays(i)
    BY <1>8 DEF DeleteThread, Forget, Keep, Stays, Active
  <2> QED  BY <1>8, <2>1, ClaimsTaken DEF DeleteThread
<1> QED  BY <1>1, <1>2, <1>3, <1>4, <1>5, <1>6, <1>7, <1>8, TurnStepCover DEF Next

LEMMA CoverInvariant == Spec => []Covered
<1>1. Init => Covered
  BY DEF Init, Covered, Turns
<1>2. ClaimInv /\ TurnTypeOK /\ TurnInv /\ Covered /\ [Next]_vars => Covered'
  BY StepCover
<1> QED  BY <1>1, <1>2, ClaimsInvariant, TypesInvariant, TurnsInvariant, PTL DEF Spec

\* What is written is what tool calls write.
WritesAreEdits == \A p \in Procs, t \in Threads : writing[p][t] \in Edits \cup {{}}

LEMMA EditsInvariant == Spec => []WritesAreEdits
<1>1. Init => WritesAreEdits
  BY DEF Init, WritesAreEdits
<1>2. TurnTypeOK /\ WritesAreEdits /\ [Next]_vars => WritesAreEdits'
  <2> SUFFICES ASSUME TurnTypeOK, WritesAreEdits, [Next]_vars
               PROVE  WritesAreEdits'
    OBVIOUS
  <2>1. ASSUME NEW p \in Procs, NEW t \in Threads, GuardedWrite(p, t)
        PROVE  WritesAreEdits'
    <3>1. writing' = writing \/ \E fs \in Edits : writing' = [writing EXCEPT ![p][t] = fs]
      BY <2>1 DEF GuardedWrite
    <3>2. ASSUME NEW fs \in Edits, writing' = [writing EXCEPT ![p][t] = fs]
          PROVE  WritesAreEdits'
      BY <3>2 DEF WritesAreEdits, TurnTypeOK
    <3> QED  BY <3>1, <3>2 DEF WritesAreEdits
  <2>2. ASSUME NEW p \in Procs, NEW t \in Threads, Written(p, t)
        PROVE  WritesAreEdits'
    BY <2>2 DEF Written, WritesAreEdits, TurnTypeOK
  <2>3. ASSUME NEW p \in Procs, Crash(p)
        PROVE  WritesAreEdits'
    BY <2>3 DEF Crash, WritesAreEdits, TurnTypeOK
  <2>4. CASE UNCHANGED writing
    BY <2>4 DEF WritesAreEdits
  <2>5. \/ UNCHANGED writing
        \/ \E p \in Procs, t \in Threads : GuardedWrite(p, t) \/ Written(p, t)
        \/ \E p \in Procs : Crash(p)
    <3>1. ASSUME NEW p \in Procs, NEW t \in Threads,
                 \/ UserTurn(p, t) \/ Iterate(p, t) \/ Read(p, t) \/ End(p, t)
                 \/ ClaimPaths(p, t) \/ ReleasePaths(p, t) \/ HandOffPaths(p, t)
                 \/ OverrideConflict(p, t)
                 \/ SendMessage(p, t) \/ AcknowledgeMessage(p, t)
                 \/ Renew(p, t)
          PROVE  UNCHANGED writing
      BY <3>1 DEF UserTurn, Begin, Iterate, Read, End, ClaimPaths, ReleasePaths,
             HandOffPaths, OverrideConflict, SendMessage, AcknowledgeMessage, Renew,
             turnVars
    <3>2. ASSUME NEW p \in Procs, Schedule(p) \/ Restart(p)
          PROVE  UNCHANGED writing
      BY <3>2 DEF Schedule, Restart, HandlerFrame
    <3>3. ASSUME NEW h \in handlers,
                 \/ Check(h) \/ CheckFails(h) \/ WakeTurn(h)
                 \/ FinishHandler(h) \/ RequeueHandler(h)
          PROVE  UNCHANGED writing
      BY <3>3 DEF Check, CheckFails, WakeTurn, FinishHandler, RequeueHandler,
             Begin, HandlerFrame
    <3>4. ASSUME \/ \E k \in DOMAIN msgs : WakeAges(k)
                 \/ \E i \in DOMAIN claims : ClaimExpires(i)
                 \/ \E t \in Threads : LeaseLapses(t) \/ DeleteThread(t)
          PROVE  UNCHANGED writing
      BY <3>4 DEF WakeAges, ClaimExpires, LeaseLapses, DeleteThread
    <3>5. CASE UNCHANGED vars
      BY <3>5 DEF vars, turnVars
    <3> QED  BY <3>1, <3>2, <3>3, <3>4, <3>5 DEF Next
  <2> QED  BY <2>1, <2>2, <2>3, <2>4, <2>5
<1> QED  BY <1>1, <1>2, TypesInvariant, PTL DEF Spec

\* What tools write are files: nothing lies below them.
EditsAreFiles ==
    \A fs \in Edits : \A f \in fs, q \in Paths : <<q, f>> \in Below => q = f

\* As long as tools write files and no request names a path and another one
\* below it, two threads never write the same file at a time (thread_guard.py),
\* unless a claim was taken from the one as it wrote, or its lease ran out.
THEOREM NeverSharedWrite ==
    ASSUME Unnested(Requests), EditsAreFiles
    PROVE  Spec => []WritesExclusive
<1>1. Unnested(Requests \cup Edits)
  BY TurnAssumption DEF Unnested, EditsAreFiles, Overlap
<1>2. ClaimsExclusive /\ ClaimInv /\ Covered /\ WritesAreEdits => WritesExclusive
  <2> SUFFICES ASSUME ClaimsExclusive, ClaimInv, Covered, WritesAreEdits,
                      NEW v \in Turns, NEW w \in Turns, v[2] # w[2],
                      NEW f \in writing[v[1]][v[2]], NEW g \in writing[w[1]][w[2]],
                      Overlap(f, g),
                      {v, w} \cap bereft = {}, {v[2], w[2]} \cap slipped = {}
               PROVE  FALSE
    BY DEF WritesExclusive
  <2>1. /\ f \in Paths /\ \A q \in Paths : <<q, f>> \in Below => q = f
        /\ g \in Paths /\ \A q \in Paths : <<q, g>> \in Below => q = g
    <3>1. v[1] \in Procs /\ v[2] \in Threads /\ w[1] \in Procs /\ w[2] \in Threads
      BY DEF Turns
    <3>2. writing[v[1]][v[2]] \in Edits /\ writing[w[1]][w[2]] \in Edits
      BY <3>1 DEF WritesAreEdits
    <3> QED  BY <3>2, TurnAssumption DEF EditsAreFiles
  <2>2. f = g
    BY <2>1 DEF Overlap
  <2>3. PICK i \in Active : claims[i].owner = v[2] /\ Overlap(f, claims[i].path)
    BY DEF Covered, Covers
  <2>4. PICK j \in Active : claims[j].owner = w[2] /\ Overlap(g, claims[j].path)
    BY DEF Covered, Covers
  <2>5. claims[i].path \in Paths /\ claims[j].path \in Paths
    BY DEF ClaimInv, ClaimTypeOK, Claims, Active
  <2>6. <<f, claims[i].path>> \in Below /\ <<f, claims[j].path>> \in Below
    BY <2>1, <2>2, <2>3, <2>4, <2>5 DEF Overlap
  <2>7. Overlap(claims[i].path, claims[j].path)
    BY <2>1, <2>5, <2>6, PathAssumption
  <2> QED  BY <2>3, <2>4, <2>7 DEF ClaimsExclusive, Active
<1> QED  BY <1>1, <1>2, NeverSharedClaim, ClaimsInvariant, CoverInvariant,
            EditsInvariant, PTL
=============================================================================
