------------------------- MODULE InstallationGroups -------------------------
(***************************************************************************)
(* What install and uninstall do to the groups in hooks.json and to the    *)
(* trust records, for all groups of handlers that users may have written.  *)
(* A filtered list is defined by recursion: what is proved of it is proved *)
(* by induction on its length.                                             *)
(***************************************************************************)
EXTENDS InstallationProofs, Recursion
LOCAL INSTANCE SequencesExt

-----------------------------------------------------------------------------
(* handlersWithoutGuard.                                                   *)

\* What the loop has kept of the first n handlers.
Keeps(handlers, kept, n) ==
  kept = [k \in 0..n |-> IF k = 0 THEN <<>>
                         ELSE IF isGuardHookCommand(handlers[k]) THEN kept[k - 1]
                         ELSE Append(kept[k - 1], handlers[k])]

\* The recursion defines a function.
LEMMA KeptExists == ASSUME NEW handlers \in Seq(Handler)
                    PROVE  \E kept : Keeps(handlers, kept, Len(handlers))
<1> DEFINE N == Len(handlers)
           T == {n \in 0..N : \E kept : Keeps(handlers, kept, n)}
<1>0. N \in Nat
  OBVIOUS
<1>1. 0 \in T
  <2> DEFINE kept == [k \in 0..0 |-> <<>>]
  <2>1. Keeps(handlers, kept, 0)
    BY DEF Keeps
  <2> HIDE DEF kept
  <2> QED BY <1>0, <2>1
<1>2. ASSUME NEW n \in 0..N, n \in T, n < N PROVE n + 1 \in T
  <2>1. PICK kept : Keeps(handlers, kept, n)
    BY <1>2
  <2> DEFINE more == [k \in 0..(n + 1) |->
                        IF k <= n THEN kept[k]
                        ELSE IF isGuardHookCommand(handlers[k]) THEN kept[k - 1]
                        ELSE Append(kept[k - 1], handlers[k])]
  <2>2. \A k \in 0..(n + 1) : k # 0 => more[k - 1] = kept[k - 1]
    OBVIOUS
  <2>3. \A k \in 0..n : kept[k] = IF k = 0 THEN <<>>
                                  ELSE IF isGuardHookCommand(handlers[k]) THEN kept[k - 1]
                                  ELSE Append(kept[k - 1], handlers[k])
    BY <2>1 DEF Keeps
  <2>4. ASSUME NEW k \in 0..(n + 1)
        PROVE  more[k] = IF k = 0 THEN <<>>
                         ELSE IF isGuardHookCommand(handlers[k]) THEN more[k - 1]
                         ELSE Append(more[k - 1], handlers[k])
    <3>1. CASE k <= n
      <4>1. k \in 0..n /\ more[k] = kept[k]
        BY <3>1
      <4> HIDE DEF more
      <4> QED BY <2>2, <2>3, <4>1
    <3>2. CASE ~(k <= n)
      <4>1. k # 0 /\ more[k] = IF isGuardHookCommand(handlers[k]) THEN kept[k - 1]
                               ELSE Append(kept[k - 1], handlers[k])
        BY <3>2
      <4> HIDE DEF more
      <4> QED BY <2>2, <4>1
    <3> QED BY <3>1, <3>2
  <2>5. more = [k \in 0..(n + 1) |-> more[k]]
    OBVIOUS
  <2>6. n + 1 \in 0..N
    BY <1>0, <1>2
  <2> HIDE DEF more
  <2>7. Keeps(handlers, more, n + 1)
    BY <2>4, <2>5 DEF Keeps
  <2> QED BY <2>6, <2>7
<1>3. \A n \in 0..N : n \in T
  <2> HIDE DEF T, N
  <2> QED BY <1>0, <1>1, <1>2, Upwards
<1>4. N \in T
  BY <1>0, <1>3
<1> QED BY <1>4

LEMMA KeptHandlers == ASSUME NEW handlers \in Seq(Handler)
                      PROVE  \E kept : /\ Keeps(handlers, kept, Len(handlers))
                                       /\ handlersWithoutGuard(handlers) = kept[Len(handlers)]
<1> DEFINE kept == CHOOSE kept : Keeps(handlers, kept, Len(handlers))
<1>1. handlersWithoutGuard(handlers) = kept[Len(handlers)]
  BY DEF handlersWithoutGuard, Keeps
<1>2. Keeps(handlers, kept, Len(handlers))
  BY KeptExists
<1> QED BY <1>1, <1>2

\* What is kept are handlers of others; nothing if all are the guard's, and
\* everything if none is.
LEMMA WithoutGuard ==
  ASSUME NEW handlers \in Seq(Handler)
  PROVE  /\ handlersWithoutGuard(handlers) \in Seq(Handler \ GuardHandler)
         /\ (\A j \in DOMAIN handlers : isGuardHookCommand(handlers[j]))
              => handlersWithoutGuard(handlers) = <<>>
         /\ (\A j \in DOMAIN handlers : ~isGuardHookCommand(handlers[j]))
              => handlersWithoutGuard(handlers) = handlers
<1> DEFINE N == Len(handlers)
<1>0. N \in Nat
  OBVIOUS
<1>1. PICK kept : Keeps(handlers, kept, N) /\ handlersWithoutGuard(handlers) = kept[N]
  BY KeptHandlers
<1>2. kept[0] = <<>> /\ \A n \in 0..N : n < N =>
        kept[n + 1] = IF isGuardHookCommand(handlers[n + 1]) THEN kept[n]
                      ELSE Append(kept[n], handlers[n + 1])
  <2>1. \A k \in 0..N : kept[k] = IF k = 0 THEN <<>>
                                  ELSE IF isGuardHookCommand(handlers[k]) THEN kept[k - 1]
                                  ELSE Append(kept[k - 1], handlers[k])
    BY <1>1 DEF Keeps
  <2>2. ASSUME NEW n \in 0..N, n < N PROVE n + 1 \in 0..N /\ n + 1 # 0 /\ n + 1 - 1 = n
    BY <1>0, <2>2
  <2> QED BY <1>0, <2>1, <2>2
<1>3. \A n \in 0..N : n < N => n + 1 \in DOMAIN handlers /\ handlers[n + 1] \in Handler
  OBVIOUS
<1> HIDE DEF N
<1>4. kept[N] \in Seq(Handler \ GuardHandler)
  <2> DEFINE Other == Handler \ GuardHandler
             T == {n \in 0..N : kept[n] \in Seq(Other)}
  <2>1. \A h \in Handler : ~isGuardHookCommand(h) => h \in Other
    BY DEF isGuardHookCommand
  <2> HIDE DEF Other
  <2>2. 0 \in T
    <3>1. <<>> \in Seq(Other)
      OBVIOUS
    <3>2. kept[0] \in Seq(Other) /\ 0 \in 0..N
      BY <1>0, <1>2, <3>1
    <3> QED BY <3>2
  <2>3. ASSUME NEW n \in 0..N, n \in T, n < N PROVE n + 1 \in T
    <3>1. handlers[n + 1] \in Handler /\ n + 1 \in 0..N
      BY <1>0, <1>3, <2>3
    <3>2. CASE isGuardHookCommand(handlers[n + 1])
      BY <1>2, <2>3, <3>1, <3>2
    <3>3. CASE ~isGuardHookCommand(handlers[n + 1])
      <4>1. kept[n + 1] = Append(kept[n], handlers[n + 1]) /\ handlers[n + 1] \in Other
        BY <1>2, <2>1, <2>3, <3>1, <3>3
      <4>2. \A s \in Seq(Other), h \in Other : Append(s, h) \in Seq(Other)
        OBVIOUS
      <4>3. kept[n] \in Seq(Other)
        BY <2>3
      <4>4. kept[n + 1] \in Seq(Other)
        BY <4>1, <4>2, <4>3
      <4> QED BY <3>1, <4>4
    <3> QED BY <3>2, <3>3
  <2>4. \A n \in 0..N : n \in T
    <3> HIDE DEF T
    <3> QED BY <1>0, <2>2, <2>3, Upwards
  <2>5. kept[N] \in Seq(Other)
    BY <1>0, <2>4
  <2> QED BY <2>5 DEF Other
<1>5. ASSUME \A j \in DOMAIN handlers : isGuardHookCommand(handlers[j]) PROVE kept[N] = <<>>
  <2> DEFINE T == {n \in 0..N : kept[n] = <<>>}
  <2>1. 0 \in T
    BY <1>0, <1>2
  <2>2. ASSUME NEW n \in 0..N, n \in T, n < N PROVE n + 1 \in T
    <3>1. n + 1 \in DOMAIN handlers /\ n + 1 \in 0..N
      BY <1>0, <1>3, <2>2
    <3> QED BY <1>2, <1>5, <2>2, <3>1
  <2>3. \A n \in 0..N : n \in T
    <3> HIDE DEF T
    <3> QED BY <1>0, <2>1, <2>2, Upwards
  <2> QED BY <1>0, <2>3
<1>6. ASSUME \A j \in DOMAIN handlers : ~isGuardHookCommand(handlers[j]) PROVE kept[N] = handlers
  <2> DEFINE T == {n \in 0..N : kept[n] = [j \in 1..n |-> handlers[j]]}
  <2>1. 0 \in T
    BY <1>0, <1>2
  <2>2. ASSUME NEW n \in 0..N, n \in T, n < N PROVE n + 1 \in T
    <3>1. n + 1 \in DOMAIN handlers /\ n + 1 \in 0..N /\ n \in Nat
      BY <1>0, <1>3, <2>2
    <3>2. kept[n + 1] = Append([j \in 1..n |-> handlers[j]], handlers[n + 1])
      BY <1>2, <1>6, <2>2, <3>1
    <3>3. Append([j \in 1..n |-> handlers[j]], handlers[n + 1]) = [j \in 1..(n + 1) |-> handlers[j]]
      BY <3>1
    <3> QED BY <3>1, <3>2, <3>3
  <2>3. \A n \in 0..N : n \in T
    <3> HIDE DEF T
    <3> QED BY <1>0, <2>1, <2>2, Upwards
  <2>4. handlers = [j \in 1..N |-> handlers[j]]
    BY DEF N
  <2> QED BY <1>0, <2>3, <2>4
<1> QED BY <1>1, <1>4, <1>5, <1>6

-----------------------------------------------------------------------------
(* Groups.                                                                 *)

LEMMA Cleaned ==
  ASSUME NEW group \in Group
  PROVE  /\ withoutGuard(group) \in Group
         /\ withoutGuard(group).hooks = handlersWithoutGuard(group.hooks)
         /\ ~groupHasGuardCommand(withoutGuard(group))
         /\ handlersWithoutGuard(withoutGuard(group).hooks) = handlersWithoutGuard(group.hooks)
         /\ withoutGuard(withoutGuard(group)) = withoutGuard(group)
<1> DEFINE rest == handlersWithoutGuard(group.hooks)
<1>1. group.hooks \in Seq(Handler) /\ group.own \in BOOLEAN
      /\ group = [own |-> group.own, hooks |-> group.hooks]
  BY DEF Group
<1>2. rest \in Seq(Handler \ GuardHandler)
  BY <1>1, WithoutGuard
<1>3. withoutGuard(group) = [own |-> group.own, hooks |-> rest]
  BY <1>1 DEF withoutGuard
<1> HIDE DEF rest
<1>4. rest \in Seq(Handler) /\ \A j \in DOMAIN rest : ~isGuardHookCommand(rest[j])
  <2>1. \A j \in DOMAIN rest : rest[j] \in Handler \ GuardHandler
    BY <1>2
  <2>2. rest \in Seq(Handler)
    BY <1>2, <2>1
  <2> QED BY <2>1, <2>2 DEF isGuardHookCommand
<1>5. handlersWithoutGuard(rest) = rest
  BY <1>4, WithoutGuard
<1>6. withoutGuard(withoutGuard(group)) = withoutGuard(group)
  BY <1>3, <1>5 DEF withoutGuard
<1> QED BY <1>1, <1>3, <1>4, <1>5, <1>6 DEF rest, Group, groupHasGuardCommand

LEMMA Expected ==
  /\ expectedGuardGroup \in Group
  /\ expectedGuardGroup.hooks = <<"guard">>
  /\ onlyGuard(expectedGuardGroup)
<1>1. "guard" \in Handler /\ isGuardHookCommand("guard")
  BY DEF Handler, GuardHandler, isGuardHookCommand
<1>2. <<"guard">> \in Seq(Handler)
  BY <1>1
<1>3. \A j \in DOMAIN <<"guard">> : isGuardHookCommand(<<"guard">>[j])
  BY <1>1
<1>4. handlersWithoutGuard(<<"guard">>) = <<>>
  BY <1>2, <1>3, WithoutGuard
<1> QED BY <1>1, <1>2, <1>4 DEF expectedGuardGroup, Group, onlyGuard, groupHasGuardCommand

\* The index of the guard's group.
LEMMA GuardIndex ==
  ASSUME NEW groups \in Seq(Group)
  PROVE  /\ guardIndex(groups) \in 1..(Len(groups) + 1)
         /\ guardIndex(groups) <= Len(groups) => onlyGuard(groups[guardIndex(groups)])
<1> DEFINE candidates == {i \in DOMAIN groups : onlyGuard(groups[i])} \cup {Len(groups) + 1}
<1>1. candidates \in SUBSET Nat /\ candidates \subseteq 1..(Len(groups) + 1)
      /\ Len(groups) + 1 \in candidates /\ Len(groups) \in Nat
  OBVIOUS
<1>2. \A i \in candidates : i <= Len(groups) => onlyGuard(groups[i])
  OBVIOUS
<1>3. guardIndex(groups) = CHOOSE i \in candidates : \A j \in candidates : i <= j
  BY DEF guardIndex
<1> HIDE DEF candidates
<1>4. \E i \in candidates : \A j \in candidates : i <= j
  BY <1>1, LeastNatural
<1>5. guardIndex(groups) \in candidates
  BY <1>3, <1>4, Zenon
<1> QED BY <1>1, <1>2, <1>5

\* The guard's complete group at n, and its handler nowhere else.
Single(groups, n) == /\ n \in DOMAIN groups /\ groups[n] = expectedGuardGroup
                     /\ \A i \in DOMAIN groups : i # n => ~groupHasGuardCommand(groups[i])

\* That is where it is found, and what Codex runs.
LEMMA FoundSingle ==
  ASSUME NEW groups \in Seq(Group), NEW n, Single(groups, n)
  PROVE  foundIndex(groups) = n /\ n > 0 /\ GuardPlaces(groups) = {<<n, 1>>}
<1>1. n \in Nat /\ n > 0 /\ n \in DOMAIN groups
  BY DEF Single
<1>2. groupHasGuardCommand(expectedGuardGroup)
  BY Expected DEF onlyGuard
<1>3. {i \in DOMAIN groups : groupIsExpectedGuard(groups[i])} = {n}
  BY <1>2 DEF Single, groupIsExpectedGuard
<1>4. foundIndex(groups) = n
  BY <1>1, <1>3 DEF foundIndex
<1> DEFINE places(i) == {k \in DOMAIN groups[i].hooks : isGuardHookCommand(groups[i].hooks[k])}
<1>5. places(n) = {1}
  <2>1. groups[n].hooks = <<"guard">> /\ isGuardHookCommand("guard")
    BY Expected DEF Single, isGuardHookCommand, GuardHandler
  <2> QED BY <2>1
<1>6. \A i \in DOMAIN groups : i # n => places(i) = {}
  BY DEF Single, groupHasGuardCommand
<1>7. GuardPlaces(groups) = UNION {{<<i, j>> : j \in places(i)} : i \in DOMAIN groups}
  BY DEF GuardPlaces
<1> HIDE DEF places
<1>8. \A p : p \in GuardPlaces(groups) <=> \E i \in DOMAIN groups : \E j \in places(i) : p = <<i, j>>
  BY <1>7
<1>9. \A p : p \in GuardPlaces(groups) <=> p = <<n, 1>>
  BY <1>1, <1>5, <1>6, <1>8
<1> QED BY <1>1, <1>4, <1>9

LEMMA InstalledGroups ==
  ASSUME NEW groups \in Seq(Group)
  PROVE  /\ installGuardHookGroup(groups) \in Seq(Group)
         /\ Single(installGuardHookGroup(groups), guardIndex(groups))
         /\ OthersOf(installGuardHookGroup(groups)) = OthersOf(groups)
<1> DEFINE n   == guardIndex(groups)
           len == IF n > Len(groups) THEN n ELSE Len(groups)
           new == [i \in 1..len |-> IF i = n THEN expectedGuardGroup ELSE withoutGuard(groups[i])]
<1>1. /\ n \in 1..(Len(groups) + 1) /\ Len(groups) \in Nat
      /\ n <= Len(groups) => onlyGuard(groups[n])
  BY GuardIndex
<1>2. installGuardHookGroup(groups) = new
  BY DEF installGuardHookGroup
<1>3. \A i \in DOMAIN groups : /\ groups[i] \in Group
                               /\ withoutGuard(groups[i]) \in Group
                               /\ ~groupHasGuardCommand(withoutGuard(groups[i]))
  BY Cleaned
<1> HIDE DEF n
<1>4. /\ len \in Nat /\ n \in 1..len /\ DOMAIN groups = 1..Len(groups)
      /\ \A i \in 1..len : i # n => i \in DOMAIN groups
      /\ DOMAIN groups \subseteq 1..len
  BY <1>1
<1> HIDE DEF len
<1>5. new \in Seq(Group)
  <2>1. \A i \in 1..len : new[i] \in Group
    BY <1>3, <1>4, Expected
  <2> HIDE DEF new
  <2>2. new = [i \in 1..len |-> new[i]]
    BY DEF new
  <2> QED BY <1>4, <2>1, <2>2
<1>6. Single(new, n)
  BY <1>3, <1>4 DEF Single
<1>7. OthersOf(new) = OthersOf(groups)
  <2> DEFINE old == {k \in DOMAIN groups : handlersWithoutGuard(groups[k].hooks) # <<>>}
             now == {k \in DOMAIN new : handlersWithoutGuard(new[k].hooks) # <<>>}
  <2>1. n \notin old /\ n \notin now
    BY <1>1, <1>4, Expected DEF onlyGuard
  <2>2. \A i \in 1..len : i # n =>
           /\ new[i] = withoutGuard(groups[i])
           /\ handlersWithoutGuard(new[i].hooks) = handlersWithoutGuard(groups[i].hooks)
           /\ withoutGuard(new[i]) = withoutGuard(groups[i])
    BY <1>3, <1>4, Cleaned
  <2>3. DOMAIN new = 1..len
    OBVIOUS
  <2> HIDE DEF new
  <2>4. old = now
    BY <1>4, <2>1, <2>2, <2>3
  <2>5. \A i \in old : withoutGuard(new[i]) = withoutGuard(groups[i])
    BY <1>4, <2>1, <2>2
  <2>6. /\ OthersOf(new) = {<<i, withoutGuard(new[i])>> : i \in now}
        /\ OthersOf(groups) = {<<i, withoutGuard(groups[i])>> : i \in old}
    BY DEF OthersOf
  <2> HIDE DEF old, now
  <2> QED BY <2>4, <2>5, <2>6
<1> QED BY <1>2, <1>5, <1>6, <1>7 DEF n

\* No handler of the guard is left, and no group of others moves.
LEMMA RemovedGroups ==
  ASSUME NEW groups \in Seq(Group)
  PROVE  /\ removeGuardHookGroup(groups) \in Seq(Group)
         /\ GuardPlaces(removeGuardHookGroup(groups)) = {}
         /\ OthersOf(removeGuardHookGroup(groups)) = OthersOf(groups)
         /\ (groups = <<>> \/ (Len(groups) = 1 /\ onlyGuard(groups[1])))
              => removeGuardHookGroup(groups) = <<>>
<1> DEFINE n       == Len(groups)
           cleaned == [i \in 1..n |-> withoutGuard(groups[i])]
           len     == IF n > 0 /\ onlyGuard(groups[n]) THEN n - 1 ELSE n
           new     == [i \in 1..len |-> withoutGuard(groups[i])]
<1>1. n \in Nat /\ DOMAIN groups = 1..n
  OBVIOUS
<1>2. \A i \in 1..n : /\ groups[i] \in Group
                      /\ withoutGuard(groups[i]) \in Group
                      /\ ~groupHasGuardCommand(withoutGuard(groups[i]))
  BY Cleaned
<1>3. cleaned \in Seq(Group) /\ Len(cleaned) = n /\ \A i \in 1..n : cleaned[i] = withoutGuard(groups[i])
  <2> HIDE DEF n
  <2> QED BY <1>1, <1>2
<1>4. removeGuardHookGroup(groups) = IF n > 0 /\ onlyGuard(groups[n])
                                     THEN SubSeq(cleaned, 1, n - 1) ELSE cleaned
  BY DEF removeGuardHookGroup
<1>5. len \in Nat /\ 1..len \subseteq 1..n /\ \A i \in (1..n) \ (1..len) : onlyGuard(groups[i])
  BY <1>1
<1> HIDE DEF n, cleaned
<1>6. removeGuardHookGroup(groups) = new
  <2>1. CASE n > 0 /\ onlyGuard(groups[n])
    <3>1. SubSeq(cleaned, 1, n - 1) = [i \in 1..(n - 1) |-> cleaned[i]]
      BY <1>1, <1>3, <2>1
    <3>2. \A i \in 1..(n - 1) : cleaned[i] = withoutGuard(groups[i])
      BY <1>1, <1>3
    <3> QED BY <1>4, <2>1, <3>1, <3>2
  <2>2. CASE ~(n > 0 /\ onlyGuard(groups[n]))
    BY <1>4, <2>2 DEF cleaned
  <2> QED BY <2>1, <2>2
<1> HIDE DEF len
<1>7. new \in Seq(Group) /\ DOMAIN new = 1..len
  BY <1>2, <1>5
<1>8. \A i \in 1..len : new[i] = withoutGuard(groups[i])
  OBVIOUS
<1>9. (n = 0 \/ (n = 1 /\ onlyGuard(groups[1]))) => new = <<>>
  <2>1. (n = 0 \/ (n = 1 /\ onlyGuard(groups[1]))) => len = 0
    BY DEF len
  <2> QED BY <2>1
<1> HIDE DEF new
<1>10. GuardPlaces(new) = {}
  <2>1. \A i \in DOMAIN new : ~groupHasGuardCommand(new[i])
    BY <1>2, <1>5, <1>7, <1>8
  <2> QED BY <2>1 DEF GuardPlaces, groupHasGuardCommand
<1>11. OthersOf(new) = OthersOf(groups)
  <2> DEFINE old == {k \in DOMAIN groups : handlersWithoutGuard(groups[k].hooks) # <<>>}
             now == {k \in DOMAIN new : handlersWithoutGuard(new[k].hooks) # <<>>}
  <2>1. old \subseteq 1..len
    BY <1>1, <1>5 DEF onlyGuard
  <2>2. \A i \in 1..len :
           /\ handlersWithoutGuard(new[i].hooks) = handlersWithoutGuard(groups[i].hooks)
           /\ withoutGuard(new[i]) = withoutGuard(groups[i])
    BY <1>2, <1>5, <1>8, Cleaned
  <2>3. old = now
    BY <1>1, <1>5, <1>7, <2>1, <2>2
  <2>4. \A i \in old : withoutGuard(new[i]) = withoutGuard(groups[i])
    BY <2>1, <2>2
  <2>5. /\ OthersOf(new) = {<<i, withoutGuard(new[i])>> : i \in now}
        /\ OthersOf(groups) = {<<i, withoutGuard(groups[i])>> : i \in old}
    BY DEF OthersOf
  <2> HIDE DEF old, now
  <2> QED BY <2>3, <2>4, <2>5
<1>12. groups = <<>> => n = 0
  BY DEF n
<1> QED BY <1>6, <1>7, <1>9, <1>10, <1>11, <1>12 DEF n

\* What users make of groups are groups.
LEMMA Edited ==
  ASSUME NEW groups \in Seq(Group), NEW edited \in EditedGroups(groups)
  PROVE  edited \in Seq(Group)
<1> DEFINE mine(u) == [own |-> FALSE, hooks |-> <<u>>]
           unused  == {u \in UserHandler : \A i \in DOMAIN groups : ~Contains(groups[i].hooks, u)}
           guarded == {i \in DOMAIN groups : groupHasGuardCommand(groups[i])}
           With(i, handlers) == [groups EXCEPT ![i].hooks = handlers]
<1>1. \A u \in UserHandler : mine(u) \in Group
  BY DEF Group, Handler
<1>2. ASSUME NEW i \in DOMAIN groups, NEW s \in Seq(Handler) PROVE With(i, s) \in Seq(Group)
  <2>1. groups[i] \in Group
    OBVIOUS
  <2>2. [groups[i] EXCEPT !.hooks = s] \in Group
    BY <2>1 DEF Group
  <2>3. With(i, s) = [groups EXCEPT ![i] = [groups[i] EXCEPT !.hooks = s]]
    OBVIOUS
  <2>4. \A g \in Group : [groups EXCEPT ![i] = g] \in Seq(Group)
    OBVIOUS
  <2> QED BY <2>2, <2>3, <2>4
<1>3. ASSUME NEW u \in UserHandler, NEW i \in DOMAIN groups
      PROVE  /\ <<u>> \o groups[i].hooks \in Seq(Handler)
             /\ Append(groups[i].hooks, u) \in Seq(Handler)
  <2>1. groups[i].hooks \in Seq(Handler)
    <3>1. groups[i] \in Group
      OBVIOUS
    <3> QED BY <3>1 DEF Group
  <2>2. u \in Handler
    BY DEF Handler
  <2> QED BY <2>1, <2>2
<1>4. <<"edited">> \in Seq(Handler)
  BY DEF Handler, GuardHandler
<1>5. \A g \in Group : InsertAt(groups, 1, g) \in Seq(Group) /\ Append(groups, g) \in Seq(Group)
  BY DEF InsertAt
<1>6. \A i \in DOMAIN groups : RemoveAt(groups, i) \in Seq(Group)
  BY DEF RemoveAt
<1>7. unused \subseteq UserHandler /\ guarded \subseteq DOMAIN groups
  OBVIOUS
<1>8. \/ \E u \in unused : edited = InsertAt(groups, 1, mine(u))
      \/ \E u \in unused : edited = Append(groups, mine(u))
      \/ \E i \in guarded : \E u \in unused : edited = With(i, <<u>> \o groups[i].hooks)
      \/ \E i \in guarded : \E u \in unused : edited = With(i, Append(groups[i].hooks, u))
      \/ \E i \in guarded : edited = With(i, <<"edited">>)
      \/ \E i \in guarded : edited = Append(groups, groups[i])
      \/ \E i \in DOMAIN groups : edited = RemoveAt(groups, i)
  <2> DEFINE A == {InsertAt(groups, 1, mine(u)) : u \in unused}
             B == {Append(groups, mine(u)) : u \in unused}
             C == {With(i, <<u>> \o groups[i].hooks) : i \in guarded, u \in unused}
             D == {With(i, Append(groups[i].hooks, u)) : i \in guarded, u \in unused}
             E == {With(i, <<"edited">>) : i \in guarded}
             F == {Append(groups, groups[i]) : i \in guarded}
             G == {RemoveAt(groups, i) : i \in DOMAIN groups}
  <2>1. EditedGroups(groups) = (A \cup B) \cup (C \cup D) \cup E \cup F \cup G
    BY DEF EditedGroups
  <2> HIDE DEF mine, unused, guarded, With
  <2>2. /\ edited \in A => \E u \in unused : edited = InsertAt(groups, 1, mine(u))
        /\ edited \in B => \E u \in unused : edited = Append(groups, mine(u))
        /\ edited \in C => \E i \in guarded : \E u \in unused : edited = With(i, <<u>> \o groups[i].hooks)
        /\ edited \in D => \E i \in guarded : \E u \in unused : edited = With(i, Append(groups[i].hooks, u))
        /\ edited \in E => \E i \in guarded : edited = With(i, <<"edited">>)
        /\ edited \in F => \E i \in guarded : edited = Append(groups, groups[i])
        /\ edited \in G => \E i \in DOMAIN groups : edited = RemoveAt(groups, i)
    OBVIOUS
  <2> HIDE DEF A, B, C, D, E, F, G
  <2> QED BY <2>1, <2>2, Zenon
<1>9. \A i \in DOMAIN groups : groups[i] \in Group
  OBVIOUS
<1> HIDE DEF mine, unused, guarded, With
<1> QED BY <1>1, <1>2, <1>3, <1>4, <1>5, <1>6, <1>7, <1>8, <1>9

USE MarkAssumption DEF Installing, Uninstalling, Changing, Installed, Command, Program

-----------------------------------------------------------------------------
(* Types.                                                                  *)

\* backupHooksOnce rejects a hooks.json that is no JSON before installHook
\* reads it.
Readable == pc = "hooks" => hooks # Broken

LEMMA Contents ==
  /\ \A s \in Settings : s # Absent /\ s.dir \in Dir /\ s.hash \in Version /\ s.created \in BOOLEAN
                         /\ s.key \in Keys
  /\ \A root \in Hooks : root # Absent /\ root # Broken /\ root.own \in BOOLEAN
                         /\ root.groups \in [Event -> Seq(Group)]
                         /\ root = [own |-> root.own, groups |-> root.groups]
  /\ \A c \in Config : c # Absent
  /\ \A o \in Operation : o # Absent /\ o.settings \in Settings /\ o.owned \in BOOLEAN
                          /\ o = [settings |-> o.settings, owned |-> o.owned]
  /\ \A s \in Snapshot : s # Absent /\ s.bin \in [Command -> Program]
                         /\ s.hooks \in Hooks \cup {Absent, Broken}
                         /\ s.config \in Config \cup {Absent} /\ s.settings \in Settings \cup {Absent}
<1>1. \A s \in Settings : s # Absent /\ s.dir \in Dir /\ s.hash \in Version /\ s.created \in BOOLEAN
                          /\ s.key \in Keys
  BY ContentAssumption DEF Settings
<1>2. \A root \in Hooks : root # Absent /\ root # Broken /\ root.own \in BOOLEAN
                          /\ root.groups \in [Event -> Seq(Group)]
                          /\ root = [own |-> root.own, groups |-> root.groups]
  BY ContentAssumption DEF Hooks
<1>3. \A c \in Config : c # Absent
  BY ContentAssumption
<1>4. \A o \in Operation : o # Absent /\ o.settings \in Settings /\ o.owned \in BOOLEAN
                           /\ o = [settings |-> o.settings, owned |-> o.owned]
  BY ContentAssumption DEF Operation
<1>5. \A s \in Snapshot : s # Absent /\ s.bin \in [Command -> Program]
                          /\ s.hooks \in Hooks \cup {Absent, Broken}
                          /\ s.config \in Config \cup {Absent} /\ s.settings \in Settings \cup {Absent}
  BY ContentAssumption DEF Snapshot
<1> QED BY <1>1, <1>2, <1>3, <1>4, <1>5

\* The types of the files, of the running command and of the counters.
FilesTyped == /\ bin \in [Dir -> [Command -> Program]]
              /\ hooks \in Hooks \cup {Absent, Broken}
              /\ config \in Config \cup {Absent}
              /\ settings \in Settings \cup {Absent}
CommandTyped == /\ pc \in Installing \cup Uninstalling \cup {"rollback", "idle"}
                /\ op \in Operation \cup {Absent} /\ snap \in Snapshot \cup {Absent}
                /\ pc # "idle" => op # Absent
                /\ pc \in Changing => snap # Absent
                /\ at \in 0..5 /\ lost \in BOOLEAN
RestTyped == /\ backup \in [hooks : Backups, config : Backups]
             /\ outcome \in {"none", "installed", "restored", "unrestored", "refused", "uninstalled",
                             "failed", "killed"}
             /\ torn \in BOOLEAN /\ edits \in 0..MaxEdits /\ faults \in 0..MaxFaults

LEMMA Typed == TypeOK <=> FilesTyped /\ CommandTyped /\ RestTyped
BY DEF TypeOK, FilesTyped, CommandTyped, RestTyped

\* What the running command works with.
LEMMA Working ==
  ASSUME CommandTyped, pc # "idle"
  PROVE  /\ op \in Operation /\ op.settings \in Settings /\ op.owned \in BOOLEAN
         /\ target \in Dir /\ op.settings.hash \in Version
         /\ pc \in Changing => snap \in Snapshot
BY Contents DEF CommandTyped, target

LEMMA Finished ==
  ASSUME CommandTyped, NEW result, Finish(result) PROVE CommandTyped'
<1>1. pc' = "idle" /\ op' = Absent /\ snap' = Absent /\ at' \in 0..5
  BY DEF Finish
<1>2. lost' \in BOOLEAN
  BY DEF Finish
<1> QED BY <1>1, <1>2 DEF CommandTyped

\* A step of a running command to another place.
LEMMA Advanced ==
  ASSUME CommandTyped, pc # "idle", NEW next \in Installing \cup Uninstalling \cup {"rollback"},
         pc' = next, pc' \in Changing => pc \in Changing,
         op' \in Operation, UNCHANGED snap, at' \in 0..5, lost' \in BOOLEAN
  PROVE  CommandTyped'
<1>1. op' # Absent
  BY Contents
<1>2. pc' # "idle" /\ pc' \in Installing \cup Uninstalling \cup {"rollback", "idle"}
  OBVIOUS
<1> QED BY <1>1, <1>2 DEF CommandTyped

-----------------------------------------------------------------------------
LEMMA BeginTypes ==
  ASSUME TypeOK, \/ \E d \in Dir, v \in Version : beginInstall(d, v)
                 \/ beginUninstall
  PROVE  TypeOK' /\ Readable'
<1>1. FilesTyped /\ CommandTyped /\ RestTyped
  BY Typed
<1>2. FilesTyped' /\ torn' \in BOOLEAN /\ edits' \in 0..MaxEdits /\ faults' \in 0..MaxFaults
      /\ backup' \in [hooks : Backups, config : Backups]
  BY <1>1 DEF beginInstall, beginUninstall, files, FilesTyped, RestTyped
<1>3. ASSUME Finish("refused") PROVE CommandTyped' /\ Readable' /\ outcome' = "refused"
  BY <1>1, <1>3, Finished DEF Readable, Finish
<1>4. ASSUME NEW d \in Dir, NEW v \in Version, beginInstall(d, v), pc' = "legacy"
      PROVE  CommandTyped' /\ Readable' /\ outcome' = "none"
  <2>1. /\ pc' = "legacy" /\ outcome' = "none" /\ at' = at /\ lost' = lost
        /\ op' = [settings |-> op'.settings, owned |-> ownedLegacyCommands(d)]
        /\ op'.settings = [dir |-> d, hash |-> v, created |-> op'.settings.created,
                           key |-> [e \in Event |-> 0]]
        /\ op'.settings.created = IF previousMatches(d) THEN settings.created ELSE hooks = Absent
        /\ snap' = [bin |-> bin[d], hooks |-> hooks, config |-> config, settings |-> settings]
    BY <1>4 DEF beginInstall, Finish
  <2>2. ownedLegacyCommands(d) \in BOOLEAN /\ (hooks = Absent) \in BOOLEAN
    BY DEF ownedLegacyCommands, previousMatches
  <2>3. op'.settings.created \in BOOLEAN
    BY <1>1, <2>1, <2>2, Contents DEF previousMatches, FilesTyped
  <2>4. op'.settings \in Settings
    <3>1. [e \in Event |-> 0] \in Keys
      BY DEF Keys
    <3> QED BY <2>1, <2>3, <3>1 DEF Settings
  <2>5. op' \in Operation /\ op' # Absent
    <3>1. op' \in Operation
      BY <2>1, <2>2, <2>4 DEF Operation
    <3> QED BY <3>1, Contents
  <2>6. snap' \in Snapshot /\ snap' # Absent
    <3>1. snap' \in Snapshot
      BY <1>1, <2>1 DEF Snapshot, FilesTyped
    <3> QED BY <3>1, Contents
  <2>7. at' \in 0..5 /\ lost' \in BOOLEAN
    BY <1>1, <2>1 DEF CommandTyped
  <2> QED BY <2>1, <2>5, <2>6, <2>7 DEF CommandTyped, Readable
<1>5. ASSUME beginUninstall, settings # Absent PROVE CommandTyped' /\ Readable' /\ outcome' = "none"
  <2>1. /\ pc' = "unhook" /\ outcome' = "none" /\ UNCHANGED <<snap, at, lost>>
        /\ op' = [settings |-> settings, owned |-> ownedLegacyCommands(settings.dir)]
    BY <1>5 DEF beginUninstall
  <2>2. ownedLegacyCommands(settings.dir) \in BOOLEAN
    BY DEF ownedLegacyCommands, previousMatches
  <2>3. op' \in Operation
    BY <1>1, <1>5, <2>1, <2>2 DEF Operation, FilesTyped
  <2>4. op' # Absent
    BY <2>3, Contents
  <2> QED BY <1>1, <2>1, <2>3, <2>4 DEF CommandTyped, Readable
<1>6. CommandTyped' /\ Readable' /\ outcome' \in {"refused", "none"}
  BY <1>3, <1>4, <1>5 DEF beginInstall, beginUninstall
<1>7. RestTyped'
  BY <1>2, <1>6 DEF RestTyped
<1> QED BY <1>2, <1>6, <1>7, Typed, PTL

\* A step of an installer or uninstaller that goes on.
LEMMA AdvanceTypes ==
  ASSUME TypeOK, UNCHANGED <<snap, at, lost, outcome, torn, edits, faults>>,
         \/ pc \in Installing /\ pc' \in Installing
         \/ pc \in Uninstalling /\ pc' \in Uninstalling,
         op' \in Operation, FilesTyped', backup' \in [hooks : Backups, config : Backups],
         pc' = "hooks" => hooks' # Broken
  PROVE  TypeOK' /\ Readable'
<1>1. FilesTyped /\ CommandTyped /\ RestTyped
  BY Typed
<1>2. UNCHANGED <<snap, at, lost, outcome, torn, edits, faults>>
  OBVIOUS
<1>3. CommandTyped' /\ Readable'
  <2>1. op' # Absent
    BY Contents
  <2> QED BY <1>1, <1>2, <2>1 DEF CommandTyped, Readable
<1>4. RestTyped'
  BY <1>1, <1>2 DEF RestTyped
<1> QED BY <1>3, <1>4, Typed, PTL

\* What installHook writes.
OldHooks == IF hooks = Absent THEN [own |-> TRUE, groups |-> NoGroups] ELSE hooks

LEMMA OldTypes == ASSUME hooks \in Hooks \cup {Absent} PROVE OldHooks \in Hooks
<1>1. NoGroups \in [Event -> Seq(Group)]
  BY DEF NoGroups
<1> QED BY <1>1 DEF OldHooks, Hooks

LEMMA Hooked ==
  ASSUME TypeOK, Readable, installHook
  PROVE  /\ OldHooks \in Hooks /\ pc = "hooks" /\ hooks' \in Hooks /\ hooks'.own = OldHooks.own
         /\ op'.settings = [op.settings EXCEPT !.key = op'.settings.key]
         /\ op' \in Operation /\ op'.owned = op.owned
         /\ \A e \in Event : /\ hooks'.groups[e] = installGuardHookGroup(OldHooks.groups[e])
                             /\ op'.settings.key[e] = guardIndex(OldHooks.groups[e])
                             /\ OldHooks.groups[e] \in Seq(Group)
<1>1. /\ pc = "hooks"
      /\ hooks' = [OldHooks EXCEPT !.groups = [e \in Event |-> installGuardHookGroup(@[e])]]
      /\ op' = [op EXCEPT !.settings.key = [e \in Event |-> guardIndex(OldHooks.groups[e])]]
  BY DEF installHook, Advance, OldHooks
<1>2. OldHooks \in Hooks
  BY <1>1, OldTypes DEF TypeOK, Readable
<1>3. /\ OldHooks.groups \in [Event -> Seq(Group)]
      /\ OldHooks = [own |-> OldHooks.own, groups |-> OldHooks.groups]
      /\ OldHooks.own \in BOOLEAN
  BY <1>2, Contents
<1>4. \A e \in Event : /\ OldHooks.groups[e] \in Seq(Group)
                       /\ installGuardHookGroup(OldHooks.groups[e]) \in Seq(Group)
                       /\ guardIndex(OldHooks.groups[e]) \in Nat
  <2>1. ASSUME NEW e \in Event
        PROVE  /\ OldHooks.groups[e] \in Seq(Group)
               /\ installGuardHookGroup(OldHooks.groups[e]) \in Seq(Group)
               /\ guardIndex(OldHooks.groups[e]) \in Nat
    <3>1. OldHooks.groups[e] \in Seq(Group)
      BY <1>3
    <3> QED BY <3>1, InstalledGroups, GuardIndex
  <2> QED BY <2>1
<1>5. hooks' = [own |-> OldHooks.own,
                groups |-> [e \in Event |-> installGuardHookGroup(OldHooks.groups[e])]]
  BY <1>1, <1>3
<1>6. hooks' \in Hooks /\ hooks'.own = OldHooks.own
      /\ \A e \in Event : hooks'.groups[e] = installGuardHookGroup(OldHooks.groups[e])
  BY <1>3, <1>4, <1>5 DEF Hooks
<1> DEFINE key == [e \in Event |-> guardIndex(OldHooks.groups[e])]
<1>7. op \in Operation
  BY <1>1 DEF TypeOK
<1>8. key \in Keys
  BY <1>4 DEF Keys
<1>9. \A e \in Event : key[e] = guardIndex(OldHooks.groups[e])
  OBVIOUS
<1> HIDE DEF key
<1>10. /\ op = [settings |-> op.settings, owned |-> op.owned] /\ op.settings \in Settings
       /\ op.owned \in BOOLEAN
  BY <1>7, Contents
<1>11. op' = [settings |-> [op.settings EXCEPT !.key = key], owned |-> op.owned]
  BY <1>1, <1>10 DEF key
<1>12. [op.settings EXCEPT !.key = key] \in Settings /\ [op.settings EXCEPT !.key = key].key = key
  BY <1>8, <1>10 DEF Settings
<1>13. op'.settings = [op.settings EXCEPT !.key = key] /\ op'.owned = op.owned
       /\ op'.settings.key = key /\ op' \in Operation
  BY <1>10, <1>11, <1>12 DEF Operation
<1> QED BY <1>1, <1>2, <1>4, <1>6, <1>9, <1>13

LEMMA RestoreTypes ==
  ASSUME TypeOK, Readable, NEW fails \in BOOLEAN, restoreFile(fails), faults' \in 0..MaxFaults
  PROVE  TypeOK' /\ Readable'
<1>1. FilesTyped /\ CommandTyped /\ RestTyped
  BY Typed
<1>2. pc = "rollback" /\ at \in 0..5 /\ target \in Dir /\ snap \in Snapshot /\ op \in Operation
  <2>1. pc = "rollback"
    BY DEF restoreFile
  <2> QED BY <1>1, <2>1, Working DEF CommandTyped
<1> DEFINE file == Captured[at + 1]
<1>3. /\ \/ bin' = bin
         \/ /\ file \in Command
            /\ \/ bin' = [bin EXCEPT ![target][file] = snap.bin[file]]
               \/ bin' = [bin EXCEPT ![target][file] = @]
      /\ settings' \in {settings, snap.settings} /\ config' \in {config, snap.config}
      /\ hooks' \in {hooks, snap.hooks} /\ torn' = (torn \/ fails) /\ UNCHANGED <<backup, edits>>
  BY DEF restoreFile, target
<1> HIDE DEF file
<1>4. /\ snap.bin \in [Command -> Program] /\ snap.hooks \in Hooks \cup {Absent, Broken}
      /\ snap.config \in Config \cup {Absent} /\ snap.settings \in Settings \cup {Absent}
  BY <1>2, Contents
<1>5. bin' \in [Dir -> [Command -> Program]]
  BY <1>1, <1>2, <1>3, <1>4 DEF FilesTyped
<1>6. FilesTyped'
  BY <1>1, <1>3, <1>4, <1>5 DEF FilesTyped
<1>7. torn' \in BOOLEAN
  BY <1>3
<1>8. CASE at < 5
  <2>1. at' = at + 1 /\ lost' = (lost \/ fails) /\ UNCHANGED <<pc, op, snap, outcome>>
    BY <1>8 DEF restoreFile
  <2>2. lost' \in BOOLEAN
    BY <2>1
  <2>3. at' \in 0..5
    BY <1>2, <1>8, <2>1
  <2>4. CommandTyped' /\ Readable'
    BY <1>1, <1>2, <2>1, <2>2, <2>3 DEF CommandTyped, Readable
  <2>5. RestTyped'
    BY <1>1, <1>3, <1>7, <2>1 DEF RestTyped
  <2> QED BY <1>6, <2>4, <2>5, Typed, PTL
<1>9. CASE ~(at < 5)
  <2>1. PICK result \in {"unrestored", "restored"} : Finish(result)
    BY <1>9 DEF restoreFile
  <2>2. CommandTyped' /\ Readable'
    BY <1>1, <2>1, Finished DEF Readable, Finish
  <2>3. RestTyped'
    BY <1>1, <1>3, <1>7, <2>1 DEF RestTyped, Finish
  <2> QED BY <1>6, <2>2, <2>3, Typed, PTL
<1> QED BY <1>8, <1>9

LEMMA InstallTypes ==
  ASSUME TypeOK, Readable, Install PROVE TypeOK' /\ Readable'
<1>0. FilesTyped /\ CommandTyped /\ RestTyped
  BY Typed
<1>1. CASE removeLegacy \/ copyExecutable("codex-session-guard", "csg")
           \/ copyExecutable("csg", "backuphooks")
  <2>1. PICK step \in {"legacy", "codex-session-guard", "csg"},
             next \in {"codex-session-guard", "csg", "backuphooks"} :
          /\ Advance(step, next) /\ UNCHANGED <<hooks, config, settings, backup, op>>
          /\ \/ bin' = [bin EXCEPT ![target]["codex-recover"] = Absent]
             \/ bin' = [bin EXCEPT ![target]["codex-session-guard"] = op.settings.hash]
             \/ bin' = [bin EXCEPT ![target]["csg"] = op.settings.hash]
             \/ bin' = bin
    BY <1>1 DEF removeLegacy, copyExecutable, target
  <2>2. pc # "idle" /\ pc = step
    BY <2>1 DEF Advance
  <2>3. target \in Dir /\ op.settings.hash \in Program /\ op \in Operation /\ Absent \in Program
    BY <1>0, <2>2, Working
  <2>4. bin' \in [Dir -> [Command -> Program]]
    BY <1>0, <2>1, <2>3 DEF FilesTyped
  <2>5. FilesTyped' /\ backup' \in [hooks : Backups, config : Backups] /\ op' \in Operation
    BY <1>0, <2>1, <2>3, <2>4 DEF FilesTyped, RestTyped
  <2>6. /\ UNCHANGED <<snap, at, lost, outcome, torn, edits, faults>>
        /\ pc \in Installing /\ pc' \in Installing /\ pc' # "hooks"
    BY <2>1 DEF Advance
  <2> HIDE DEF Installing, Uninstalling
  <2> QED BY <2>5, <2>6, AdvanceTypes
<1>2. CASE backupHooksOnce \/ backupConfigOnce
  <2>1. /\ UNCHANGED <<bin, hooks, config, settings, op>>
        /\ \/ Advance("backuphooks", "hooks") /\ hooks' # Broken
           \/ Advance("backupconfig", "config")
        /\ \/ backup' = backup
           \/ \E b \in Backups : backup' = [backup EXCEPT !.hooks = b]
           \/ \E b \in Backups : backup' = [backup EXCEPT !.config = b]
    BY <1>2 DEF backupHooksOnce, backupConfigOnce, Backups
  <2>2. backup' \in [hooks : Backups, config : Backups]
    BY <1>0, <2>1 DEF RestTyped
  <2>3. pc # "idle"
    BY <2>1 DEF Advance
  <2>4. op' \in Operation /\ FilesTyped'
    BY <1>0, <2>1, <2>3, Working DEF FilesTyped
  <2>5. /\ UNCHANGED <<snap, at, lost, outcome, torn, edits, faults>>
        /\ pc \in Installing /\ pc' \in Installing /\ (pc' = "hooks" => hooks' # Broken)
    BY <2>1 DEF Advance
  <2> HIDE DEF Installing, Uninstalling
  <2> QED BY <2>2, <2>4, <2>5, AdvanceTypes
<1>3. CASE installHook
  <2>1. Advance("hooks", "backupconfig") /\ UNCHANGED <<bin, config, settings, backup>>
    BY <1>3 DEF installHook
  <2>2. hooks' \in Hooks /\ op' \in Operation
    BY <1>3, Hooked
  <2>3. FilesTyped' /\ backup' \in [hooks : Backups, config : Backups]
    BY <1>0, <2>1, <2>2 DEF FilesTyped, RestTyped
  <2>4. /\ UNCHANGED <<snap, at, lost, outcome, torn, edits, faults>>
        /\ pc \in Installing /\ pc' \in Installing /\ pc' # "hooks"
    BY <2>1 DEF Advance
  <2> HIDE DEF Installing, Uninstalling
  <2> QED BY <2>2, <2>3, <2>4, AdvanceTypes
<1>4. CASE installTrustBlock \/ saveSettings
  <2>1. /\ \/ Advance("config", "settings") /\ config' = Trust(op.settings.key) /\ settings' = settings
           \/ Advance("settings", "verify") /\ config' = config /\ settings' = op.settings
        /\ UNCHANGED <<bin, hooks, backup, op>>
    BY <1>4 DEF installTrustBlock, saveSettings
  <2>2. pc # "idle"
    BY <2>1 DEF Advance
  <2>3. op \in Operation /\ op.settings \in Settings
    BY <1>0, <2>2, Working
  <2>4. Trust(op.settings.key) \in Config
    BY <2>3, Contents DEF Trust, Config
  <2>5. FilesTyped' /\ backup' \in [hooks : Backups, config : Backups] /\ op' \in Operation
    BY <1>0, <2>1, <2>3, <2>4 DEF FilesTyped, RestTyped
  <2>6. /\ UNCHANGED <<snap, at, lost, outcome, torn, edits, faults>>
        /\ pc \in Installing /\ pc' \in Installing /\ pc' # "hooks"
    BY <2>1 DEF Advance
  <2> HIDE DEF Installing, Uninstalling
  <2> QED BY <2>5, <2>6, AdvanceTypes
<1>5. CASE commitInstall
  <2>1. Finish("installed") /\ UNCHANGED <<files, torn, edits, faults>>
    BY <1>5 DEF commitInstall
  <2>2. FilesTyped' /\ RestTyped' /\ Readable'
    BY <1>0, <2>1 DEF FilesTyped, RestTyped, files, Finish, Readable
  <2>3. CommandTyped'
    BY <1>0, <2>1, Finished
  <2> QED BY <2>2, <2>3, Typed, PTL
<1>6. CASE rejectInstall
  <2>1. /\ pc \in {"backuphooks", "config", "verify"} /\ pc' = "rollback"
        /\ UNCHANGED <<files, op, snap, at, lost, outcome, torn, edits, faults>>
    BY <1>6 DEF rejectInstall
  <2>2. FilesTyped' /\ RestTyped' /\ Readable'
    BY <1>0, <2>1 DEF FilesTyped, RestTyped, files, Readable
  <2>3. CommandTyped'
    BY <1>0, <2>1 DEF CommandTyped
  <2> QED BY <2>2, <2>3, Typed, PTL
<1>7. CASE restoreFiles
  BY <1>7, RestoreTypes DEF restoreFiles, RestTyped, TypeOK
<1> QED BY <1>1, <1>2, <1>3, <1>4, <1>5, <1>6, <1>7 DEF Install

LEMMA UninstallTypes ==
  ASSUME TypeOK, Readable, Uninstall PROVE TypeOK' /\ Readable'
<1>0. FilesTyped /\ CommandTyped /\ RestTyped
  BY Typed
<1>1. CASE uninstallHook
  <2> DEFINE clean == [hooks EXCEPT !.groups = [e \in Event |-> removeGuardHookGroup(@[e])]]
  <2>1. /\ Advance("unhook", "untrust") /\ UNCHANGED <<bin, config, settings, backup, op>>
        /\ hooks' = Absent \/ (hooks \notin {Absent, Broken} /\ hooks' = clean)
    BY <1>1 DEF uninstallHook
  <2>2. ASSUME hooks \in Hooks PROVE clean \in Hooks
    <3>1. /\ hooks.groups \in [Event -> Seq(Group)] /\ hooks.own \in BOOLEAN
          /\ hooks = [own |-> hooks.own, groups |-> hooks.groups]
      BY <2>2, Contents
    <3>2. \A e \in Event : removeGuardHookGroup(hooks.groups[e]) \in Seq(Group)
      BY <3>1, RemovedGroups
    <3>3. clean = [own |-> hooks.own, groups |-> [e \in Event |-> removeGuardHookGroup(hooks.groups[e])]]
      BY <3>1
    <3> QED BY <3>1, <3>2, <3>3 DEF Hooks
  <2> HIDE DEF clean
  <2>3. hooks' \in Hooks \cup {Absent, Broken}
    BY <1>0, <2>1, <2>2 DEF FilesTyped
  <2>4. FilesTyped' /\ backup' \in [hooks : Backups, config : Backups]
    BY <1>0, <2>1, <2>3 DEF FilesTyped, RestTyped
  <2>5. op' \in Operation
    <3>1. pc # "idle"
      BY <2>1 DEF Advance
    <3> QED BY <1>0, <2>1, <3>1, Working
  <2>6. /\ UNCHANGED <<snap, at, lost, outcome, torn, edits, faults>>
        /\ pc \in Uninstalling /\ pc' \in Uninstalling /\ pc' # "hooks"
    BY <2>1 DEF Advance
  <2> HIDE DEF Installing, Uninstalling
  <2> QED BY <2>4, <2>5, <2>6, AdvanceTypes
<1>2. CASE stripTrustBlock
  <2>1. /\ Advance("untrust", "remove csg") /\ UNCHANGED <<bin, hooks, settings, backup, op>>
        /\ config' \in {Absent, NoBlock}
    BY <1>2 DEF stripTrustBlock
  <2>2. pc # "idle"
    BY <2>1 DEF Advance
  <2>3. FilesTyped' /\ backup' \in [hooks : Backups, config : Backups] /\ op' \in Operation
    BY <1>0, <2>1, <2>2, Working DEF FilesTyped, RestTyped, Config
  <2>4. /\ UNCHANGED <<snap, at, lost, outcome, torn, edits, faults>>
        /\ pc \in Uninstalling /\ pc' \in Uninstalling /\ pc' # "hooks"
    BY <2>1 DEF Advance
  <2> HIDE DEF Installing, Uninstalling
  <2> QED BY <2>3, <2>4, AdvanceTypes
<1>3. ASSUME NEW c \in Command, removeCommand(c), pc # "idle" PROVE FilesTyped' /\ backup' = backup
  <2>1. target \in Dir
    BY <1>0, <1>3, Working
  <2>2. bin' = bin \/ bin' = [bin EXCEPT ![target][c] = Absent]
    BY <1>3 DEF removeCommand, target
  <2>3. bin' \in [Dir -> [Command -> Program]]
    BY <1>0, <2>1, <2>2 DEF FilesTyped
  <2> QED BY <1>0, <1>3, <2>3 DEF FilesTyped, removeCommand
<1>4. CASE removeCsg \/ removeManager
  <2>1. PICK step \in {"remove csg", "remove manager"}, next \in {"remove manager", "remove legacy"},
             c \in Command : Advance(step, next) /\ removeCommand(c) /\ op' = op
    BY <1>4 DEF removeCsg, removeManager
  <2>2. pc # "idle"
    BY <2>1 DEF Advance
  <2>3. FilesTyped' /\ backup' \in [hooks : Backups, config : Backups] /\ op' \in Operation
    BY <1>0, <1>3, <2>1, <2>2, Working DEF RestTyped
  <2>4. /\ UNCHANGED <<snap, at, lost, outcome, torn, edits, faults>>
        /\ pc \in Uninstalling /\ pc' \in Uninstalling /\ pc' # "hooks"
    BY <2>1 DEF Advance
  <2> HIDE DEF Installing, Uninstalling
  <2> QED BY <2>3, <2>4, AdvanceTypes
<1>5. CASE endUninstall
  <2>1. pc # "idle" /\ removeCommand("codex-recover") /\ Finish("uninstalled")
        /\ UNCHANGED <<torn, edits, faults>>
    BY <1>5 DEF endUninstall
  <2>2. FilesTyped' /\ backup' = backup
    BY <1>3, <2>1
  <2>3. RestTyped' /\ Readable' /\ CommandTyped'
    BY <1>0, <2>1, <2>2, Finished DEF RestTyped, Finish, Readable
  <2> QED BY <2>2, <2>3, Typed, PTL
<1>6. CASE rejectUninstall
  <2>1. Finish("failed") /\ UNCHANGED <<files, torn, edits, faults>>
    BY <1>6 DEF rejectUninstall
  <2>2. FilesTyped' /\ RestTyped' /\ Readable'
    BY <1>0, <2>1 DEF FilesTyped, RestTyped, files, Finish, Readable
  <2>3. CommandTyped'
    BY <1>0, <2>1, Finished
  <2> QED BY <2>2, <2>3, Typed, PTL
<1> QED BY <1>1, <1>2, <1>4, <1>5, <1>6 DEF Uninstall

LEMMA FaultTypes ==
  ASSUME TypeOK, Readable, StepFails \/ Kill PROVE TypeOK' /\ Readable'
<1>0. FilesTyped /\ CommandTyped /\ RestTyped
  BY Typed
<1>1. faults \in 0..MaxFaults /\ (StepFails => faults' \in 0..MaxFaults)
  <2>1. faults \in 0..MaxFaults
    BY <1>0 DEF RestTyped
  <2>2. StepFails => faults < MaxFaults /\ faults' = faults + 1
    BY DEF StepFails
  <2> QED BY <2>1, <2>2, BoundAssumption
<1>2. CASE StepFails /\ restoreFile(TRUE)
  BY <1>1, <1>2, RestoreTypes
<1>3. ASSUME NEW result \in {"failed", "killed"}, Finish(result), UNCHANGED <<files, edits>>,
             torn' \in BOOLEAN, faults' \in 0..MaxFaults
      PROVE  TypeOK' /\ Readable'
  <2>1. FilesTyped' /\ RestTyped' /\ Readable'
    BY <1>0, <1>3 DEF FilesTyped, RestTyped, files, Finish, Readable
  <2>2. CommandTyped'
    BY <1>0, <1>3, Finished
  <2> QED BY <2>1, <2>2, Typed, PTL
<1>4. CASE StepFails /\ pc \in Installing /\ ~restoreFile(TRUE)
  <2>1. pc' = "rollback" /\ UNCHANGED <<files, op, snap, at, lost, outcome, torn, edits>>
    BY <1>4 DEF StepFails
  <2>2. FilesTyped' /\ RestTyped' /\ Readable'
    BY <1>0, <1>1, <1>4, <2>1 DEF FilesTyped, RestTyped, files, Readable
  <2>3. CommandTyped'
    BY <1>0, <1>4, <2>1 DEF CommandTyped
  <2> QED BY <2>2, <2>3, Typed, PTL
<1>5. CASE StepFails /\ pc \notin Installing /\ ~restoreFile(TRUE)
  <2>1. Finish("failed") /\ UNCHANGED <<files, torn, edits>>
    BY <1>5 DEF StepFails
  <2>2. torn' \in BOOLEAN
    BY <1>0, <2>1 DEF RestTyped
  <2> QED BY <1>1, <1>3, <1>5, <2>1, <2>2
<1>6. CASE Kill
  <2>1. Finish("killed") /\ UNCHANGED <<files, edits, faults>> /\ torn' = (torn \/ pc \in HalfWay)
    BY <1>6 DEF Kill
  <2>2. torn' \in BOOLEAN
    BY <2>1
  <2> QED BY <1>1, <1>3, <2>1, <2>2
<1> QED BY <1>2, <1>4, <1>5, <1>6

LEMMA UserTypes ==
  ASSUME TypeOK, Readable, UserEdits \/ ForeignCommand PROVE TypeOK' /\ Readable'
<1>0. FilesTyped /\ CommandTyped /\ RestTyped
  BY Typed
<1>1. /\ Idle /\ UNCHANGED <<settings, backup>>
      /\ pc' = "idle" /\ outcome' = "none" /\ edits' \in 0..MaxEdits
      /\ UNCHANGED <<pc, op, snap, at, lost, torn, faults>>
  BY <1>0, BoundAssumption DEF UserEdits, ForeignCommand, Idle, RestTyped
<1>2. bin' \in [Dir -> [Command -> Program]]
  BY <1>0 DEF UserEdits, ForeignCommand, FilesTyped
<1>3. config' \in Config \cup {Absent}
  BY <1>0 DEF UserEdits, ForeignCommand, FilesTyped, Config
<1>4. hooks' \in Hooks \cup {Absent, Broken}
  <2>1. ASSUME hooks \in Hooks, NEW e \in Event, NEW groups \in EditedGroups(hooks.groups[e]),
               hooks' = [hooks EXCEPT !.groups[e] = groups]
        PROVE  hooks' \in Hooks
    <3>1. /\ hooks.groups \in [Event -> Seq(Group)] /\ hooks.own \in BOOLEAN
          /\ hooks = [own |-> hooks.own, groups |-> hooks.groups]
      BY <2>1, Contents
    <3>2. groups \in Seq(Group)
      BY <2>1, <3>1, Edited
    <3>3. hooks' = [own |-> hooks.own, groups |-> [hooks.groups EXCEPT ![e] = groups]]
      BY <2>1, <3>1
    <3> QED BY <3>1, <3>2, <3>3 DEF Hooks
  <2> QED BY <1>0, <2>1 DEF UserEdits, ForeignCommand, FilesTyped
<1>5. FilesTyped' /\ CommandTyped' /\ RestTyped' /\ Readable'
  BY <1>0, <1>1, <1>2, <1>3, <1>4 DEF FilesTyped, CommandTyped, RestTyped, Readable
<1> QED BY <1>5, Typed, PTL

LEMMA StartTypes == Init => TypeOK /\ Readable
<1> SUFFICES ASSUME Init PROVE TypeOK /\ Readable
  OBVIOUS
<1>1. CommandTyped /\ RestTyped /\ Readable
  <2>1. torn \in BOOLEAN /\ lost \in BOOLEAN
    BY DEF Init
  <2> QED BY <2>1, BoundAssumption DEF Init, CommandTyped, RestTyped, Readable, Backups
<1>2. bin \in [Dir -> [Command -> Program]]
  BY DEF Init
<1>3. hooks \in Hooks \cup {Absent, Broken}
  <2>1. "legacy" \in Handler
    BY DEF Handler, GuardHandler
  <2>2. [own |-> FALSE, hooks |-> <<"legacy">>] \in Group
    BY <2>1 DEF Group
  <2>3. <<[own |-> FALSE, hooks |-> <<"legacy">>]>> \in Seq(Group)
    BY <2>2
  <2>4. /\ NoGroups \in [Event -> Seq(Group)]
        /\ [e \in Event |-> <<[own |-> FALSE, hooks |-> <<"legacy">>]>>] \in [Event -> Seq(Group)]
    BY <2>3 DEF NoGroups
  <2>5. /\ [own |-> FALSE, groups |-> NoGroups] \in Hooks
        /\ [own |-> TRUE, groups |-> [e \in Event |-> <<[own |-> FALSE, hooks |-> <<"legacy">>]>>]] \in Hooks
    BY <2>4 DEF Hooks
  <2> QED BY <2>5 DEF Init
<1>4. config \in Config \cup {Absent} /\ settings \in Settings \cup {Absent}
  <2>1. [e \in Event |-> 1] \in Keys
    BY DEF Keys
  <2>2. ASSUME NEW d \in Dir, NEW v \in Version
        PROVE  [dir |-> d, hash |-> v, created |-> TRUE, key |-> [e \in Event |-> 1]] \in Settings
    BY <2>1 DEF Settings
  <2>3. settings \in Settings \cup {Absent}
    BY <2>2 DEF Init
  <2>4. Trust([e \in Event |-> 1]) \in Config
    BY <2>1 DEF Config, Trust
  <2>5. config \in Config \cup {Absent}
    BY <2>4 DEF Init, Config
  <2> QED BY <2>3, <2>5
<1>5. FilesTyped
  BY <1>2, <1>3, <1>4 DEF FilesTyped
<1> QED BY <1>1, <1>5, Typed

LEMMA TypesInvariant == Spec => [](TypeOK /\ Readable)
<1>1. TypeOK /\ Readable /\ [Next]_vars => TypeOK' /\ Readable'
  <2>1. TypeOK /\ Readable /\ UNCHANGED vars => TypeOK' /\ Readable'
    <3> SUFFICES ASSUME TypeOK, Readable, UNCHANGED vars PROVE TypeOK' /\ Readable'
      OBVIOUS
    <3>1. FilesTyped /\ CommandTyped /\ RestTyped
      BY Typed
    <3>2. UNCHANGED <<bin, hooks, config, settings, backup, pc, op, snap, at, lost, outcome,
                      torn, edits, faults>>
      BY DEF vars
    <3>3. FilesTyped' /\ Readable'
      BY <3>1, <3>2 DEF FilesTyped, Readable
    <3>4. CommandTyped' 
      BY <3>1, <3>2 DEF CommandTyped
    <3>5. RestTyped'
      BY <3>1, <3>2 DEF RestTyped
    <3> QED BY <3>3, <3>4, <3>5, Typed, PTL
  <2> QED BY <2>1, BeginTypes, InstallTypes, UninstallTypes, FaultTypes, UserTypes DEF Next
<1> QED BY <1>1, StartTypes, PTL DEF Spec

\* Files, the running command and the counters always have their types:
\* installing and removing groups, and what users do to them, gives groups.
THEOREM TypeOKTheorem == Spec => []TypeOK
<1> QED BY TypesInvariant, PTL

-----------------------------------------------------------------------------
(* What an install has written, and what of others it has kept.            *)

BeforeHooks == {"legacy", "codex-session-guard", "csg", "backuphooks", "hooks"}
AfterHooks  == {"backupconfig", "config", "settings", "verify"}

\* The groups of others in a hooks.json.
Others(root) == [e \in Event |-> IF root \in {Absent, Broken} THEN {} ELSE OthersOf(root.groups[e])]

\* What an installation has written so far, and that the groups of others are
\* still those it captured.
Written ==
  /\ pc \in BeforeHooks => hooks = snap.hooks
  /\ pc \in BeforeHooks \cup {"backupconfig", "config"} => config = snap.config
  /\ pc \in AfterHooks => /\ hooks \in Hooks
                          /\ \A e \in Event : Single(hooks.groups[e], op.settings.key[e])
  /\ pc \in {"settings", "verify"} => config = Trust(op.settings.key)
  /\ pc \in Changing => /\ Others(hooks) = Others(snap.hooks)
                        /\ snap.hooks = Broken => hooks = Broken

LEMMA NoOthers == OthersOf(<<>>) = {}
BY DEF OthersOf

\* installHook keeps the groups of others.
LEMMA HookedOthers ==
  ASSUME TypeOK, Readable, installHook
  PROVE  /\ Others(hooks') = Others(hooks)
         /\ \A e \in Event : Single(hooks'.groups[e], op'.settings.key[e])
<1>1. /\ OldHooks \in Hooks /\ hooks' \in Hooks
      /\ \A e \in Event : /\ hooks'.groups[e] = installGuardHookGroup(OldHooks.groups[e])
                          /\ op'.settings.key[e] = guardIndex(OldHooks.groups[e])
                          /\ OldHooks.groups[e] \in Seq(Group)
  BY Hooked
<1>2. hooks' \notin {Absent, Broken} /\ hooks # Broken
  BY <1>1, Contents DEF OldHooks
<1>3. \A e \in Event : /\ Single(hooks'.groups[e], op'.settings.key[e])
                       /\ OthersOf(hooks'.groups[e]) = OthersOf(OldHooks.groups[e])
  BY <1>1, InstalledGroups
<1>4. \A e \in Event : OthersOf(OldHooks.groups[e]) =
                       IF hooks \in {Absent, Broken} THEN {} ELSE OthersOf(hooks.groups[e])
  BY <1>2, NoOthers DEF OldHooks, NoGroups
<1> QED BY <1>2, <1>3, <1>4 DEF Others

LEMMA WrittenKept == ASSUME IInv, TypeOK, Readable, Written, [Next]_vars PROVE Written'
<1>1. ASSUME pc' \notin Changing PROVE Written'
  BY <1>1 DEF Written, BeforeHooks, AfterHooks
<1>2. ASSUME NEW d \in Dir, NEW v \in Version, beginInstall(d, v) PROVE Written'
  <2>1. CASE pc' = "legacy"
    BY <1>2, <2>1 DEF beginInstall, Finish, files, Written, BeforeHooks, AfterHooks
  <2> QED BY <1>1, <1>2, <2>1 DEF beginInstall, Finish
<1>3. ASSUME pc \in BeforeHooks, pc' \in BeforeHooks, UNCHANGED <<hooks, config, snap>> PROVE Written'
  BY <1>3 DEF Written, BeforeHooks, AfterHooks
<1>4. CASE installHook
  <2>1. /\ pc = "hooks" /\ pc' = "backupconfig" /\ UNCHANGED <<config, snap>>
    BY <1>4 DEF installHook, Advance
  <2>2. /\ Others(hooks') = Others(hooks) /\ hooks' \in Hooks /\ hooks # Broken
        /\ \A e \in Event : Single(hooks'.groups[e], op'.settings.key[e])
    BY <1>4, <2>1, HookedOthers, Hooked DEF Readable
  <2> QED BY <2>1, <2>2 DEF Written, BeforeHooks, AfterHooks
<1>5. CASE backupConfigOnce \/ installTrustBlock \/ saveSettings
  <2>1. /\ \/ pc = "backupconfig" /\ pc' = "config" /\ config' = config
           \/ pc = "config" /\ pc' = "settings" /\ config' = Trust(op.settings.key)
           \/ pc = "settings" /\ pc' = "verify" /\ config' = config
        /\ UNCHANGED <<hooks, op, snap>>
    BY <1>5 DEF backupConfigOnce, installTrustBlock, saveSettings, Advance
  <2> QED BY <2>1 DEF Written, BeforeHooks, AfterHooks
<1>6. ASSUME pc \in Changing, pc' = "rollback", UNCHANGED <<hooks, snap>> PROVE Written'
  BY <1>6 DEF Written, BeforeHooks, AfterHooks
<1>7. ASSUME NEW fails \in BOOLEAN, restoreFile(fails) PROVE Written'
  <2>1. CASE at < 5
    BY <1>7, <2>1 DEF restoreFile, Written, BeforeHooks, AfterHooks
  <2>2. CASE ~(at < 5)
    BY <1>1, <1>7, <2>2 DEF restoreFile, Finish
  <2> QED BY <2>1, <2>2
<1>8. CASE Install
  <2>1. CASE removeLegacy \/ copyExecutable("codex-session-guard", "csg")
             \/ copyExecutable("csg", "backuphooks") \/ backupHooksOnce
    BY <1>3, <2>1 DEF removeLegacy, copyExecutable, backupHooksOnce, Advance, BeforeHooks
  <2>2. CASE commitInstall
    BY <1>1, <2>2 DEF commitInstall, Finish
  <2>3. CASE rejectInstall
    BY <1>6, <2>3 DEF rejectInstall, files
  <2>4. CASE restoreFiles
    BY <1>7, <2>4 DEF restoreFiles
  <2> QED BY <1>4, <1>5, <1>8, <2>1, <2>2, <2>3, <2>4 DEF Install
<1>9. CASE Uninstall \/ beginUninstall \/ Kill \/ UserEdits \/ ForeignCommand
  <2>1. pc' \notin Changing
    BY <1>9 DEF Uninstall, Advance, uninstallHook, stripTrustBlock, removeCsg, removeManager, endUninstall,
       rejectUninstall, beginUninstall, Kill, UserEdits, ForeignCommand, Idle, Finish
  <2> QED BY <1>1, <2>1
<1>10. CASE StepFails
  <2>1. CASE restoreFile(TRUE)
    BY <1>7, <2>1
  <2>2. CASE pc \in Installing /\ ~restoreFile(TRUE)
    BY <1>6, <1>10, <2>2 DEF StepFails, files
  <2>3. CASE pc \notin Installing /\ ~restoreFile(TRUE)
    BY <1>1, <1>10, <2>3 DEF StepFails, Finish
  <2> QED BY <2>1, <2>2, <2>3
<1>11. CASE UNCHANGED vars
  <2>1. UNCHANGED <<hooks, config, snap, op, pc>>
    BY <1>11 DEF vars
  <2> QED BY <2>1 DEF Written
<1> QED BY <1>2, <1>8, <1>9, <1>10, <1>11 DEF Next

LEMMA WrittenInvariant == Spec => []Written
<1>1. Init => Written
  BY DEF Init, Written, BeforeHooks, AfterHooks
<1> QED BY <1>1, WrittenKept, Invariance, TypesInvariant, PTL DEF Spec

\* What uninstallHook leaves of the groups.
LEMMA Unhooked ==
  ASSUME TypeOK, uninstallHook, hooks \notin {Absent, Broken}
  PROVE  LET clean(e) == removeGuardHookGroup(hooks.groups[e])
         IN /\ \A e \in Event : hooks.groups[e] \in Seq(Group)
            /\ IF op.settings.created /\ hooks.own /\ \A e \in Event : clean(e) = <<>>
               THEN hooks' = Absent
               ELSE hooks' = [own |-> hooks.own, groups |-> [e \in Event |-> clean(e)]]
<1> DEFINE clean(e) == removeGuardHookGroup(hooks.groups[e])
<1>1. /\ hooks.groups \in [Event -> Seq(Group)] /\ hooks.own \in BOOLEAN
      /\ hooks = [own |-> hooks.own, groups |-> hooks.groups]
  BY Contents DEF TypeOK
<1> DEFINE root == [hooks EXCEPT !.groups = [e \in Event |-> removeGuardHookGroup(@[e])]]
<1>2. hooks' = IF op.settings.created /\ hooksFileIsDisposable(root) THEN Absent ELSE root
  BY DEF uninstallHook
<1>3. root = [own |-> hooks.own, groups |-> [e \in Event |-> clean(e)]]
  BY <1>1
<1> HIDE DEF root
<1>4. hooksFileIsDisposable(root) <=> hooks.own /\ \A e \in Event : clean(e) = <<>>
  <2> HIDE DEF clean
  <2>1. root.own = hooks.own /\ root.groups = [e \in Event |-> clean(e)]
    BY <1>3
  <2>2. [e \in Event |-> clean(e)] = [e \in Event |-> <<>>] <=> \A e \in Event : clean(e) = <<>>
    OBVIOUS
  <2> QED BY <2>1, <2>2 DEF hooksFileIsDisposable, NoGroups
<1> QED BY <1>1, <1>2, <1>3, <1>4

\* No step of install, of its rollback or of uninstall loses, moves or
\* changes a handler of others, whatever the groups in hooks.json are.
THEOREM OthersKeptTheorem == Spec => OthersKept
<1> DEFINE Kept == pc # "idle" /\ hooks \notin {Absent, Broken} =>
                     \A e \in Event : OthersOf(hooks.groups[e]) =
                        (IF hooks' = Absent THEN {} ELSE OthersOf(hooks'.groups[e]))
<1>1. TypeOK /\ Readable /\ Written /\ [Next]_vars => [Kept]_vars
  <2> SUFFICES ASSUME TypeOK, Readable, Written, Next, pc # "idle", hooks \notin {Absent, Broken},
                      NEW e \in Event
               PROVE  OthersOf(hooks.groups[e]) =
                        (IF hooks' = Absent THEN {} ELSE OthersOf(hooks'.groups[e]))
    OBVIOUS
  <2>1. CASE hooks' = hooks
    BY <2>1
  <2>2. CASE Others(hooks') = Others(hooks) /\ hooks' # Broken
    BY <2>2 DEF Others
  <2>3. ASSUME NEW fails \in BOOLEAN, restoreFile(fails) PROVE hooks' = hooks \/ hooks' = snap.hooks
    BY <2>3 DEF restoreFile
  <2>4. ASSUME NEW fails \in BOOLEAN, restoreFile(fails)
        PROVE  hooks' = hooks \/ (Others(hooks') = Others(hooks) /\ hooks' # Broken)
    <3>1. pc = "rollback"
      BY <2>4 DEF restoreFile
    <3> QED BY <2>3, <2>4, <3>1 DEF Written
  <2>5. CASE installHook
    <3>1. hooks' \in Hooks
      BY <2>5, Hooked
    <3> QED BY <2>2, <2>5, <3>1, HookedOthers, Contents
  <2>6. CASE uninstallHook
    <3>1. OthersOf(removeGuardHookGroup(hooks.groups[e])) = OthersOf(hooks.groups[e])
      BY <2>6, Unhooked, RemovedGroups
    <3>2. CASE hooks' = Absent
      <4>1. [own |-> hooks.own, groups |-> [x \in Event |-> removeGuardHookGroup(hooks.groups[x])]] \in Hooks
        <5>1. \A x \in Event : removeGuardHookGroup(hooks.groups[x]) \in Seq(Group)
          BY <2>6, Unhooked, RemovedGroups
        <5>2. hooks.own \in BOOLEAN
          BY Contents DEF TypeOK
        <5> QED BY <5>1, <5>2 DEF Hooks
      <4>2. removeGuardHookGroup(hooks.groups[e]) = <<>>
        BY <2>6, <3>2, <4>1, Unhooked, Contents
      <4> QED BY <3>1, <3>2, <4>2, NoOthers
    <3>3. CASE hooks' # Absent
      <4>1. hooks' = [own |-> hooks.own,
                      groups |-> [x \in Event |-> removeGuardHookGroup(hooks.groups[x])]]
        BY <2>6, <3>3, Unhooked
      <4> QED BY <3>1, <3>3, <4>1
    <3> QED BY <3>2, <3>3
  <2>7. CASE Install
    BY <2>1, <2>2, <2>4, <2>5, <2>7 DEF Install, removeLegacy, copyExecutable, backupHooksOnce,
       backupConfigOnce, installTrustBlock, saveSettings, commitInstall, rejectInstall, restoreFiles, files
  <2>8. CASE Uninstall
    BY <2>1, <2>6, <2>8 DEF Uninstall, stripTrustBlock, removeCsg, removeManager, endUninstall,
       removeCommand, rejectUninstall, files
  <2>9. CASE StepFails
    BY <2>1, <2>2, <2>4, <2>9 DEF StepFails, files
  <2> QED BY <2>1, <2>7, <2>8, <2>9 DEF Next, beginInstall, beginUninstall, Kill, UserEdits,
          ForeignCommand, Idle, files
<1> QED BY <1>1, TypesInvariant, WrittenInvariant, PTL DEF Spec, OthersKept

\* What is verified at the end is what was written.
LEMMA Verified ==
  ASSUME IInv, TypeOK, Written, pc = "verify"
  PROVE  verifyCommittedInstall(op.settings)
<1>1. \A c \in Installed : bin[target][c] = op.settings.hash
  BY DEF IInv, Untouched
<1>2. /\ hooks \in Hooks /\ config = Trust(op.settings.key)
      /\ \A e \in Event : Single(hooks.groups[e], op.settings.key[e])
  BY DEF Written, AfterHooks
<1>3. hooks \notin {Absent, Broken} /\ hooks.groups \in [Event -> Seq(Group)]
  BY <1>2, Contents
<1>4. config.key = op.settings.key /\ config \notin {Absent, NoBlock, OpenBlock}
  <2>1. config.key = op.settings.key /\ config.kind = "trust"
    BY <1>2 DEF Trust
  <2>2. Trust(op.settings.key) \in Config
    BY Working, Typed, Contents DEF Trust, Config
  <2>3. config # Absent
    BY <1>2, <2>2, Contents
  <2> QED BY <2>1, <2>3 DEF NoBlock, OpenBlock
<1>5. \A e \in Event : foundIndex(hooks.groups[e]) = op.settings.key[e] /\ foundIndex(hooks.groups[e]) > 0
  <2> TAKE e \in Event
  <2>1. hooks.groups[e] \in Seq(Group) /\ Single(hooks.groups[e], op.settings.key[e])
    BY <1>2, <1>3
  <2> QED BY <2>1, FoundSingle
<1> QED BY <1>1, <1>3, <1>4, <1>5 DEF verifyCommittedInstall, checkHookInstallation, target

\* An accepted install that meets no fault of the file system fails only for
\* a hooks.json that is no JSON or a damaged block: it never fails its own
\* verification.
THEOREM FailsForAReasonTheorem == Spec => []FailsForAReason
<1>1. Init => FailsForAReason
  BY DEF Init, FailsForAReason
<1>2. ASSUME IInv, TypeOK, Written, FailsForAReason, [Next]_vars PROVE FailsForAReason'
  <2>1. ASSUME pc' # "rollback" PROVE FailsForAReason'
    BY <2>1 DEF FailsForAReason
  <2>2. CASE rejectInstall
    <3>1. pc # "verify"
      BY <2>2, <1>2, Verified DEF rejectInstall
    <3>2. snap.hooks = Broken \/ snap.config = OpenBlock
      BY <1>2, <2>2, <3>1 DEF rejectInstall, Written, BeforeHooks
    <3> QED BY <2>2, <3>2 DEF FailsForAReason, rejectInstall
  <2>3. CASE StepFails
    <3>1. faults' # 0
      <4>1. faults \in 0..MaxFaults
        BY <1>2, Typed DEF RestTyped
      <4>2. faults' = faults + 1
        BY <2>3 DEF StepFails
      <4> QED BY <4>1, <4>2, BoundAssumption
    <3> QED BY <3>1 DEF FailsForAReason
  <2>4. CASE restoreFiles
    BY <1>2, <2>1, <2>4 DEF restoreFiles, restoreFile, Finish, FailsForAReason
  <2>5. CASE Install /\ ~restoreFiles /\ ~rejectInstall
    BY <2>1, <2>5 DEF Install, Advance, removeLegacy, copyExecutable, backupHooksOnce, installHook,
       backupConfigOnce, installTrustBlock, saveSettings, commitInstall, Finish
  <2>6. CASE Uninstall \/ beginUninstall \/ Kill \/ UserEdits \/ ForeignCommand
    BY <2>1, <2>6 DEF Uninstall, Advance, uninstallHook, stripTrustBlock, removeCsg, removeManager,
       endUninstall, rejectUninstall, beginUninstall, Kill, UserEdits, ForeignCommand, Idle, Finish
  <2>7. ASSUME NEW d \in Dir, NEW v \in Version, beginInstall(d, v) PROVE FailsForAReason'
    BY <2>1, <2>7 DEF beginInstall, Finish
  <2>8. CASE UNCHANGED vars
    BY <1>2, <2>8 DEF vars, FailsForAReason
  <2> QED BY <1>2, <2>2, <2>3, <2>4, <2>5, <2>6, <2>7, <2>8 DEF Next
<1> QED BY <1>1, <1>2, Invariance, TypesInvariant, WrittenInvariant, PTL DEF Spec

\* After an install Codex runs the guard exactly once for each event: at the
\* place config.toml trusts, and at no other.
THEOREM GuardRunsOnceTheorem == Spec => []GuardRunsOnce
<1>1. Init => GuardRunsOnce
  BY DEF Init, GuardRunsOnce
<1>2. ASSUME IInv, TypeOK, Written, Silent, GuardRunsOnce, [Next]_vars PROVE GuardRunsOnce'
  <2>1. ASSUME outcome' # "installed" PROVE GuardRunsOnce'
    BY <2>1 DEF GuardRunsOnce
  <2>2. CASE commitInstall
    <3>1. /\ pc = "verify" /\ UNCHANGED <<bin, hooks, config, settings>>
      BY <2>2 DEF commitInstall, files
    <3>2. settings = op.settings /\ \A c \in Installed : bin[target][c] = op.settings.hash
      BY <1>2, <3>1 DEF IInv, Untouched
    <3>3. /\ hooks \in Hooks /\ config.key = op.settings.key
          /\ \A e \in Event : Single(hooks.groups[e], op.settings.key[e])
      BY <1>2, <3>1 DEF Written, AfterHooks, Trust
    <3>4. ASSUME NEW e \in Event
          PROVE  /\ GuardPlaces(hooks.groups[e]) = {<<config.key[e], 1>>}
                 /\ groupIsExpectedGuard(hooks.groups[e][config.key[e]])
      <4>1. hooks.groups[e] \in Seq(Group) /\ Single(hooks.groups[e], config.key[e])
        BY <3>3, Contents
      <4> QED BY <4>1, FoundSingle DEF Single, groupIsExpectedGuard
    <3>5. /\ \A c \in Installed : bin[settings.dir][c] = settings.hash
          /\ \A e \in Event : /\ GuardPlaces(hooks.groups[e]) = {<<config.key[e], 1>>}
                              /\ groupIsExpectedGuard(hooks.groups[e][config.key[e]])
      BY <3>2, <3>4 DEF target
    <3> QED BY <3>1, <3>5 DEF GuardRunsOnce
  <2>3. CASE Install /\ ~commitInstall
    <3>1. CASE restoreFiles
      BY <2>1, <1>2, <3>1 DEF restoreFiles, restoreFile, Finish, Silent
    <3>2. CASE ~restoreFiles
      BY <2>1, <1>2, <2>3, <3>2 DEF Silent, Install, Advance, removeLegacy, copyExecutable, backupHooksOnce,
         installHook, backupConfigOnce, installTrustBlock, saveSettings, rejectInstall
    <3> QED BY <3>1, <3>2
  <2>4. CASE Uninstall \/ beginUninstall \/ Kill \/ UserEdits \/ ForeignCommand
    BY <1>2, <2>1, <2>4 DEF Silent, Uninstall, Advance, uninstallHook, stripTrustBlock, removeCsg,
       removeManager, endUninstall, rejectUninstall, beginUninstall, Kill, UserEdits, ForeignCommand,
       Idle, Finish
  <2>5. CASE StepFails
    BY <1>2, <2>1, <2>5 DEF Silent, StepFails, restoreFile, Finish
  <2>6. ASSUME NEW d \in Dir, NEW v \in Version, beginInstall(d, v) PROVE GuardRunsOnce'
    BY <2>1, <2>6 DEF beginInstall, Finish
  <2>7. CASE UNCHANGED vars
    <3>1. UNCHANGED <<bin, hooks, config, settings, outcome>>
      BY <2>7 DEF vars
    <3> QED BY <1>2, <3>1 DEF GuardRunsOnce
  <2> QED BY <1>2, <2>2, <2>3, <2>4, <2>5, <2>6, <2>7 DEF Next
<1> QED BY <1>1, <1>2, Invariance, TypesInvariant, WrittenInvariant, SilentInvariant, PTL DEF Spec

-----------------------------------------------------------------------------
(* What an uninstallation leaves.                                          *)

\* A hooks.json in which no handler of the guard is left.
Unguarded(root) == root = Absent \/ (root \in Hooks /\ \A e \in Event : GuardPlaces(root.groups[e]) = {})

\* The steps an uninstallation has behind it, and what it owes to each.
Cleared ==
  /\ pc \in Uninstalling \ {"unhook"} =>
       /\ Unguarded(hooks)
       /\ op.settings.created /\ edits = 0 => hooks = Absent
  /\ pc \in Uninstalling \ {"unhook", "untrust"} => config \in {Absent, NoBlock}
  /\ pc \in {"remove manager", "remove legacy"} => bin[target]["csg"] # op.settings.hash
  /\ pc = "remove legacy" => bin[target]["codex-session-guard"] # op.settings.hash

\* As long as no user has edited anything, hooks.json is either a file that
\* only install has written, or a file of others that no settings claim.
OnlyOurs(groups) == groups = <<>> \/ (Len(groups) = 1 /\ onlyGuard(groups[1]))
OurFile(root)    == root \in Hooks /\ root.own /\ \A e \in Event : OnlyOurs(root.groups[e])
TheirFile(root)  == root \in Hooks /\ ~root.own
NotCreated(s)    == s # Absent => ~s.created

Unedited ==
  edits = 0 =>
    \/ /\ hooks = Absent \/ OurFile(hooks)
       /\ pc \in Changing => snap.hooks = Absent \/ OurFile(snap.hooks)
    \/ /\ TheirFile(hooks) /\ NotCreated(settings)
       /\ pc # "idle" => ~op.settings.created
       /\ pc \in Changing => TheirFile(snap.hooks) /\ NotCreated(snap.settings)

\* The groups of a file of ours after installing and after removing.
LEMMA OursInstalled ==
  ASSUME NEW groups \in Seq(Group), OnlyOurs(groups)
  PROVE  OnlyOurs(installGuardHookGroup(groups)) /\ removeGuardHookGroup(groups) = <<>>
<1>1. removeGuardHookGroup(groups) = <<>>
  BY RemovedGroups DEF OnlyOurs
<1>2. guardIndex(groups) = 1
  <2> DEFINE candidates == {i \in DOMAIN groups : onlyGuard(groups[i])} \cup {Len(groups) + 1}
  <2>1. 1 \in candidates /\ candidates \subseteq {1, 2}
    <3>1. DOMAIN groups = 1..Len(groups)
      OBVIOUS
    <3>2. CASE groups = <<>>
      BY <3>1, <3>2
    <3>3. CASE Len(groups) = 1 /\ onlyGuard(groups[1])
      <4>1. DOMAIN groups = {1}
        BY <3>1, <3>3
      <4> QED BY <3>3, <4>1
    <3> QED BY <3>2, <3>3 DEF OnlyOurs
  <2> HIDE DEF candidates
  <2>2. guardIndex(groups) = CHOOSE i \in candidates : \A j \in candidates : i <= j
    BY DEF guardIndex, candidates
  <2>3. \A i \in candidates : (\A j \in candidates : i <= j) <=> i = 1
    BY <2>1
  <2>4. \E i \in candidates : \A j \in candidates : i <= j
    BY <2>1, <2>3
  <2>5. guardIndex(groups) \in candidates /\ \A j \in candidates : guardIndex(groups) <= j
    BY <2>2, <2>4, Zenon
  <2> QED BY <2>3, <2>5
<1>3. Len(groups) \in {0, 1}
  BY DEF OnlyOurs
<1>4. installGuardHookGroup(groups) = [i \in 1..1 |-> expectedGuardGroup]
  <2>1. (IF 1 > Len(groups) THEN 1 ELSE Len(groups)) = 1
    BY <1>3
  <2>2. installGuardHookGroup(groups) =
          [i \in 1..(IF 1 > Len(groups) THEN 1 ELSE Len(groups)) |->
             IF i = 1 THEN expectedGuardGroup ELSE withoutGuard(groups[i])]
    BY <1>2 DEF installGuardHookGroup
  <2>3. \A i \in 1..1 : i = 1
    OBVIOUS
  <2> QED BY <2>1, <2>2, <2>3
<1>5. onlyGuard(expectedGuardGroup)
  BY Expected
<1> HIDE DEF onlyGuard, expectedGuardGroup
<1> QED BY <1>1, <1>4, <1>5 DEF OnlyOurs

LEMMA UneditedHook ==
  ASSUME TypeOK, Readable, Unedited, installHook PROVE Unedited'
<1>1. /\ OldHooks \in Hooks /\ pc = "hooks" /\ hooks' \in Hooks /\ hooks'.own = OldHooks.own
      /\ op'.settings = [op.settings EXCEPT !.key = op'.settings.key]
      /\ \A e \in Event : /\ hooks'.groups[e] = installGuardHookGroup(OldHooks.groups[e])
                          /\ OldHooks.groups[e] \in Seq(Group)
  BY Hooked
<1>2. pc' = "backupconfig" /\ snap' = snap /\ edits' = edits /\ settings' = settings
  BY DEF installHook, Advance
<1>3. op'.settings.created = op.settings.created
  <2>1. op.settings \in Settings
    BY <1>1, Typed, Working
  <2> QED BY <1>1, <2>1 DEF Settings
<1>4. SUFFICES ASSUME edits = 0 PROVE Unedited'
  BY <1>2 DEF Unedited
<1>5. CASE hooks = Absent \/ OurFile(hooks)
  <2>1. OldHooks.own /\ \A e \in Event : OnlyOurs(OldHooks.groups[e])
    BY <1>5, Contents DEF OldHooks, OurFile, NoGroups, OnlyOurs
  <2>2. OurFile(hooks')
    BY <1>1, <2>1, OursInstalled DEF OurFile
  <2>3. ASSUME snap.hooks = Absent \/ OurFile(snap.hooks) PROVE Unedited'
    BY <1>2, <2>2, <2>3 DEF Unedited
  <2>4. ~TheirFile(hooks)
    BY <1>5, Contents DEF TheirFile, OurFile
  <2> QED BY <1>1, <1>4, <2>3, <2>4 DEF Unedited
<1>6. CASE ~(hooks = Absent \/ OurFile(hooks))
  <2>1. /\ TheirFile(hooks) /\ NotCreated(settings) /\ ~op.settings.created
        /\ TheirFile(snap.hooks) /\ NotCreated(snap.settings)
    BY <1>1, <1>4, <1>6 DEF Unedited
  <2>2. TheirFile(hooks')
    BY <1>1, <1>6, <2>1 DEF TheirFile, OldHooks
  <2> QED BY <1>2, <1>3, <2>1, <2>2 DEF Unedited
<1> QED BY <1>5, <1>6

LEMMA UneditedUnhook ==
  ASSUME TypeOK, Unedited, uninstallHook
  PROVE  Unedited' /\ Unguarded(hooks') /\ (op.settings.created /\ edits = 0 => hooks' = Absent)
<1>1. /\ pc = "unhook" /\ pc' = "untrust" /\ UNCHANGED <<op, snap, edits, settings>>
      /\ hooks # Broken /\ (hooks = Absent => hooks' = Absent)
  BY DEF uninstallHook, Advance
<1>2. CASE hooks = Absent
  BY <1>1, <1>2, Contents DEF Unedited, Unguarded, TheirFile
<1>3. CASE hooks # Absent
  <2> DEFINE clean(e) == removeGuardHookGroup(hooks.groups[e])
             root     == [own |-> hooks.own, groups |-> [e \in Event |-> clean(e)]]
  <2>1. /\ \A e \in Event : hooks.groups[e] \in Seq(Group)
        /\ IF op.settings.created /\ hooks.own /\ \A e \in Event : clean(e) = <<>>
           THEN hooks' = Absent ELSE hooks' = root
    BY <1>1, <1>3, Unhooked
  <2>2. \A e \in Event : clean(e) \in Seq(Group) /\ GuardPlaces(clean(e)) = {}
    BY <2>1, RemovedGroups
  <2>3. hooks \in Hooks /\ hooks.own \in BOOLEAN
    BY <1>1, <1>3, Contents DEF TypeOK
  <2>4. /\ root \in Hooks /\ root.own = hooks.own
        /\ \A e \in Event : root.groups[e] = clean(e)
    <3> HIDE DEF clean
    <3> QED BY <2>2, <2>3 DEF Hooks
  <2>5. OurFile(hooks) => \A e \in Event : clean(e) = <<>>
    BY <2>1, OursInstalled DEF OurFile
  <2> HIDE DEF clean, root
  <2>6. Unguarded(hooks')
    BY <2>1, <2>2, <2>4 DEF Unguarded
  <2>7. OurFile(hooks) => hooks' = Absent \/ OurFile(hooks')
    BY <2>1, <2>4, <2>5 DEF OurFile, OnlyOurs
  <2>8. TheirFile(hooks) => TheirFile(hooks')
    BY <2>1, <2>4 DEF TheirFile
  <2>9. Unedited'
    BY <1>1, <1>3, <2>7, <2>8 DEF Unedited
  <2>10. op.settings.created /\ edits = 0 => hooks' = Absent
    <3>1. op.settings.created /\ edits = 0 => OurFile(hooks)
      BY <1>1, <1>3 DEF Unedited
    <3> QED BY <2>1, <2>5, <3>1 DEF OurFile
  <2> QED BY <2>6, <2>9, <2>10
<1> QED BY <1>2, <1>3

LEMMA UneditedKept == ASSUME IInv, TypeOK, Readable, Unedited, [Next]_vars PROVE Unedited'
<1>1. ASSUME UNCHANGED <<hooks, settings, edits>>,
             \/ pc' = "idle"
             \/ pc # "idle" /\ UNCHANGED <<op, snap>> /\ (pc' \in Changing => pc \in Changing)
      PROVE  Unedited'
  BY <1>1 DEF Unedited
<1>2. ASSUME NEW d \in Dir, NEW v \in Version, beginInstall(d, v) PROVE Unedited'
  <2>1. CASE pc' = "legacy"
    <3>1. /\ pc' = "legacy" /\ UNCHANGED <<hooks, settings, edits>>
          /\ op'.settings.created = IF previousMatches(d) THEN settings.created ELSE hooks = Absent
          /\ snap'.hooks = hooks /\ snap'.settings = settings
      BY <1>2, <2>1 DEF beginInstall, Finish, files
    <3>2. TheirFile(hooks) /\ NotCreated(settings) => ~op'.settings.created
      BY <3>1, Contents DEF TheirFile, NotCreated, previousMatches
    <3> QED BY <3>1, <3>2 DEF Unedited
  <2>2. CASE pc' # "legacy"
    BY <1>1, <1>2, <2>2 DEF beginInstall, files, Finish
  <2> QED BY <2>1, <2>2
<1>3. CASE beginUninstall
  <2>1. CASE settings # Absent
    <3>1. /\ pc' = "unhook" /\ UNCHANGED <<hooks, settings, edits>> /\ op'.settings = settings
      BY <1>3, <2>1 DEF beginUninstall, files
    <3> QED BY <2>1, <3>1 DEF Unedited, NotCreated
  <2>2. CASE settings = Absent
    BY <1>1, <1>3, <2>2 DEF beginUninstall, files, Finish
  <2> QED BY <2>1, <2>2
<1>4. ASSUME NEW fails \in BOOLEAN, restoreFile(fails) PROVE Unedited'
  <2>1. /\ pc = "rollback" /\ edits' = edits /\ hooks' \in {hooks, snap.hooks}
        /\ settings' \in {settings, snap.settings}
        /\ pc' = "idle" \/ (pc' = pc /\ op' = op /\ snap' = snap)
    BY <1>4 DEF restoreFile, Finish
  <2> QED BY <2>1 DEF Unedited
<1>5. CASE Install
  <2>1. CASE saveSettings
    <3>1. /\ pc = "settings" /\ pc' = "verify" /\ UNCHANGED <<hooks, edits, op, snap>>
          /\ settings' = op.settings
      BY <2>1 DEF saveSettings, Advance
    <3> QED BY <3>1 DEF Unedited, NotCreated
  <2>2. CASE restoreFiles
    BY <1>4, <2>2 DEF restoreFiles
  <2>3. CASE commitInstall \/ rejectInstall
    BY <1>1, <2>3 DEF commitInstall, rejectInstall, files, Finish
  <2>4. CASE removeLegacy \/ copyExecutable("codex-session-guard", "csg")
             \/ copyExecutable("csg", "backuphooks") \/ backupHooksOnce \/ backupConfigOnce
             \/ installTrustBlock
    BY <1>1, <2>4 DEF removeLegacy, copyExecutable, backupHooksOnce, backupConfigOnce, installTrustBlock,
       Advance
  <2> QED BY <1>5, <2>1, <2>2, <2>3, <2>4, UneditedHook DEF Install
<1>6. CASE Uninstall
  <2>1. CASE stripTrustBlock \/ removeCsg \/ removeManager
    BY <1>1, <2>1 DEF stripTrustBlock, removeCsg, removeManager, removeCommand, Advance
  <2>2. CASE endUninstall \/ rejectUninstall
    BY <1>1, <2>2 DEF endUninstall, rejectUninstall, removeCommand, files, Finish
  <2> QED BY <1>6, <2>1, <2>2, UneditedUnhook DEF Uninstall
<1>7. CASE StepFails
  <2>1. CASE restoreFile(TRUE)
    BY <1>4, <2>1
  <2>2. CASE ~restoreFile(TRUE)
    BY <1>1, <1>7, <2>2 DEF StepFails, files, Finish
  <2> QED BY <2>1, <2>2
<1>8. CASE Kill
  BY <1>1, <1>8 DEF Kill, files, Finish
<1>9. CASE UserEdits \/ ForeignCommand
  <2>1. edits \in 0..MaxEdits /\ edits' = edits + 1
    BY <1>9, Typed DEF UserEdits, ForeignCommand, Idle, RestTyped
  <2>2. edits' # 0
    BY <2>1, BoundAssumption
  <2> QED BY <2>2 DEF Unedited
<1>10. CASE UNCHANGED vars
  <2>1. UNCHANGED <<hooks, settings, edits, op, snap, pc>>
    BY <1>10 DEF vars
  <2> QED BY <2>1 DEF Unedited
<1> QED BY <1>2, <1>3, <1>5, <1>6, <1>7, <1>8, <1>9, <1>10 DEF Next

LEMMA UneditedInvariant == Spec => []Unedited
<1>1. Init => Unedited
  <2> SUFFICES ASSUME Init PROVE hooks = Absent \/ OurFile(hooks) \/ (TheirFile(hooks) /\ settings = Absent)
    BY DEF Init, Unedited, NotCreated
  <2> DEFINE legacy == [own |-> FALSE, hooks |-> <<"legacy">>]
  <2>1. hooks \in Hooks \cup {Absent, Broken}
    BY StartTypes DEF TypeOK
  <2>2. onlyGuard(legacy)
    <3>1. <<"legacy">> \in Seq(Handler) /\ isGuardHookCommand("legacy")
      BY DEF Handler, GuardHandler, isGuardHookCommand
    <3>2. \A j \in DOMAIN <<"legacy">> : isGuardHookCommand(<<"legacy">>[j])
      BY <3>1
    <3>3. handlersWithoutGuard(<<"legacy">>) = <<>>
      BY <3>1, <3>2, WithoutGuard
    <3> QED BY <3>1, <3>3 DEF onlyGuard, groupHasGuardCommand
  <2>3. OnlyOurs(<<legacy>>)
    BY <2>2 DEF OnlyOurs
  <2> HIDE DEF legacy
  <2>4. \/ hooks = Absent
        \/ hooks = [own |-> FALSE, groups |-> NoGroups] /\ settings = Absent
        \/ hooks = [own |-> TRUE, groups |-> [e \in Event |-> <<legacy>>]]
    BY DEF Init, legacy
  <2>5. ASSUME hooks = [own |-> TRUE, groups |-> [e \in Event |-> <<legacy>>]] PROVE OurFile(hooks)
    <3>1. hooks \in Hooks
      <4>1. legacy \in Group
        BY DEF legacy, Group, Handler, GuardHandler
      <4>2. <<legacy>> \in Seq(Group)
        BY <4>1
      <4> QED BY <2>5, <4>2 DEF Hooks
    <3> QED BY <2>3, <2>5, <3>1 DEF OurFile
  <2>6. ASSUME hooks = [own |-> FALSE, groups |-> NoGroups] PROVE TheirFile(hooks)
    BY <2>6 DEF TheirFile, Hooks, NoGroups
  <2> QED BY <2>4, <2>5, <2>6
<1> QED BY <1>1, UneditedKept, Invariance, TypesInvariant, PTL DEF Spec

LEMMA ClearedKept ==
  ASSUME IInv, TypeOK, Readable, Unedited, Cleared, [Next]_vars PROVE Cleared'
<1>1. ASSUME pc' \notin Uninstalling \ {"unhook"} PROVE Cleared'
  BY <1>1 DEF Cleared
<1>2. pc \in Uninstalling => op.settings.hash # Absent /\ target \in Dir
  BY Uninstaller
<1>3. CASE uninstallHook
  <2>1. pc' = "untrust" /\ UNCHANGED <<op, edits>>
    BY <1>3 DEF uninstallHook, Advance
  <2> QED BY <1>3, <2>1, UneditedUnhook DEF Cleared
<1>4. CASE stripTrustBlock
  <2>1. /\ pc = "untrust" /\ pc' = "remove csg" /\ UNCHANGED <<hooks, op, edits>>
        /\ config' \in {Absent, NoBlock}
    BY <1>4 DEF stripTrustBlock, Advance
  <2> QED BY <2>1 DEF Cleared
<1>5. CASE removeCsg
  <2>1. /\ pc = "remove csg" /\ pc' = "remove manager" /\ UNCHANGED <<hooks, config, op, edits>>
        /\ removeCommand("csg")
    BY <1>5 DEF removeCsg, removeCommand, Advance
  <2>2. bin'[target]["csg"] # op.settings.hash
    <3>1. pc \in Uninstalling /\ "csg" \in Command
      BY <2>1
    <3>2. \A d \in Dir, x \in Command :
            bin'[d][x] = IF d = target /\ x = "csg" /\ bin[d][x] = op.settings.hash
                         THEN Absent ELSE bin[d][x]
      BY <2>1, <3>1, RemovedCommand
    <3> QED BY <1>2, <3>1, <3>2
  <2> QED BY <2>1, <2>2 DEF Cleared, target
<1>6. CASE removeManager
  <2>1. /\ pc = "remove manager" /\ pc' = "remove legacy" /\ UNCHANGED <<hooks, config, op, edits>>
        /\ removeCommand("codex-session-guard")
    BY <1>6 DEF removeManager, removeCommand, Advance
  <2>2. /\ bin'[target]["codex-session-guard"] # op.settings.hash
        /\ bin'[target]["csg"] = bin[target]["csg"]
    <3>1. pc \in Uninstalling /\ "codex-session-guard" \in Command /\ "csg" \in Command
      BY <2>1
    <3>2. \A d \in Dir, x \in Command :
            bin'[d][x] = IF d = target /\ x = "codex-session-guard" /\ bin[d][x] = op.settings.hash
                         THEN Absent ELSE bin[d][x]
      BY <2>1, <3>1, RemovedCommand
    <3> QED BY <1>2, <3>1, <3>2
  <2> QED BY <2>1, <2>2 DEF Cleared, target
<1>7. CASE endUninstall \/ rejectUninstall \/ beginUninstall \/ Kill
  <2>1. pc' \in {"idle", "unhook"}
    BY <1>7 DEF endUninstall, rejectUninstall, beginUninstall, Kill, Finish
  <2> QED BY <1>1, <2>1
<1>8. ASSUME NEW d \in Dir, NEW v \in Version, beginInstall(d, v) PROVE Cleared'
  BY <1>1, <1>8 DEF beginInstall, Finish
<1>9. CASE Install
  <2>1. pc' \notin Uninstalling
    BY <1>9 DEF Install, Advance, removeLegacy, copyExecutable, backupHooksOnce, installHook,
       backupConfigOnce, installTrustBlock, saveSettings, commitInstall, rejectInstall, restoreFiles,
       restoreFile, Finish
  <2> QED BY <1>1, <2>1
<1>10. CASE StepFails
  <2>1. pc' \notin Uninstalling
    BY <1>10 DEF StepFails, restoreFile, Finish
  <2> QED BY <1>1, <2>1
<1>11. CASE UserEdits \/ ForeignCommand
  <2>1. pc' = "idle"
    BY <1>11 DEF UserEdits, ForeignCommand, Idle
  <2> QED BY <1>1, <2>1
<1>12. CASE UNCHANGED vars
  <2>1. UNCHANGED <<bin, hooks, config, edits, op, pc>>
    BY <1>12 DEF vars
  <2> QED BY <2>1 DEF Cleared, target
<1> QED BY <1>3, <1>4, <1>5, <1>6, <1>7, <1>8, <1>9, <1>10, <1>11, <1>12 DEF Next, Uninstall

LEMMA ClearedInvariant == Spec => []Cleared
<1>1. Init => Cleared
  BY DEF Init, Cleared
<1> QED BY <1>1, ClearedKept, Invariance, TypesInvariant, UneditedInvariant, PTL DEF Spec

\* After an uninstallation nothing of the guard is left in the hooks, the
\* trust records or the recorded directory, and a hooks.json it has created
\* and nobody has edited is gone, whatever installs failed or were killed
\* before.
THEOREM NothingLeftTheorem == Spec => []NothingLeft
<1>1. Init => NothingLeft
  BY DEF Init, NothingLeft
<1>2. ASSUME IInv, Silent, Cleared, NothingLeft, [Next]_vars PROVE NothingLeft'
  <2>1. ASSUME outcome' # "uninstalled" PROVE NothingLeft'
    BY <2>1 DEF NothingLeft
  <2>2. CASE endUninstall
    <3>1. /\ pc = "remove legacy" /\ removeCommand("codex-recover")
          /\ UNCHANGED <<hooks, config, settings, edits>>
      BY <2>2 DEF endUninstall, removeCommand
    <3>2. /\ settings # Absent /\ op.settings = settings /\ target = settings.dir /\ target \in Dir
          /\ settings.hash # Absent
      BY <1>2, <3>1, Uninstaller
    <3>3. \A c \in Command :
            bin'[target][c] = IF c = "codex-recover" /\ bin[target][c] = settings.hash
                              THEN Absent ELSE bin[target][c]
      <4>1. pc \in Uninstalling /\ "codex-recover" \in Command
        BY <3>1
      <4>2. \A d \in Dir, x \in Command :
              bin'[d][x] = IF d = target /\ x = "codex-recover" /\ bin[d][x] = op.settings.hash
                           THEN Absent ELSE bin[d][x]
        BY <1>2, <3>1, <4>1, RemovedCommand
      <4> QED BY <3>2, <4>2
    <3>4. \A c \in Command : bin'[settings.dir][c] # settings.hash
      BY <1>2, <3>1, <3>2, <3>3 DEF Cleared
    <3>5. /\ config \in {Absent, NoBlock} /\ Unguarded(hooks)
          /\ settings.created /\ edits = 0 => hooks = Absent
      BY <1>2, <3>1, <3>2 DEF Cleared
    <3> QED BY <3>1, <3>4, <3>5 DEF NothingLeft, Unguarded
  <2>3. CASE Install
    BY <1>2, <2>1, <2>3 DEF Silent, Install, Advance, removeLegacy, copyExecutable, backupHooksOnce,
       installHook, backupConfigOnce, installTrustBlock, saveSettings, commitInstall, rejectInstall,
       restoreFiles, restoreFile, Finish
  <2>4. CASE Uninstall /\ ~endUninstall
    BY <1>2, <2>1, <2>4 DEF Silent, Uninstall, Advance, uninstallHook, stripTrustBlock, removeCsg,
       removeManager, rejectUninstall, Finish
  <2>5. CASE beginUninstall \/ Kill \/ UserEdits \/ ForeignCommand
    BY <2>1, <2>5 DEF beginUninstall, Kill, UserEdits, ForeignCommand, Idle, Finish
  <2>6. CASE StepFails
    BY <1>2, <2>1, <2>6 DEF Silent, StepFails, restoreFile, Finish
  <2>7. ASSUME NEW d \in Dir, NEW v \in Version, beginInstall(d, v) PROVE NothingLeft'
    BY <2>1, <2>7 DEF beginInstall, Finish
  <2>8. CASE UNCHANGED vars
    <3>1. UNCHANGED <<bin, hooks, config, settings, edits, outcome>>
      BY <2>8 DEF vars
    <3> QED BY <1>2, <3>1 DEF NothingLeft
  <2> QED BY <1>2, <2>2, <2>3, <2>4, <2>5, <2>6, <2>7, <2>8 DEF Next
<1> QED BY <1>1, <1>2, Invariance, SilentInvariant, ClearedInvariant, PTL DEF Spec
=============================================================================
