------------------------------ MODULE HookFile ------------------------------
(***************************************************************************)
(* hooks.json and the trust records in config.toml, as the installer reads *)
(* and writes them.  Codex runs a handler only if config.toml trusts it at *)
(* its position: event, index of the group, index in the group.            *)
(***************************************************************************)
EXTENDS Integers, Sequences

CONSTANTS Event,       \* the hook events of the guard: SessionStart, SessionEnd
          UserHandler  \* handlers of others

\* Handlers that run the guard: as this version writes them, with the command
\* of an older Windows version, and with fields somebody has changed.
GuardHandler == {"guard", "legacy", "edited"}

ASSUME HandlerAssumption == UserHandler \cap GuardHandler = {}

Handler == UserHandler \cup GuardHandler

\* A group of handlers; "own" says that its other fields are those of the
\* group of the guard, that is the matcher and nothing else.
Group == [own : BOOLEAN, hooks : Seq(Handler)]

isGuardHookCommand(handler) == handler \in GuardHandler

expectedGuardGroup == [own |-> TRUE, hooks |-> <<"guard">>]

groupIsExpectedGuard(group) == group = expectedGuardGroup

groupHasGuardCommand(group) ==
  \E j \in DOMAIN group.hooks : isGuardHookCommand(group.hooks[j])

\* The handlers of others in their order; kept[n] is what is left of the
\* first n.
handlersWithoutGuard(handlers) ==
  LET kept[n \in 0..Len(handlers)] ==
        IF n = 0 THEN <<>>
        ELSE IF isGuardHookCommand(handlers[n]) THEN kept[n - 1]
        ELSE Append(kept[n - 1], handlers[n])
  IN kept[Len(handlers)]

withoutGuard(group) == [group EXCEPT !.hooks = handlersWithoutGuard(@)]

\* No handler but the guard's: the group may be replaced.
onlyGuard(group) ==
  groupHasGuardCommand(group) /\ handlersWithoutGuard(group.hooks) = <<>>

\* The index the group of the guard gets: that of the first group that is
\* only the guard's, or one past the end.
guardIndex(groups) ==
  LET candidates == {i \in DOMAIN groups : onlyGuard(groups[i])} \cup {Len(groups) + 1}
  IN CHOOSE i \in candidates : \A j \in candidates : i <= j

\* Mutant: only the group that is replaced loses its handlers.
installReplacingOne(groups) ==
  LET n == guardIndex(groups)
  IN [i \in 1..(IF n > Len(groups) THEN n ELSE Len(groups)) |->
        IF i = n THEN expectedGuardGroup ELSE groups[i]]

\* Every other group loses the guard's handlers and keeps its place.
installGuardHookGroup(groups) ==
  LET n == guardIndex(groups)
  IN [i \in 1..(IF n > Len(groups) THEN n ELSE Len(groups)) |->
        IF i = n THEN expectedGuardGroup ELSE withoutGuard(groups[i])]

\* Mutants: groups that become empty leave no placeholder; only the guard's
\* complete group is removed.
removeWithoutPlaceholders(groups) ==
  LET isKept(group) == ~onlyGuard(group)
      kept == SelectSeq(groups, isKept)
  IN [i \in DOMAIN kept |-> withoutGuard(kept[i])]
removeExpectedOnly(groups) ==
  LET isKept(group) == ~groupIsExpectedGuard(group)
  IN SelectSeq(groups, isKept)

\* A group that becomes empty stays as a placeholder, unless it is the last.
removeGuardHookGroup(groups) ==
  LET n       == Len(groups)
      cleaned == [i \in 1..n |-> withoutGuard(groups[i])]
  IN IF n > 0 /\ onlyGuard(groups[n]) THEN SubSeq(cleaned, 1, n - 1) ELSE cleaned

\* The first complete group of the guard, 0 if there is none.
foundIndex(groups) ==
  LET found == {i \in DOMAIN groups : groupIsExpectedGuard(groups[i])}
  IN IF found = {} THEN 0 ELSE CHOOSE i \in found : \A j \in found : i <= j

-----------------------------------------------------------------------------
(* What the rest of the project says about groups.                         *)

\* Where the guard's handlers are: group and place in the group.
GuardPlaces(groups) ==
  UNION {{<<i, j>> : j \in {k \in DOMAIN groups[i].hooks :
                              isGuardHookCommand(groups[i].hooks[k])}} : i \in DOMAIN groups}

\* The groups of others with their index, without the guard's handlers.
OthersOf(groups) ==
  {<<i, withoutGuard(groups[i])>> :
     i \in {k \in DOMAIN groups : handlersWithoutGuard(groups[k].hooks) # <<>>}}
=============================================================================
