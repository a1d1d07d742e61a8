------------------------------ MODULE MCPanel ------------------------------
(***************************************************************************)
(* What the panel changes: the configuration and its copies, the life of   *)
(* the account's runtime, the pools and routes of the models.  The three   *)
(* share no variable of these models, so a behaviour runs one of them,     *)
(* chosen at the start.                                                    *)
(***************************************************************************)
EXTENDS Integers, Sequences, SequencesExt

CONSTANTS
    Editors, Polls, MaxWrites,
    Requests, MaxRequests, LifeTroubles,
    Ids, MaxEdits,
    MaxTroubles

ASSUME PanelAssumption ==
    {MaxWrites, MaxRequests, LifeTroubles, MaxEdits, MaxTroubles} \subseteq Nat

VARIABLES
    part,
    writes, troubles, disk, raw, reg, acct, live, binding, stale, refresh, form,
    code, lock, poll, wanted, torn,
    requests, lifeTroubles, made, scheduler, brain, bili, task, started, loops,
    open, request, overlap, orphans, bare, replaced,
    edits, routerTroubles, pool, route, fallback, file, llm, chat, embedding,
    refused, routerTorn

Copies == INSTANCE Settings
Life == INSTANCE AccountLife WITH MaxTroubles <- LifeTroubles, troubles <- lifeTroubles
Router == INSTANCE ModelRouter WITH troubles <- routerTroubles, torn <- routerTorn

settingVars == <<writes, troubles, disk, raw, reg, acct, live, binding, stale,
                 refresh, form, code, lock, poll, wanted, torn>>
lifeVars == <<requests, lifeTroubles, made, scheduler, brain, bili, task, started,
              loops, open, request, overlap, orphans, bare, replaced>>
routerVars == <<edits, routerTroubles, pool, route, fallback, file, llm, chat,
                embedding, refused, routerTorn>>
vars == <<part, settingVars, lifeVars, routerVars>>

Init ==
    /\ part \in {"settings", "life", "router"}
    /\ Copies!Init /\ Life!Init /\ Router!Init

RunSettings == part = "settings" /\ Copies!Next /\ UNCHANGED <<part, lifeVars, routerVars>>
RunLife == part = "life" /\ Life!Next /\ UNCHANGED <<part, settingVars, routerVars>>
RunRouter == part = "router" /\ Router!Next /\ UNCHANGED <<part, settingVars, lifeVars>>

Next == RunSettings \/ RunLife \/ RunRouter
Spec == Init /\ [][Next]_vars

\* What the run checks, stated and explained in the modules themselves.
EditsSurvive == Copies!EditsSurvive
CopiesAgree == Copies!CopiesAgree

\* One loop and one brain while the account runs, none when it is stopped.
OneLoop == Life!OneLoop /\ Life!StoppedHoldsNothing

\* No route leads nowhere, and the memory follows the router.
RoutesHold == Router!NeverWithout /\ Router!MemoryFollowsRouter
=============================================================================
